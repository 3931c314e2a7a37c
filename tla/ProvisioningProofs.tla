------------------------- MODULE ProvisioningProofs -------------------------
(***************************************************************************)
(* Theorems about provisioning, for any blueprints that meet the           *)
(* assumptions of Provisioning, any number of runs, stops and edits.       *)
(***************************************************************************)
EXTENDS Provisioning, SequenceTheorems, TLAPS

(* ------------------------------ invariants ----------------------------- *)

Names == DOMAIN blueprint.vars \cup DOMAIN blueprint.stores \cup DOMAIN blueprint.services

GroupsOf(s) == Range(blueprint.services[s].groups)

Asked == UNION {GroupsOf(s) : s \in DOMAIN blueprint.services}

Statuses == {"exists", "DRIFT", "would create", "created", "already linked", "linked", "FAILED"}

Run == [mode : {"none", "preflight", "provision"}, pc : {"idle", "listing", "working", "linking"},
        at : Nat \ {0}, seen : SUBSET Names, todo : Seq(Asked),
        report : SUBSET ((Names \cup Asked) \X Statuses),
        result : {"none", "drift", "failed", "preflight", "applied", "stopped"}, misled : BOOLEAN]

\* The values the blueprint gives a group.
Matches(g) == \A n \in DOMAIN Declared(g) : Is(group[g], n, Declared(g)[n])

\* A group holds its own variables, what was spelled out unchanged but where a person may edit.
GroupSound(g) ==
  /\ g \in GroupNames
  /\ DOMAIN group[g] \subseteq DOMAIN blueprint.vars[g]
  /\ \A n \in Literals(blueprint.vars[g]) :
       n \in DOMAIN group[g] /\ (n \in Editable \/ group[g][n] = blueprint.vars[g][n])

ServiceSound(s) ==
  /\ s \in DOMAIN blueprint.services
  /\ DOMAIN service[s] = DOMAIN blueprint.services[s].vars
  /\ \A n \in Literals(blueprint.services[s].vars) :
       service[s][n] = blueprint.services[s].vars[n]

\* An environment that parses has all that was reviewed.
Reviewed(s, env) ==
  LET reviewed == VariablesFor(blueprint, s) IN
  \A n \in Literals(reviewed) : Has(env, n) /\ (n \in Editable \/ env[n] = reviewed[n])

InstanceSound(s) ==
  /\ process[s] = [env |-> process[s].env, phase |-> process[s].phase]
  /\ process[s].phase = "in rotation" /\ ParseEnv(process[s].env) = {} => Reviewed(s, process[s].env)
  /\ process[s].phase = "serving" => Reviewed(s, process[s].env)

AccountSound ==
  /\ blueprint \in Blueprints
  /\ \A g \in DOMAIN group : GroupSound(g)
  /\ stores \subseteq DOMAIN blueprint.stores
  /\ \A s \in DOMAIN service : ServiceSound(s)
  /\ \A l \in links : \E s \in DOMAIN blueprint.services : \E g \in GroupsOf(s) : l = <<g, s>>
  /\ DOMAIN process = DOMAIN blueprint.services
  /\ \A s \in DOMAIN process : InstanceSound(s)

RunSound ==
  /\ run \in Run
  /\ run.pc # "idle" => run.result = "none" /\ run.mode # "none"
  /\ run.pc = "listing" => run.at = 1
  /\ run.pc = "linking" =>
       /\ run.at \in DOMAIN blueprint.order
       /\ blueprint.order[run.at] \in DOMAIN blueprint.services
       /\ run.mode = "provision"
       /\ Range(run.todo) \subseteq GroupsOf(blueprint.order[run.at])

\* What a run that nobody disturbed has done of resource r.
Handled(r) ==
  /\ r \in Listed
  /\ r \in GroupNames /\ ~HasStatus("DRIFT") => Matches(r)
  /\ r \in DOMAIN blueprint.services /\ ~HasStatus("FAILED") =>
       \A g \in GroupsOf(r) : <<g, r>> \in links

\* How far it has come.
Progress ==
  /\ run.pc \in {"working", "linking"} =>
       /\ run.seen \subseteq Listed
       /\ run.mode = "provision" => \A i \in 1..(run.at - 1) : i \in DOMAIN blueprint.order =>
                                       Handled(blueprint.order[i])
  /\ run.pc = "linking" =>
       /\ blueprint.order[run.at] \in Listed
       /\ HasStatus("FAILED") \/ \A g \in GroupsOf(blueprint.order[run.at]) :
                                   <<g, blueprint.order[run.at]>> \in links \/ g \in Range(run.todo)

IInv == /\ AccountSound
        /\ RunSound
        /\ ~run.misled => Progress /\ (run.result = "applied" => Complete)

(* ------------------------------ operators ------------------------------ *)

\* What Over makes of two functions.
LEMMA OverFacts ==
  ASSUME NEW f, NEW g
  PROVE  /\ DOMAIN Over(f, g) = DOMAIN f \cup DOMAIN g
         /\ \A n \in DOMAIN f : Over(f, g)[n] = f[n]
         /\ \A n \in DOMAIN g : n \notin DOMAIN f => Over(f, g)[n] = g[n]
BY DEF Over

\* The union of functions that share no argument says of each what the one that knows it says.
LEMMA UnionFacts ==
  ASSUME NEW F, \A f, g \in F : DOMAIN f \cap DOMAIN g # {} => f = g
  PROVE  /\ DOMAIN Union(F) = UNION {DOMAIN f : f \in F}
         /\ \A f \in F : \A n \in DOMAIN f : Union(F)[n] = f[n]
<1>1. DOMAIN Union(F) = UNION {DOMAIN f : f \in F}
  BY DEF Union
<1>2. ASSUME NEW f \in F, NEW n \in DOMAIN f PROVE Union(F)[n] = f[n]
  <2> DEFINE h == CHOOSE h \in F : n \in DOMAIN h
  <2>1. n \in UNION {DOMAIN k : k \in F}
    OBVIOUS
  <2>2. Union(F)[n] = h[n]
    BY <2>1 DEF Union
  <2>3. h \in F /\ n \in DOMAIN h
    OBVIOUS
  <2>4. h = f
    BY <2>3
  <2> QED BY <2>2, <2>4
<1> QED BY <1>1, <1>2

\* A queue is its head and its tail.
LEMMA QueueFacts ==
  ASSUME NEW S, NEW q \in Seq(S), q # <<>>
  PROVE  /\ Tail(q) \in Seq(S)
         /\ Head(q) \in Range(q)
         /\ Range(Tail(q)) \subseteq Range(q)
         /\ \A x \in Range(q) : x = Head(q) \/ x \in Range(Tail(q))
<1>1. /\ Len(q) \in Nat /\ Len(q) >= 1 /\ DOMAIN q = 1..Len(q)
      /\ Head(q) = q[1]
      /\ Tail(q) \in Seq(S) /\ Len(Tail(q)) = Len(q) - 1
      /\ \A i \in 1..(Len(q) - 1) : Tail(q)[i] = q[i + 1]
  BY EmptySeq, HeadTailProperties
<1>2. DOMAIN Tail(q) = 1..(Len(q) - 1)
  BY <1>1
<1>3. Range(Tail(q)) \subseteq Range(q)
  <2> SUFFICES ASSUME NEW i \in DOMAIN Tail(q) PROVE \E j \in DOMAIN q : q[j] = Tail(q)[i]
    BY DEF Range
  <2>1. i \in Nat /\ i + 1 \in DOMAIN q /\ q[i + 1] = Tail(q)[i]
    BY <1>1, <1>2
  <2> QED BY <2>1
<1>4. ASSUME NEW j \in DOMAIN q PROVE q[j] = Head(q) \/ q[j] \in Range(Tail(q))
  <2>1. CASE j = 1
    BY <1>1, <2>1
  <2>2. CASE j # 1
    <3>1. j - 1 \in DOMAIN Tail(q) /\ Tail(q)[j - 1] = q[j]
      BY <1>1, <1>2, <2>2
    <3> QED BY <3>1 DEF Range
  <2> QED BY <2>1, <2>2
<1> QED BY <1>1, <1>3, <1>4 DEF Range

\* What reaches a service: of each of its groups its variables, and its own.
LEMMA VariablesForFacts ==
  ASSUME NEW bp \in Blueprints, NEW s \in DOMAIN bp.services
  PROVE  LET wired == VariablesFor(bp, s)
             asked == Range(bp.services[s].groups) \cap DOMAIN bp.vars
         IN /\ DOMAIN wired = (UNION {DOMAIN bp.vars[g] : g \in asked}) \cup DOMAIN bp.services[s].vars
            /\ \A g \in asked : \A n \in DOMAIN bp.vars[g] : wired[n] = bp.vars[g][n]
            /\ \A n \in DOMAIN bp.services[s].vars : wired[n] = bp.services[s].vars[n]
<1> DEFINE asked == Range(bp.services[s].groups) \cap DOMAIN bp.vars
           own == bp.services[s].vars
           F == {bp.vars[g] : g \in asked}
           U == Union(F)
<1>1. \A f, g \in F : DOMAIN f \cap DOMAIN g # {} => f = g
  BY VariablesAssumption
<1>2. /\ DOMAIN U = UNION {DOMAIN f : f \in F}
      /\ \A f \in F : \A n \in DOMAIN f : U[n] = f[n]
  <2> HIDE DEF F
  <2> QED BY <1>1, UnionFacts
<1>3. UNION {DOMAIN f : f \in F} = UNION {DOMAIN bp.vars[g] : g \in asked}
  OBVIOUS
<1>4. VariablesFor(bp, s) = Over(U, own)
  BY DEF VariablesFor
<1>5. /\ DOMAIN VariablesFor(bp, s) = DOMAIN U \cup DOMAIN own
      /\ \A n \in DOMAIN U : VariablesFor(bp, s)[n] = U[n]
      /\ \A n \in DOMAIN own : n \notin DOMAIN U => VariablesFor(bp, s)[n] = own[n]
  <2> DEFINE V == VariablesFor(bp, s)
  <2>1. V = Over(U, own)
    BY <1>4
  <2> HIDE DEF U, own, V
  <2>2. /\ DOMAIN Over(U, own) = DOMAIN U \cup DOMAIN own
        /\ \A n \in DOMAIN U : Over(U, own)[n] = U[n]
        /\ \A n \in DOMAIN own : n \notin DOMAIN U => Over(U, own)[n] = own[n]
    BY OverFacts
  <2>3. /\ DOMAIN V = DOMAIN U \cup DOMAIN own
        /\ \A n \in DOMAIN U : V[n] = U[n]
        /\ \A n \in DOMAIN own : n \notin DOMAIN U => V[n] = own[n]
    BY <2>1, <2>2
  <2> QED BY <2>3 DEF V
<1>6. ASSUME NEW g \in asked, NEW n \in DOMAIN bp.vars[g]
      PROVE  VariablesFor(bp, s)[n] = bp.vars[g][n]
  <2>1. bp.vars[g] \in F
    OBVIOUS
  <2>2. n \in DOMAIN U /\ U[n] = bp.vars[g][n]
    BY <2>1, <1>2
  <2> QED BY <2>2, <1>5
<1>7. ASSUME NEW n \in DOMAIN own PROVE VariablesFor(bp, s)[n] = own[n]
  <2>1. n \notin DOMAIN U
    BY <1>2, <1>3, VariablesAssumption
  <2> QED BY <2>1, <1>5
<1>8. DOMAIN VariablesFor(bp, s) = (UNION {DOMAIN bp.vars[g] : g \in asked}) \cup DOMAIN own
  BY <1>2, <1>3, <1>5
<1> QED BY <1>6, <1>7, <1>8

\* The groups linked to a service, and which of its own variables an instance is given.
LinkedTo(s) == {h \in DOMAIN group : <<h, s>> \in links}

Known(s) == {n \in DOMAIN service[s] : service[s][n] \in References =>
               \E r \in stores : blueprint.stores[r].kind = service[s][n]}

\* What an instance is started with: its own variables, those of its groups, the image's.
LEMMA EnvOfFacts ==
  ASSUME AccountSound, NEW s \in DOMAIN service
  PROVE  LET given == UNION {DOMAIN group[g] : g \in LinkedTo(s)} IN
         /\ LinkedTo(s) \subseteq GroupsOf(s) \cap GroupNames
         /\ DOMAIN EnvOf(s) = Known(s) \cup given \cup {"NODE_ENV"}
         /\ \A n \in Known(s) :
              EnvOf(s)[n] = IF service[s][n] \in References THEN "own" ELSE service[s][n]
         /\ \A g \in LinkedTo(s) : \A n \in DOMAIN group[g] \ Known(s) : EnvOf(s)[n] = group[g][n]
         /\ "NODE_ENV" \notin Known(s) \cup given => EnvOf(s)["NODE_ENV"] = "production"
<1> DEFINE own == service[s]
           O == [n \in Known(s) |-> IF own[n] \in References THEN "own" ELSE own[n]]
           G == {group[g] : g \in LinkedTo(s)}
           U == Union(G)
           E == EnvOf(s)
<1>1. blueprint \in Blueprints /\ \A g \in DOMAIN group : GroupSound(g)
  BY DEF AccountSound
<1>2. ASSUME NEW g \in LinkedTo(s) PROVE g \in GroupsOf(s) \cap GroupNames
  <2>1. PICK t \in DOMAIN blueprint.services : \E h \in GroupsOf(t) : <<g, s>> = <<h, t>>
    BY DEF AccountSound, LinkedTo
  <2>2. g \in GroupsOf(s)
    BY <2>1
  <2> QED BY <2>2, <1>1 DEF GroupSound, LinkedTo
<1>3. \A f, h \in G : DOMAIN f \cap DOMAIN h # {} => f = h
  <2> SUFFICES ASSUME NEW a \in LinkedTo(s), NEW b \in LinkedTo(s),
                      DOMAIN group[a] \cap DOMAIN group[b] # {}
               PROVE  a = b
    OBVIOUS
  <2>1. /\ a \in GroupNames /\ b \in GroupNames
        /\ DOMAIN group[a] \subseteq DOMAIN blueprint.vars[a]
        /\ DOMAIN group[b] \subseteq DOMAIN blueprint.vars[b]
    BY <1>1 DEF GroupSound, LinkedTo
  <2> QED BY <2>1, <1>1, VariablesAssumption DEF GroupNames
<1>4. /\ DOMAIN U = UNION {DOMAIN f : f \in G}
      /\ \A f \in G : \A n \in DOMAIN f : U[n] = f[n]
  <2> HIDE DEF G
  <2> QED BY <1>3, UnionFacts
<1>5. /\ DOMAIN U = UNION {DOMAIN group[g] : g \in LinkedTo(s)}
      /\ \A g \in LinkedTo(s) : \A n \in DOMAIN group[g] : n \in DOMAIN U /\ U[n] = group[g][n]
  BY <1>4
<1>6. DOMAIN Image = {"NODE_ENV"} /\ Image["NODE_ENV"] = "production"
  BY DEF Image
<1>7. /\ DOMAIN E = DOMAIN O \cup (DOMAIN U \cup DOMAIN Image)
      /\ \A n \in DOMAIN O : E[n] = O[n]
      /\ \A n \in DOMAIN U : n \notin DOMAIN O => E[n] = U[n]
      /\ \A n \in DOMAIN Image : n \notin DOMAIN O \cup DOMAIN U => E[n] = Image[n]
  <2>1. E = Over(O, Over(U, Image))
    BY DEF EnvOf, Known, LinkedTo
  <2> HIDE DEF O, U, E
  <2> DEFINE rest == Over(U, Image)
  <2>2. /\ DOMAIN rest = DOMAIN U \cup DOMAIN Image
        /\ \A n \in DOMAIN U : rest[n] = U[n]
        /\ \A n \in DOMAIN Image : n \notin DOMAIN U => rest[n] = Image[n]
    BY OverFacts
  <2>3. E = Over(O, rest)
    BY <2>1
  <2> HIDE DEF rest
  <2>4. /\ DOMAIN Over(O, rest) = DOMAIN O \cup DOMAIN rest
        /\ \A n \in DOMAIN O : Over(O, rest)[n] = O[n]
        /\ \A n \in DOMAIN rest : n \notin DOMAIN O => Over(O, rest)[n] = rest[n]
    BY OverFacts
  <2> QED BY <2>2, <2>3, <2>4
<1>8. DOMAIN O = Known(s) /\ \A n \in Known(s) : O[n] = IF own[n] \in References THEN "own" ELSE own[n]
  OBVIOUS
<1>9. LinkedTo(s) \subseteq GroupsOf(s) \cap GroupNames
  BY <1>2
<1> HIDE DEF U, O, E
<1>10. DOMAIN E = Known(s) \cup (UNION {DOMAIN group[g] : g \in LinkedTo(s)}) \cup {"NODE_ENV"}
  BY <1>5, <1>6, <1>7, <1>8
<1>11. \A n \in Known(s) : E[n] = IF own[n] \in References THEN "own" ELSE own[n]
  BY <1>7, <1>8
<1>12. \A g \in LinkedTo(s) : \A n \in DOMAIN group[g] \ Known(s) : E[n] = group[g][n]
  BY <1>5, <1>7, <1>8
<1>13. "NODE_ENV" \notin Known(s) \cup (UNION {DOMAIN group[g] : g \in LinkedTo(s)})
         => E["NODE_ENV"] = "production"
  BY <1>5, <1>6, <1>7, <1>8
<1> QED BY <1>9, <1>10, <1>11, <1>12, <1>13 DEF E

\* No instance starts with part of what was reviewed: a group it lacks is missed by the schema.
LEMMA ParsedIsReviewed ==
  ASSUME AccountSound, NEW s \in DOMAIN service, SchemaIssues(EnvOf(s)) = {}
  PROVE  Reviewed(s, EnvOf(s))
<1> DEFINE own == service[s]
           E == EnvOf(s)
           asked == GroupsOf(s) \cap GroupNames
<1>1. /\ blueprint \in Blueprints /\ s \in DOMAIN blueprint.services /\ ServiceSound(s)
      /\ \A g \in DOMAIN group : GroupSound(g)
  BY DEF AccountSound, ServiceSound
<1>2. /\ LinkedTo(s) \subseteq asked
      /\ DOMAIN E = Known(s) \cup (UNION {DOMAIN group[g] : g \in LinkedTo(s)}) \cup {"NODE_ENV"}
      /\ \A n \in Known(s) : E[n] = IF own[n] \in References THEN "own" ELSE own[n]
      /\ \A g \in LinkedTo(s) : \A n \in DOMAIN group[g] \ Known(s) : E[n] = group[g][n]
  BY EnvOfFacts
<1>3. Known(s) \subseteq DOMAIN blueprint.services[s].vars
  BY <1>1 DEF ServiceSound, Known
<1>4. Required \subseteq DOMAIN E
  BY DEF SchemaIssues
<1>5. ASSUME NEW g \in asked, NEW n \in Literals(blueprint.vars[g])
       PROVE  Has(E, n) /\ (n \in Editable \/ E[n] = blueprint.vars[g][n])
  <2>1. PICK k \in Required : k \in DOMAIN blueprint.vars[g]
    BY <1>1, VariablesAssumption DEF GroupNames
  <2>2. k \notin Known(s) /\ k # "NODE_ENV"
    BY <1>1, <1>3, <2>1, VariablesAssumption DEF GroupNames, Required
  <2>3. PICK h \in LinkedTo(s) : k \in DOMAIN group[h]
    BY <2>2, <1>2, <1>4
  <2>4. h = g
    BY <1>1, <2>1, <2>3, VariablesAssumption DEF GroupNames, GroupSound, LinkedTo
  <2>5. n \in DOMAIN group[g] /\ (n \in Editable \/ group[g][n] = blueprint.vars[g][n])
    BY <1>1, <2>3, <2>4 DEF GroupSound, LinkedTo
  <2>6. n \notin Known(s)
    BY <1>1, <1>3, VariablesAssumption DEF GroupNames, Literals
  <2>7. n \in DOMAIN E /\ E[n] = group[g][n]
    BY <1>2, <2>3, <2>4, <2>5, <2>6
  <2> QED BY <2>5, <2>7 DEF Has
<1>6. ASSUME NEW n \in Literals(blueprint.services[s].vars)
       PROVE  Has(E, n) /\ E[n] = blueprint.services[s].vars[n]
  <2>1. own[n] = blueprint.services[s].vars[n] /\ n \in DOMAIN own
    BY <1>1 DEF ServiceSound, Literals
  <2>2. own[n] \notin References
    BY <2>1 DEF Literals, References
  <2>3. n \in Known(s)
    BY <2>1, <2>2 DEF Known
  <2> QED BY <2>1, <2>2, <2>3, <1>2 DEF Has
<1>7. ASSUME NEW n \in Literals(VariablesFor(blueprint, s))
       PROVE  Has(E, n) /\ (n \in Editable \/ E[n] = VariablesFor(blueprint, s)[n])
  <2> DEFINE wired == VariablesFor(blueprint, s)
  <2>1. /\ DOMAIN wired = (UNION {DOMAIN blueprint.vars[g] : g \in asked})
                             \cup DOMAIN blueprint.services[s].vars
        /\ \A g \in asked : \A m \in DOMAIN blueprint.vars[g] : wired[m] = blueprint.vars[g][m]
        /\ \A m \in DOMAIN blueprint.services[s].vars : wired[m] = blueprint.services[s].vars[m]
    BY <1>1, VariablesForFacts DEF GroupsOf, GroupNames
  <2> HIDE DEF wired, E
  <2>2. n \in DOMAIN wired /\ wired[n] \notin {Sync, FromDatabase, FromKeyValue}
    BY DEF wired, Literals
  <2>3. CASE n \in DOMAIN blueprint.services[s].vars
    <3>1. n \in Literals(blueprint.services[s].vars)
      BY <2>1, <2>2, <2>3 DEF Literals
    <3> QED BY <3>1, <2>1, <2>3, <1>6 DEF wired
  <2>4. CASE n \notin DOMAIN blueprint.services[s].vars
    <3>1. PICK g \in asked : n \in DOMAIN blueprint.vars[g]
      BY <2>1, <2>2, <2>4
    <3>2. n \in Literals(blueprint.vars[g])
      BY <2>1, <2>2, <3>1 DEF Literals
    <3> QED BY <3>1, <3>2, <2>1, <1>5 DEF wired
  <2> QED BY <2>3, <2>4
<1> QED BY <1>7 DEF Reviewed

(* ------------------------------ the account ---------------------------- *)

\* Steps that leave the account and what was started as they were.
LEMMA AccountKept ==
  ASSUME AccountSound, UNCHANGED <<group, stores, service, links, blueprint, process>>
  PROVE  AccountSound'
BY DEF AccountSound, GroupSound, ServiceSound, InstanceSound, Reviewed, GroupNames, GroupsOf

\* What was started does not depend on what becomes of the account.
LEMMA InstancesKept ==
  ASSUME AccountSound, UNCHANGED <<blueprint, process>>
  PROVE  /\ blueprint' \in Blueprints
         /\ DOMAIN process' = DOMAIN blueprint'.services
         /\ \A s \in DOMAIN process' : InstanceSound(s)'
BY DEF AccountSound, InstanceSound, Reviewed

\* A group is created with what the blueprint spells out.
LEMMA DeclaredFacts ==
  ASSUME NEW g \in GroupNames
  PROVE  /\ DOMAIN Declared(g) = Literals(blueprint.vars[g])
         /\ Literals(blueprint.vars[g]) \subseteq DOMAIN blueprint.vars[g]
         /\ \A n \in Literals(blueprint.vars[g]) : Declared(g)[n] = blueprint.vars[g][n]
BY DEF Declared, Restrict, Literals

\* A service is created with what the blueprint spells out for it.
LEMMA PlainVarsFacts ==
  ASSUME NEW s
  PROVE  /\ DOMAIN PlainVars(s) = DOMAIN blueprint.services[s].vars
         /\ \A n \in Literals(blueprint.services[s].vars) :
              PlainVars(s)[n] = blueprint.services[s].vars[n]
BY DEF PlainVars, Literals

\* A resource is created as the blueprint declares it, under a name that was free.
LEMMA CreatedSound ==
  ASSUME AccountSound, NEW r \in Range(blueprint.order), Created(r), UNCHANGED <<blueprint, process>>
  PROVE  /\ AccountSound' /\ r \in Listed' /\ Listed \subseteq Listed'
         /\ links' = links /\ r \notin Listed
         /\ \A g \in DOMAIN group : g \in DOMAIN group' /\ group'[g] = group[g]
         /\ r \in GroupNames => Matches(r)'
<1>1. r \in GroupNames \cup DOMAIN blueprint.stores \cup DOMAIN blueprint.services
  BY ResourcesAssumption DEF AccountSound, GroupNames
<1>2. r \notin DOMAIN group /\ r \notin DOMAIN service /\ links' = links /\ r \notin Listed
  BY DEF Created, Listed
<1>3. /\ DOMAIN group' = IF r \in GroupNames THEN DOMAIN group \cup {r} ELSE DOMAIN group
      /\ \A g \in DOMAIN group : group'[g] = group[g]
      /\ r \in GroupNames => group'[r] = Declared(r)
  BY <1>2 DEF Created, With
<1>4. /\ DOMAIN service' = IF r \in DOMAIN blueprint.services THEN DOMAIN service \cup {r} ELSE DOMAIN service
      /\ \A s \in DOMAIN service : service'[s] = service[s]
      /\ r \in DOMAIN blueprint.services => service'[r] = PlainVars(r)
  BY <1>2 DEF Created, With
<1>5. stores' = IF r \in DOMAIN blueprint.stores THEN stores \cup {r} ELSE stores
  BY DEF Created
<1>6. \A g \in DOMAIN group' : GroupSound(g)'
  <2> SUFFICES ASSUME NEW g \in DOMAIN group' PROVE GroupSound(g)'
    OBVIOUS
  <2>1. CASE g \in DOMAIN group
    BY <1>3, <2>1 DEF AccountSound, GroupSound, GroupNames
  <2>2. CASE g \notin DOMAIN group
    <3>1. g = r /\ r \in GroupNames /\ group'[r] = Declared(r)
      BY <1>3, <2>2
    <3>2. /\ DOMAIN Declared(r) = Literals(blueprint.vars[r])
          /\ Literals(blueprint.vars[r]) \subseteq DOMAIN blueprint.vars[r]
          /\ \A n \in Literals(blueprint.vars[r]) : Declared(r)[n] = blueprint.vars[r][n]
      BY <3>1, DeclaredFacts
    <3> QED BY <3>1, <3>2 DEF GroupSound, GroupNames
  <2> QED BY <2>1, <2>2
<1>7. \A s \in DOMAIN service' : ServiceSound(s)'
  <2> SUFFICES ASSUME NEW s \in DOMAIN service' PROVE ServiceSound(s)'
    OBVIOUS
  <2>1. CASE s \in DOMAIN service
    BY <1>4, <2>1 DEF AccountSound, ServiceSound
  <2>2. CASE s \notin DOMAIN service
    <3>1. s = r /\ r \in DOMAIN blueprint.services /\ service'[r] = PlainVars(r)
      BY <1>4, <2>2
    <3> QED BY <3>1, PlainVarsFacts DEF ServiceSound
  <2> QED BY <2>1, <2>2
<1>8. stores' \subseteq DOMAIN blueprint'.stores
  BY <1>5 DEF AccountSound
<1>9. \A l \in links' : \E s \in DOMAIN blueprint'.services : \E g \in GroupsOf(s)' : l = <<g, s>>
  BY <1>2 DEF AccountSound, GroupsOf
<1>10. AccountSound'
  BY <1>6, <1>7, <1>8, <1>9, InstancesKept DEF AccountSound
<1>11. r \in Listed' /\ Listed \subseteq Listed'
  BY <1>1, <1>3, <1>4, <1>5 DEF Listed
<1>12. r \in GroupNames => Matches(r)'
  BY <1>3 DEF Matches, Is, Has, Declared, GroupNames
<1> QED BY <1>2, <1>3, <1>10, <1>11, <1>12

\* A link joins a group of a service to the service whose turn it is.
LEMMA LinkedSound ==
  ASSUME AccountSound, RunSound, NEW g, Linked(g), UNCHANGED <<blueprint, process>>
  PROVE  /\ AccountSound' /\ UNCHANGED <<group, stores, service>>
         /\ links' = links \cup {<<g, blueprint.order[run.at]>>}
         /\ g = Head(run.todo)
<1> DEFINE s == blueprint.order[run.at]
<1>1. /\ UNCHANGED <<group, stores, service>> /\ links' = links \cup {<<g, s>>}
      /\ run.pc = "linking" /\ run.todo # <<>> /\ g = Head(run.todo)
  BY DEF Linked
<1>2. g \in Range(run.todo)
  <2>1. run.todo \in Seq(Asked)
    BY DEF RunSound, Run
  <2> QED BY <1>1, <2>1, QueueFacts
<1>3. s \in DOMAIN blueprint.services /\ g \in GroupsOf(s)
  BY <1>1, <1>2 DEF RunSound
<1>4. \A l \in links' : \E t \in DOMAIN blueprint'.services : \E h \in GroupsOf(t)' : l = <<h, t>>
  BY <1>1, <1>3 DEF AccountSound, GroupsOf
<1>5. (\A h \in DOMAIN group' : GroupSound(h)') /\ (\A t \in DOMAIN service' : ServiceSound(t)')
  BY <1>1 DEF AccountSound, GroupSound, ServiceSound, GroupNames
<1>6. AccountSound'
  BY <1>1, <1>4, <1>5, InstancesKept DEF AccountSound
<1> QED BY <1>1, <1>6

(* ------------------------------- people -------------------------------- *)

\* What is typed in adds to the account, and takes nothing of the blueprint away.
LEMMA TypeSecretsSound ==
  ASSUME AccountSound, NEW r, TypeSecrets(r)
  PROVE  /\ AccountSound' /\ UNCHANGED <<blueprint, stores, links, run>>
         /\ DOMAIN group' = DOMAIN group /\ DOMAIN service' = DOMAIN service
         /\ \A g \in GroupNames \cap DOMAIN group : Matches(g) => Matches(g)'
<1>1. UNCHANGED <<blueprint, stores, links, run, process>>
  BY DEF TypeSecrets
<1> DEFINE secrets == [n \in {m \in DOMAIN blueprint.vars[r] : blueprint.vars[r][m] = Sync} |-> "own"]
<1>2. CASE r \in DOMAIN group /\ group' = [group EXCEPT ![r] = Over(@, secrets)] /\ UNCHANGED service
  <2>1. /\ DOMAIN group' = DOMAIN group /\ group'[r] = Over(group[r], secrets)
        /\ \A g \in DOMAIN group : g # r => group'[g] = group[g]
    BY <1>2
  <2>2. DOMAIN secrets \subseteq DOMAIN blueprint.vars[r]
    OBVIOUS
  <2> HIDE DEF secrets
  <2>3. /\ DOMAIN Over(group[r], secrets) = DOMAIN group[r] \cup DOMAIN secrets
        /\ \A n \in DOMAIN group[r] : Over(group[r], secrets)[n] = group[r][n]
    BY OverFacts
  <2>4. ASSUME NEW g \in DOMAIN group' PROVE GroupSound(g)'
    <3>1. CASE g = r
      BY <1>1, <2>1, <2>2, <2>3, <3>1 DEF AccountSound, GroupSound, GroupNames
    <3>2. CASE g # r
      BY <1>1, <2>1, <3>2 DEF AccountSound, GroupSound, GroupNames
    <3> QED BY <3>1, <3>2
  <2>5. ASSUME NEW g \in GroupNames \cap DOMAIN group, Matches(g) PROVE Matches(g)'
    <3>1. Declared(g)' = Declared(g)
      BY <1>1 DEF Declared
    <3>2. CASE g = r
      BY <2>1, <2>3, <2>5, <3>1, <3>2 DEF Matches, Is, Has
    <3>3. CASE g # r
      BY <2>1, <2>5, <3>1, <3>3 DEF Matches, Is, Has
    <3> QED BY <3>2, <3>3
  <2>6. \A s \in DOMAIN service' : ServiceSound(s)'
    BY <1>1, <1>2 DEF AccountSound, ServiceSound
  <2>7. AccountSound'
    BY <1>1, <2>4, <2>6, InstancesKept DEF AccountSound, GroupsOf
  <2> QED BY <1>1, <1>2, <2>1, <2>5, <2>7
<1>3. CASE /\ r \in DOMAIN service /\ UNCHANGED group
           /\ service' = [service EXCEPT ![r] = [n \in DOMAIN @ |-> IF @[n] = "undefined" THEN "own" ELSE @[n]]]
  <2>1. /\ DOMAIN service' = DOMAIN service
        /\ service'[r] = [n \in DOMAIN service[r] |->
                            IF service[r][n] = "undefined" THEN "own" ELSE service[r][n]]
        /\ \A s \in DOMAIN service : s # r => service'[s] = service[s]
    BY <1>3
  <2>2. ASSUME NEW s \in DOMAIN service' PROVE ServiceSound(s)'
    <3>1. CASE s = r
      <4>1. /\ s \in DOMAIN blueprint.services
            /\ DOMAIN service[s] = DOMAIN blueprint.services[s].vars
            /\ \A n \in Literals(blueprint.services[s].vars) :
                 /\ n \in DOMAIN service[s]
                 /\ service[s][n] = blueprint.services[s].vars[n]
                 /\ service[s][n] # "undefined"
        BY <2>1, VariablesAssumption DEF AccountSound, ServiceSound, Literals
      <4>2. \A n \in Literals(blueprint.services[s].vars) : service'[s][n] = service[s][n]
        BY <2>1, <3>1, <4>1
      <4>3. DOMAIN service'[s] = DOMAIN service[s]
        BY <2>1, <3>1
      <4> QED BY <1>1, <4>1, <4>2, <4>3 DEF ServiceSound
    <3>2. CASE s # r
      BY <1>1, <2>1, <3>2 DEF AccountSound, ServiceSound
    <3> QED BY <3>1, <3>2
  <2>3. \A g \in DOMAIN group' : GroupSound(g)'
    BY <1>1, <1>3 DEF AccountSound, GroupSound, GroupNames
  <2>4. AccountSound'
    BY <1>1, <2>2, <2>3, InstancesKept DEF AccountSound, GroupsOf
  <2>5. \A g \in GroupNames \cap DOMAIN group : Matches(g) => Matches(g)'
    BY <1>1, <1>3 DEF Matches, Is, Has, Declared
  <2> QED BY <1>1, <1>3, <2>1, <2>4, <2>5
<1> QED BY <1>2, <1>3 DEF TypeSecrets

\* A person changes what a person may change.
LEMMA EditValueSound ==
  ASSUME AccountSound, NEW g, NEW n \in Editable, EditValue(g, n)
  PROVE  AccountSound'
<1>1. /\ UNCHANGED <<blueprint, process, stores, service, links>>
      /\ g \in DOMAIN group /\ group' = [group EXCEPT ![g][n] = "other"]
  BY DEF EditValue, Meddles
<1>2. /\ DOMAIN group' = DOMAIN group
      /\ \A h \in DOMAIN group : /\ DOMAIN group'[h] = DOMAIN group[h]
                                /\ \A m \in DOMAIN group[h] : m # n => group'[h][m] = group[h][m]
  <2>1. /\ group'[g] = [group[g] EXCEPT ![n] = "other"]
        /\ \A h \in DOMAIN group : h # g => group'[h] = group[h]
        /\ DOMAIN group' = DOMAIN group
    BY <1>1
  <2>2. DOMAIN group'[g] = DOMAIN group[g] /\ \A m \in DOMAIN group[g] : m # n => group'[g][m] = group[g][m]
    BY <2>1
  <2> QED BY <2>1, <2>2
<1>3. \A h \in DOMAIN group' : GroupSound(h)'
  BY <1>1, <1>2 DEF AccountSound, GroupSound, GroupNames
<1>4. \A s \in DOMAIN service' : ServiceSound(s)'
  BY <1>1 DEF AccountSound, ServiceSound
<1> QED BY <1>1, <1>3, <1>4, InstancesKept DEF AccountSound, GroupsOf

\* What is left of an account after a deletion is as sound as it was.
LEMMA DeleteSound ==
  ASSUME AccountSound, NEW r, Delete(r)
  PROVE  AccountSound'
<1>1. /\ UNCHANGED <<blueprint, process>>
      /\ group' = Restrict(group, DOMAIN group \ {r})
      /\ service' = Restrict(service, DOMAIN service \ {r})
      /\ stores' \subseteq stores /\ links' \subseteq links
  BY DEF Delete, Meddles
<1>2. /\ DOMAIN group' \subseteq DOMAIN group /\ \A g \in DOMAIN group' : group'[g] = group[g]
      /\ DOMAIN service' \subseteq DOMAIN service /\ \A s \in DOMAIN service' : service'[s] = service[s]
  BY <1>1 DEF Restrict
<1>3. \A h \in DOMAIN group' : GroupSound(h)'
  <2> SUFFICES ASSUME NEW h \in DOMAIN group' PROVE GroupSound(h)'
    OBVIOUS
  <2>1. h \in DOMAIN group /\ GroupSound(h) /\ group'[h] = group[h]
    BY <1>2 DEF AccountSound
  <2> QED BY <1>1, <2>1 DEF GroupSound, GroupNames
<1>4. \A s \in DOMAIN service' : ServiceSound(s)'
  <2> SUFFICES ASSUME NEW s \in DOMAIN service' PROVE ServiceSound(s)'
    OBVIOUS
  <2>1. s \in DOMAIN service /\ ServiceSound(s) /\ service'[s] = service[s]
    BY <1>2 DEF AccountSound
  <2> QED BY <1>1, <2>1 DEF ServiceSound
<1> QED BY <1>1, <1>3, <1>4, InstancesKept DEF AccountSound, GroupsOf

\* A group put back to the blueprint's values holds them.
LEMMA ReconcileSound ==
  ASSUME AccountSound, NEW g, Reconcile(g)
  PROVE  AccountSound'
<1>1. /\ UNCHANGED <<blueprint, process, stores, service, links>>
      /\ group' = [group EXCEPT ![g] = Over(Declared(g), @)]
  BY DEF Reconcile
<1>2. \A h \in DOMAIN group' : GroupSound(h)'
  <2> SUFFICES ASSUME NEW h \in DOMAIN group' PROVE GroupSound(h)'
    OBVIOUS
  <2>1. h \in DOMAIN group /\ GroupSound(h) /\ h \in GroupNames
    BY <1>1 DEF AccountSound, GroupSound
  <2>2. CASE h # g
    <3>1. group'[h] = group[h]
      BY <1>1, <2>1, <2>2
    <3> QED BY <1>1, <2>1, <3>1 DEF GroupSound, GroupNames
  <2>3. CASE h = g
    <3>1. group'[h] = Over(Declared(h), group[h])
      BY <1>1, <2>1, <2>3
    <3>2. /\ DOMAIN Declared(h) = Literals(blueprint.vars[h])
          /\ Literals(blueprint.vars[h]) \subseteq DOMAIN blueprint.vars[h]
          /\ \A n \in Literals(blueprint.vars[h]) : Declared(h)[n] = blueprint.vars[h][n]
      BY <2>1, DeclaredFacts
    <3>3. /\ DOMAIN Over(Declared(h), group[h]) = DOMAIN Declared(h) \cup DOMAIN group[h]
          /\ \A n \in DOMAIN Declared(h) : Over(Declared(h), group[h])[n] = Declared(h)[n]
      BY OverFacts
    <3> QED BY <1>1, <2>1, <3>1, <3>2, <3>3 DEF GroupSound, GroupNames
  <2> QED BY <2>2, <2>3
<1>3. \A s \in DOMAIN service' : ServiceSound(s)'
  BY <1>1 DEF AccountSound, ServiceSound
<1> QED BY <1>1, <1>2, <1>3, InstancesKept DEF AccountSound, GroupsOf

(* ------------------------------ instances ------------------------------ *)

\* An instance is started with what its service reaches then.
LEMMA DeploySound ==
  ASSUME AccountSound, NEW s \in DOMAIN service, Deploy(s)
  PROVE  AccountSound' /\ UNCHANGED <<blueprint, group, stores, service, links, run>>
<1> DEFINE env == EnvOf(s)
           phase == IF blueprint.services[s].type = "web" THEN "in rotation"
                    ELSE IF ParseEnv(env) = {} THEN "serving" ELSE "down"
<1>1. /\ UNCHANGED <<blueprint, group, stores, service, links, run>>
      /\ process' = [process EXCEPT ![s] = [env |-> env, phase |-> phase]]
  BY DEF Deploy, account
<1>2. ParseEnv(env) = {} => Reviewed(s, env)
  <2>1. ParseEnv(env) = {} => SchemaIssues(env) = {}
    BY DEF ParseEnv
  <2> QED BY <2>1, ParsedIsReviewed
<1> HIDE DEF env
<1>3. DOMAIN process' = DOMAIN process
  BY <1>1
<1>4. ASSUME NEW t \in DOMAIN process' PROVE InstanceSound(t)'
  <2>1. t \in DOMAIN process /\ InstanceSound(t)
    BY <1>3 DEF AccountSound
  <2>2. CASE t = s
    <3>1. process'[t] = [env |-> env, phase |-> phase]
      BY <1>1, <2>1, <2>2
    <3>3. phase = "in rotation" /\ ParseEnv(env) = {} => Reviewed(t, env)
      BY <1>2, <2>2
    <3>4. phase = "serving" => Reviewed(t, env)
      BY <1>2, <2>2
    <3> HIDE DEF phase
    <3>2. process'[t].env = env /\ process'[t].phase = phase
      BY <3>1
    <3>5. Reviewed(t, env) => Reviewed(t, process[t].env)'
      BY <1>1, <3>2 DEF Reviewed
    <3> QED BY <3>1, <3>2, <3>3, <3>4, <3>5 DEF InstanceSound
  <2>3. CASE t # s
    <3>1. process'[t] = process[t]
      BY <1>1, <2>1, <2>3
    <3> QED BY <1>1, <2>1, <3>1 DEF InstanceSound, Reviewed
  <2> QED BY <2>2, <2>3
<1>5. (\A g \in DOMAIN group' : GroupSound(g)') /\ (\A t \in DOMAIN service' : ServiceSound(t)')
  BY <1>1 DEF AccountSound, GroupSound, ServiceSound, GroupNames
<1> QED BY <1>1, <1>3, <1>4, <1>5 DEF AccountSound, GroupsOf

\* A web instance that serves has parsed what it was started with.
LEMMA FirstRequestSound ==
  ASSUME AccountSound, NEW s \in DOMAIN service, FirstRequest(s)
  PROVE  AccountSound' /\ UNCHANGED <<blueprint, group, stores, service, links, run>>
<1>1. /\ UNCHANGED <<blueprint, group, stores, service, links, run>>
      /\ process[s].phase = "in rotation" /\ ParseEnv(process[s].env) = {}
      /\ process' = [process EXCEPT ![s].phase = "serving"]
  BY DEF FirstRequest, account
<1>2. DOMAIN process' = DOMAIN process
  BY <1>1
<1>3. ASSUME NEW t \in DOMAIN process' PROVE InstanceSound(t)'
  <2>1. t \in DOMAIN process /\ InstanceSound(t)
    BY <1>2 DEF AccountSound
  <2>2. CASE t = s
    <3>1. process[t] = [env |-> process[t].env, phase |-> process[t].phase] /\ Reviewed(t, process[t].env)
      BY <1>1, <2>1, <2>2 DEF InstanceSound
    <3>2. process'[t] = [env |-> process[t].env, phase |-> "serving"]
      BY <1>1, <2>1, <2>2, <3>1
    <3>3. process'[t].env = process[t].env /\ process'[t].phase = "serving"
      BY <3>2
    <3>4. Reviewed(t, process[t].env)'
      BY <1>1, <3>1, <3>3 DEF Reviewed
    <3> QED BY <3>2, <3>3, <3>4 DEF InstanceSound
  <2>3. CASE t # s
    <3>1. process'[t] = process[t]
      BY <1>1, <2>1, <2>3
    <3> QED BY <1>1, <2>1, <3>1 DEF InstanceSound, Reviewed
  <2> QED BY <2>2, <2>3
<1>4. (\A g \in DOMAIN group' : GroupSound(g)') /\ (\A t \in DOMAIN service' : ServiceSound(t)')
  BY <1>1 DEF AccountSound, GroupSound, ServiceSound, GroupNames
<1> QED BY <1>1, <1>2, <1>3, <1>4 DEF AccountSound, GroupsOf

(* -------------------------------- runs --------------------------------- *)

\* The fields of a run.
LEMMA RunFacts ==
  ASSUME run \in Run
  PROVE  /\ run.at \in Nat \ {0} /\ run.seen \subseteq Names
         /\ run.todo \in Seq(Asked)
         /\ run.misled \in BOOLEAN
BY DEF Run

\* However a run ends, it has no work left.
LEMMA EndedSound ==
  ASSUME RunSound, UNCHANGED blueprint, NEW how \in {"drift", "failed", "preflight", "applied", "stopped"},
         run' = Ended(how)
  PROVE  /\ RunSound' /\ run'.pc = "idle" /\ run'.result = how /\ run'.misled = run.misled
         /\ Progress'
<1>1. <<>> \in Seq(Asked)
  OBVIOUS
<1>2. /\ run' \in Run /\ run'.pc = "idle" /\ run'.result = how /\ run'.misled = run.misled
  BY <1>1 DEF RunSound, Run, Ended
<1>3. Run' = Run
  BY DEF Run, Names, Asked, GroupsOf
<1> QED BY <1>2, <1>3 DEF RunSound, Progress

\* The entry of one resource.
LEMMA RecordedSound ==
  ASSUME RunSound, UNCHANGED blueprint, run.pc = "working", NEW r \in Names, NEW status \in Statuses,
         run' = Recorded(r, status)
  PROVE  /\ RunSound' /\ run'.pc = "working" /\ run'.at = run.at + 1 /\ run'.seen = run.seen
         /\ run'.mode = run.mode /\ run'.misled = run.misled /\ run'.result = "none"
         /\ run'.report = run.report \cup {<<r, status>>}
<1>1. /\ run' \in Run /\ run'.pc = "working" /\ run'.at = run.at + 1 /\ run'.seen = run.seen
      /\ run'.mode = run.mode /\ run'.misled = run.misled /\ run'.result = run.result
      /\ run'.report = run.report \cup {<<r, status>>}
  <2>1. run \in Run /\ run.at + 1 \in Nat \ {0}
    BY RunFacts DEF RunSound
  <2>2. <<r, status>> \in (Names \cup Asked) \X Statuses
    OBVIOUS
  <2>3. run.report \cup {<<r, status>>} \in SUBSET ((Names \cup Asked) \X Statuses)
    BY <2>1, <2>2 DEF Run
  <2>4. run' = [run EXCEPT !.at = @ + 1, !.report = @ \cup {<<r, status>>}]
    BY DEF Recorded
  <2> QED BY <2>1, <2>3, <2>4 DEF Run
<1>2. Run' = Run
  BY DEF Run, Names, Asked, GroupsOf
<1> QED BY <1>1, <1>2 DEF RunSound

\* The account has what it had.
Grows == /\ UNCHANGED blueprint
         /\ Listed \subseteq Listed' /\ links \subseteq links'
         /\ \A g \in DOMAIN group : g \in DOMAIN group' /\ group'[g] = group[g]

\* An account that is not touched loses nothing.
LEMMA NothingLost ==
  ASSUME UNCHANGED <<blueprint, account>>
  PROVE  Grows
BY DEF Grows, account, Listed

\* A group that is there is there as a group.
LEMMA ListedGroups ==
  ASSUME AccountSound, NEW g \in GroupNames, g \in Listed
  PROVE  g \in DOMAIN group
<1>1. blueprint \in Blueprints /\ stores \subseteq DOMAIN blueprint.stores
      /\ DOMAIN service \subseteq DOMAIN blueprint.services
  BY DEF AccountSound, ServiceSound
<1> QED BY <1>1, ResourcesAssumption DEF Listed, GroupNames

\* What a run has done stays done.
LEMMA HandledStays ==
  ASSUME AccountSound, Grows, run.report \subseteq run'.report, NEW r, Handled(r)
  PROVE  Handled(r)'
<1>1. r \in Listed' /\ GroupNames' = GroupNames /\ blueprint' = blueprint
  BY DEF Handled, Grows, GroupNames
<1>2. \A status : HasStatus(status) => HasStatus(status)'
  BY DEF HasStatus
<1>3. ASSUME r \in GroupNames, ~HasStatus("DRIFT")' PROVE Matches(r)'
  <2>1. Matches(r)
    BY <1>2, <1>3 DEF Handled
  <2>2. r \in DOMAIN group
    BY <1>3, ListedGroups DEF Handled
  <2>3. group'[r] = group[r] /\ Declared(r)' = Declared(r)
    BY <1>1, <2>2 DEF Grows, Declared
  <2> QED BY <2>1, <2>3 DEF Matches
<1>4. ASSUME r \in DOMAIN blueprint.services, ~HasStatus("FAILED")'
      PROVE  \A g \in GroupsOf(r)' : <<g, r>> \in links'
  BY <1>1, <1>2, <1>4 DEF Handled, Grows, GroupsOf
<1> QED BY <1>1, <1>3, <1>4 DEF Handled

\* A resource further.
LEMMA Advances ==
  ASSUME AccountSound, RunSound, Progress, Grows, run.pc \in {"working", "linking"},
         run'.pc = "working", run'.at = run.at + 1, run'.seen = run.seen, run'.mode = run.mode,
         run.report \subseteq run'.report,
         NEW r, r = blueprint.order[run.at], run.mode = "provision" => Handled(r)'
  PROVE  Progress'
<1>1. run'.seen \subseteq Listed'
  BY DEF Progress, Grows
<1>2. ASSUME run.mode = "provision", NEW i \in 1..run.at, NEW x, x = blueprint.order[i],
             i \in DOMAIN blueprint.order
      PROVE  Handled(x)'
  <2>1. CASE i = run.at
    BY <1>2, <2>1
  <2>2. CASE i # run.at
    <3>1. i \in 1..(run.at - 1)
      BY <2>2, RunFacts DEF RunSound
    <3>2. Handled(x)
      BY <1>2, <3>1 DEF Progress
    <3> QED BY <3>2, HandledStays
  <2> QED BY <2>1, <2>2
<1>3. run'.at - 1 = run.at /\ blueprint' = blueprint
  BY RunFacts DEF RunSound, Grows
<1>4. run'.mode = "provision" => \A i \in 1..(run'.at - 1) : i \in DOMAIN blueprint'.order =>
                                    \A x : x = blueprint'.order[i] => Handled(x)'
  BY <1>2, <1>3
<1> QED BY <1>1, <1>3, <1>4 DEF Progress, Handled

\* A run that ends without a word of success claims nothing.
LEMMA EndsUnapplied ==
  ASSUME AccountSound', RunSound, UNCHANGED blueprint,
         NEW how \in {"drift", "failed", "preflight", "stopped"}, run' = Ended(how)
  PROVE  IInv'
<1>1. RunSound' /\ run'.result = how /\ Progress'
  BY EndedSound
<1> QED BY <1>1 DEF IInv

\* A run that is dispatched has handled nothing yet.
LEMMA StartRunKeeps ==
  ASSUME IInv, NEW mode \in {"preflight", "provision"}, StartRun(mode)
  PROVE  IInv'
<1>1. UNCHANGED <<group, stores, service, links, blueprint, process>>
  BY DEF StartRun, account, people
<1>2. AccountSound'
  BY <1>1, AccountKept DEF IInv
<1>3. <<>> \in Seq(Asked)
  OBVIOUS
<1>4. run' \in Run /\ run'.pc = "listing" /\ run'.at = 1 /\ run'.result = "none" /\ run'.mode # "none"
  <2>1. run' = [mode |-> mode, pc |-> "listing", at |-> 1, seen |-> {}, todo |-> <<>>,
                report |-> {}, result |-> "none", misled |-> FALSE]
    BY DEF StartRun, Stopped
  <2> QED BY <2>1, <1>3 DEF Run
<1>5. Run' = Run
  BY <1>1 DEF Run, Names, Asked, GroupsOf
<1>6. RunSound' /\ Progress'
  BY <1>4, <1>5 DEF RunSound, Progress
<1> QED BY <1>2, <1>4, <1>6 DEF IInv

\* What a run lists is there.
LEMMA ListAccountKeeps ==
  ASSUME IInv, ListAccount
  PROVE  IInv'
<1>1. UNCHANGED <<group, stores, service, links, blueprint, process>>
  BY DEF ListAccount, account, people
<1>2. AccountSound'
  BY <1>1, AccountKept DEF IInv
<1>3. Listed \subseteq Names /\ Listed' = Listed
  BY <1>1 DEF IInv, AccountSound, GroupSound, ServiceSound, Listed, Names, GroupNames
<1>4. run \in Run /\ run.at = 1 /\ run.result = "none" /\ run.mode # "none"
  BY DEF IInv, RunSound, ListAccount
<1>5. /\ run' \in Run /\ run'.pc = "working" /\ run'.at = 1 /\ run'.result = "none"
      /\ run'.seen = Listed /\ run'.mode # "none"
  BY <1>3, <1>4 DEF ListAccount, Run
<1>6. Run' = Run
  BY <1>1 DEF Run, Names, Asked, GroupsOf
<1>7. RunSound'
  BY <1>5, <1>6 DEF RunSound
<1>8. Progress'
  <2>1. 1..(run'.at - 1) = {}
    BY <1>5
  <2> QED BY <2>1, <1>3, <1>5 DEF Progress
<1> QED BY <1>2, <1>5, <1>7, <1>8 DEF IInv

\* The resource a run has come to.
LEMMA AtFacts ==
  ASSUME AccountSound, RunSound, NEW r, At(r)
  PROVE  /\ run.pc = "working" /\ run.at \in DOMAIN blueprint.order /\ r = blueprint.order[run.at]
         /\ r \in Names /\ r \in Range(blueprint.order)
         /\ r \in GroupNames => r \notin DOMAIN blueprint.stores \cup DOMAIN blueprint.services
         /\ r \in DOMAIN blueprint.stores => r \notin DOMAIN blueprint.services
<1>1. blueprint \in Blueprints /\ run.at \in Nat \ {0}
  BY RunFacts DEF AccountSound, RunSound
<1>2. DOMAIN blueprint.order = 1..Len(blueprint.order)
  BY <1>1, ResourcesAssumption
<1>3. run.at \in DOMAIN blueprint.order /\ r = blueprint.order[run.at]
  BY <1>1, <1>2 DEF At
<1>4. r \in Range(blueprint.order)
  BY <1>3 DEF Range
<1>5. r \in Names
  BY <1>1, <1>4, ResourcesAssumption DEF Names
<1>6. r \in GroupNames => r \notin DOMAIN blueprint.stores \cup DOMAIN blueprint.services
  BY <1>1, ResourcesAssumption DEF GroupNames
<1>7. r \in DOMAIN blueprint.stores => r \notin DOMAIN blueprint.services
  BY <1>1, ResourcesAssumption
<1> QED BY <1>3, <1>4, <1>5, <1>6, <1>7 DEF At

\* A step that enters a resource in the report and goes on to the next.
LEMMA RecordKeeps ==
  ASSUME IInv, AccountSound', Grows, NEW r, At(r), NEW status \in Statuses, run' = Recorded(r, status),
         run.mode = "provision" /\ ~run.misled => Handled(r)'
  PROVE  IInv'
<1>1. AccountSound /\ RunSound /\ UNCHANGED blueprint
  BY DEF IInv, Grows
<1>2. r \in Names /\ run.pc = "working" /\ r = blueprint.order[run.at]
  BY <1>1, AtFacts
<1>3. /\ RunSound' /\ run'.pc = "working" /\ run'.at = run.at + 1 /\ run'.seen = run.seen
      /\ run'.mode = run.mode /\ run'.misled = run.misled /\ run'.result = "none"
      /\ run.report \subseteq run'.report
  BY <1>1, <1>2, RecordedSound
<1>4. ASSUME ~run.misled PROVE Progress'
  BY <1>1, <1>2, <1>3, <1>4, Advances DEF IInv
<1> QED BY <1>3, <1>4 DEF IInv

\* A group that is compared matches, or the report says that it drifted.
LEMMA CompareGroupKeeps ==
  ASSUME IInv, NEW g, CompareGroup(g)
  PROVE  IInv'
<1> DEFINE wrong == \E n \in DOMAIN Declared(g) : ~Is(group[g], n, Declared(g)[n])
           status == IF wrong THEN "DRIFT" ELSE "exists"
<1>1. /\ At(g) /\ g \in GroupNames /\ g \in DOMAIN group /\ run' = Recorded(g, status)
      /\ UNCHANGED <<group, stores, service, links, blueprint, process>>
  BY DEF CompareGroup, account, people
<1>2. AccountSound' /\ Grows
  BY <1>1, AccountKept, NothingLost DEF IInv, account
<1>3. AccountSound /\ RunSound
  BY DEF IInv
<1>4. /\ g \notin DOMAIN blueprint.services /\ g \in Names /\ run.pc = "working"
  BY <1>1, <1>3, AtFacts
<1>5. status \in Statuses
  BY DEF Statuses
<1> HIDE DEF status
<1>6. run'.report = run.report \cup {<<g, status>>}
  BY <1>1, <1>3, <1>4, <1>5, RecordedSound
<1>7. ASSUME ~HasStatus("DRIFT")' PROVE Matches(g)'
  <2>1. status # "DRIFT"
    <3> DEFINE row == <<g, status>>
    <3>1. row \in run'.report /\ row[2] = status
      BY <1>6
    <3> HIDE DEF row
    <3> QED BY <3>1, <1>7 DEF HasStatus
  <2>2. Matches(g)
    BY <2>1 DEF status, Matches
  <2> QED BY <1>1, <2>2 DEF Matches, Declared
<1>8. Handled(g)'
  BY <1>1, <1>4, <1>7 DEF Handled, Listed
<1> QED BY <1>1, <1>2, <1>5, <1>8, RecordKeeps

\* A preflight creates nothing and vouches for nothing.
LEMMA AnnounceKeeps ==
  ASSUME IInv, NEW r, Announce(r)
  PROVE  IInv'
<1>1. /\ At(r) /\ run' = Recorded(r, "would create") /\ run.mode = "preflight"
      /\ UNCHANGED <<group, stores, service, links, blueprint, process>>
  BY DEF Announce, account, people
<1>2. AccountSound' /\ Grows
  BY <1>1, AccountKept, NothingLost DEF IInv, account
<1>3. "would create" \in Statuses /\ run.mode # "provision"
  BY <1>1 DEF Statuses
<1> QED BY <1>1, <1>2, <1>3, RecordKeeps

\* A service that is there, created now or before, is linked next.
LEMMA ToLinking ==
  ASSUME IInv, AccountSound', Grows, NEW r \in DOMAIN blueprint.services, At(r),
         ~run.misled => r \in Listed', NEW status \in Statuses, run.mode = "provision",
         run' = [run EXCEPT !.pc = "linking", !.report = @ \cup {<<r, status>>},
                            !.todo = blueprint.services[r].groups]
  PROVE  IInv'
<1>1. AccountSound /\ RunSound /\ blueprint' = blueprint /\ blueprint \in Blueprints
  BY DEF IInv, Grows, AccountSound
<1>2. /\ r \in Names /\ run.pc = "working" /\ r = blueprint.order[run.at]
      /\ run.at \in DOMAIN blueprint.order
  BY <1>1, AtFacts
<1> DEFINE groups == blueprint.services[r].groups
<1>3. groups \in Seq(Asked) /\ Range(groups) = GroupsOf(r)
  <2>1. groups \in Seq(GroupsOf(r))
    BY <1>1, ResourcesAssumption DEF GroupsOf
  <2>2. GroupsOf(r) \subseteq Asked
    BY DEF Asked
  <2>3. \A i \in 1..Len(groups) : groups[i] \in Asked
    BY <2>1, <2>2
  <2> QED BY <2>1, <2>3 DEF GroupsOf
<1>4. run.report \cup {<<r, status>>} \in SUBSET ((Names \cup Asked) \X Statuses)
  <2>1. <<r, status>> \in (Names \cup Asked) \X Statuses
    BY <1>2
  <2> QED BY <2>1, <1>1 DEF RunSound, Run
<1> HIDE DEF groups
<1>5. /\ run' \in Run /\ run'.pc = "linking" /\ run'.todo = groups /\ run'.at = run.at
      /\ run'.seen = run.seen /\ run'.mode = run.mode /\ run'.misled = run.misled
      /\ run'.result = run.result /\ run.report \subseteq run'.report
  BY <1>1, <1>3, <1>4 DEF RunSound, Run, groups
<1>6. Run' = Run /\ run.result = "none"
  BY <1>1, <1>2 DEF Run, Names, Asked, GroupsOf, RunSound
<1>7. RunSound'
  BY <1>1, <1>2, <1>3, <1>5, <1>6 DEF RunSound, GroupsOf
<1>8. ASSUME ~run.misled PROVE Progress'
  <2>1. run'.seen \subseteq Listed'
    BY <1>2, <1>5, <1>8 DEF IInv, Progress, Grows
  <2>2. ASSUME NEW i \in 1..(run.at - 1), i \in DOMAIN blueprint.order, NEW x, x = blueprint.order[i]
        PROVE  Handled(x)'
    <3>1. Handled(x)
      BY <1>2, <1>8, <2>2 DEF IInv, Progress
    <3> QED BY <3>1, <1>1, <1>5, HandledStays
  <2>3. \A i \in 1..(run'.at - 1) : i \in DOMAIN blueprint'.order =>
           \A x : x = blueprint'.order[i] => Handled(x)'
    BY <1>1, <1>5, <2>2
  <2>4. blueprint'.order[run'.at] = r /\ r \in Listed'
    BY <1>1, <1>2, <1>5, <1>8
  <2>5. \A g \in GroupsOf(r)' : g \in Range(run'.todo)
    BY <1>1, <1>3, <1>5 DEF GroupsOf
  <2> QED BY <2>1, <2>3, <2>4, <2>5 DEF Progress, Handled
<1> QED BY <1>5, <1>6, <1>7, <1>8 DEF IInv

\* A store that exists is handled, a service that exists is to be linked.
LEMMA AdoptKeeps ==
  ASSUME IInv, NEW r, Adopt(r)
  PROVE  IInv'
<1>1. /\ At(r) /\ r \notin GroupNames /\ r \in run.seen
      /\ run' = IF r \in DOMAIN blueprint.services /\ run.mode = "provision"
                THEN [run EXCEPT !.pc = "linking", !.report = @ \cup {<<r, "exists">>},
                                 !.todo = blueprint.services[r].groups]
                ELSE Recorded(r, "exists")
      /\ UNCHANGED <<group, stores, service, links, blueprint, process>>
  BY DEF Adopt, account, people
<1>2. AccountSound' /\ Grows
  BY <1>1, AccountKept, NothingLost DEF IInv, account
<1>3. "exists" \in Statuses /\ run.pc = "working"
  BY <1>1 DEF Statuses, At
<1>4. ~run.misled => r \in Listed'
  BY <1>1, <1>2, <1>3 DEF IInv, Progress, Grows
<1>5. CASE r \in DOMAIN blueprint.services /\ run.mode = "provision"
  BY <1>1, <1>2, <1>3, <1>4, <1>5, ToLinking
<1>6. CASE ~(r \in DOMAIN blueprint.services /\ run.mode = "provision")
  <2>1. run.mode = "provision" /\ ~run.misled => Handled(r)'
    BY <1>1, <1>4, <1>6 DEF Handled, GroupNames
  <2> QED BY <1>1, <1>2, <1>3, <1>6, <2>1, RecordKeeps
<1> QED BY <1>5, <1>6

\* A store or a group that was created is handled, a service that was created is to be linked.
LEMMA CreateKeeps ==
  ASSUME IInv, NEW r, Create(r)
  PROVE  IInv'
<1>1. /\ Created(r) /\ At(r) /\ run.mode = "provision"
      /\ run' = IF r \in DOMAIN blueprint.services
                THEN [run EXCEPT !.pc = "linking", !.report = @ \cup {<<r, "created">>},
                                 !.todo = blueprint.services[r].groups]
                ELSE Recorded(r, "created")
      /\ UNCHANGED <<blueprint, process>>
  BY DEF Create, Created, people
<1>2. AccountSound /\ RunSound
  BY DEF IInv
<1>3. r \in Range(blueprint.order)
  BY <1>1, <1>2, AtFacts
<1>4. /\ AccountSound' /\ r \in Listed' /\ Listed \subseteq Listed' /\ links' = links
      /\ \A g \in DOMAIN group : g \in DOMAIN group' /\ group'[g] = group[g]
      /\ r \in GroupNames => Matches(r)'
  BY <1>1, <1>2, <1>3, CreatedSound
<1>5. Grows
  BY <1>1, <1>4 DEF Grows
<1>6. "created" \in Statuses
  BY DEF Statuses
<1>7. CASE r \in DOMAIN blueprint.services
  BY <1>1, <1>4, <1>5, <1>6, <1>7, ToLinking
<1>8. CASE r \notin DOMAIN blueprint.services
  <2>1. Handled(r)'
    BY <1>1, <1>4, <1>8 DEF Handled, GroupNames
  <2> QED BY <1>1, <1>4, <1>5, <1>6, <1>8, <2>1, RecordKeeps
<1> QED BY <1>7, <1>8

\* The next group of a service under way is linked, or entered as missing.
LEMMA TodoShrinks ==
  ASSUME IInv, AccountSound', Grows, NEW g, run.pc = "linking", run.todo # <<>>, g = Head(run.todo),
         NEW status \in Statuses,
         run' = [run EXCEPT !.todo = Tail(@), !.report = @ \cup {<<g, status>>}],
         status = "FAILED" \/ <<g, blueprint.order[run.at]>> \in links'
  PROVE  IInv'
<1> DEFINE s == blueprint.order[run.at]
<1>1. AccountSound /\ RunSound /\ blueprint' = blueprint
  BY DEF IInv, Grows
<1>2. /\ run.todo \in Seq(Asked) /\ run \in Run /\ run.result = "none"
      /\ run.at \in DOMAIN blueprint.order /\ s \in DOMAIN blueprint.services
      /\ run.mode = "provision" /\ Range(run.todo) \subseteq GroupsOf(s)
  BY <1>1, RunFacts DEF RunSound
<1>3. /\ Tail(run.todo) \in Seq(Asked) /\ g \in Range(run.todo)
      /\ Range(Tail(run.todo)) \subseteq Range(run.todo)
      /\ \A x \in Range(run.todo) : x = g \/ x \in Range(Tail(run.todo))
  BY <1>2, QueueFacts
<1>4. run.report \cup {<<g, status>>} \in SUBSET ((Names \cup Asked) \X Statuses)
  <2>1. g \in Asked
    BY <1>2, <1>3 DEF Asked
  <2>2. <<g, status>> \in (Names \cup Asked) \X Statuses
    BY <2>1
  <2> QED BY <2>2, <1>2 DEF Run
<1>5. /\ run' \in Run /\ run'.pc = "linking" /\ run'.todo = Tail(run.todo) /\ run'.at = run.at
      /\ run'.seen = run.seen /\ run'.mode = run.mode /\ run'.misled = run.misled
      /\ run'.result = run.result /\ run'.report = run.report \cup {<<g, status>>}
  BY <1>2, <1>3, <1>4 DEF Run
<1>6. Run' = Run
  BY <1>1 DEF Run, Names, Asked, GroupsOf
<1>7. RunSound'
  BY <1>1, <1>2, <1>3, <1>5, <1>6 DEF RunSound, GroupsOf
<1>8. ASSUME ~run.misled PROVE Progress'
  <2>1. /\ run.seen \subseteq Listed /\ s \in Listed
        /\ HasStatus("FAILED") \/ \A h \in GroupsOf(s) : <<h, s>> \in links \/ h \in Range(run.todo)
    BY <1>8 DEF IInv, Progress
  <2>2. ASSUME NEW i \in 1..(run.at - 1), i \in DOMAIN blueprint.order, NEW x, x = blueprint.order[i]
        PROVE  Handled(x)'
    <3>1. Handled(x)
      BY <1>2, <1>8, <2>2 DEF IInv, Progress
    <3> QED BY <3>1, <1>1, <1>5, HandledStays
  <2>3. \A i \in 1..(run'.at - 1) : i \in DOMAIN blueprint'.order =>
           \A x : x = blueprint'.order[i] => Handled(x)'
    BY <1>1, <1>5, <2>2
  <2>4. run'.seen \subseteq Listed' /\ s \in Listed' /\ blueprint'.order[run'.at] = s
    BY <1>1, <1>5, <2>1 DEF Grows
  <2>5. HasStatus("FAILED")' \/ \A h \in GroupsOf(s) : <<h, s>> \in links' \/ h \in Range(Tail(run.todo))
    <3>1. CASE status = "FAILED"
      <4> DEFINE row == <<g, status>>
      <4>1. row \in run'.report /\ row[2] = "FAILED"
        BY <1>5, <3>1
      <4> HIDE DEF row
      <4> QED BY <4>1 DEF HasStatus
    <3>2. CASE <<g, s>> \in links'
      <4>1. HasStatus("FAILED") => HasStatus("FAILED")'
        BY <1>5 DEF HasStatus
      <4> QED BY <4>1, <3>2, <2>1, <1>3 DEF Grows
    <3> QED BY <3>1, <3>2
  <2>6. GroupsOf(s)' = GroupsOf(blueprint.order[run.at])
    BY <1>1, <2>4 DEF GroupsOf
  <2> QED BY <2>3, <2>4, <2>5, <2>6, <1>1, <1>5 DEF Progress, Handled, GroupsOf
<1> QED BY <1>2, <1>5, <1>7, <1>8 DEF IInv

\* A group that was linked needs no further link.
LEMMA LinkKeeps ==
  ASSUME IInv, NEW g, Link(g)
  PROVE  IInv'
<1> DEFINE status == IF <<g, blueprint.order[run.at]>> \in links THEN "already linked" ELSE "linked"
<1>1. /\ Linked(g) /\ run.pc = "linking" /\ run.todo # <<>> /\ g = Head(run.todo)
      /\ run' = [run EXCEPT !.todo = Tail(@), !.report = @ \cup {<<g, status>>}]
      /\ UNCHANGED <<blueprint, process>>
  BY DEF Link, Linked, people
<1>2. /\ AccountSound' /\ UNCHANGED <<group, stores, service>>
      /\ links' = links \cup {<<g, blueprint.order[run.at]>>}
  BY <1>1, LinkedSound DEF IInv
<1>3. Grows
  BY <1>1, <1>2 DEF Grows, Listed
<1>4. status \in Statuses
  BY DEF Statuses
<1> HIDE DEF status
<1> QED BY <1>1, <1>2, <1>3, <1>4, TodoShrinks

\* A link that fails is in the report.
LEMMA LinkFailsKeeps ==
  ASSUME IInv, LinkFails
  PROVE  IInv'
<1> DEFINE g == Head(run.todo)
<1>1. /\ run.pc = "linking" /\ run.todo # <<>>
      /\ run' = [run EXCEPT !.todo = Tail(@), !.report = @ \cup {<<g, "FAILED">>}]
      /\ UNCHANGED <<group, stores, service, links, blueprint, process>>
  BY DEF LinkFails, account, people
<1>2. AccountSound' /\ Grows
  BY <1>1, AccountKept, NothingLost DEF IInv, account
<1>3. "FAILED" \in Statuses /\ g = Head(run.todo)
  BY DEF Statuses
<1> HIDE DEF g
<1> QED BY <1>1, <1>2, <1>3, TodoShrinks

\* A service is handled once none of its groups is left to link.
LEMMA LinksDoneKeeps ==
  ASSUME IInv, LinksDone
  PROVE  IInv'
<1> DEFINE s == blueprint.order[run.at]
<1>1. /\ run.pc = "linking" /\ run.todo = <<>> /\ run' = [run EXCEPT !.pc = "working", !.at = @ + 1]
      /\ UNCHANGED <<group, stores, service, links, blueprint, process>>
  BY DEF LinksDone, account, people
<1>2. AccountSound' /\ Grows /\ AccountSound /\ RunSound
  BY <1>1, AccountKept, NothingLost DEF IInv, account
<1>3. /\ run \in Run /\ run.at \in Nat \ {0} /\ run.result = "none" /\ run.mode # "none" /\ s \in DOMAIN blueprint.services
      /\ blueprint \in Blueprints
  BY <1>1, <1>2, RunFacts DEF RunSound, AccountSound
<1>4. /\ run' \in Run /\ run'.pc = "working" /\ run'.at = run.at + 1 /\ run'.seen = run.seen
      /\ run'.mode = run.mode /\ run'.report = run.report /\ run'.misled = run.misled
      /\ run'.result = "none"
  <2>1. run.at + 1 \in Nat \ {0}
    BY <1>3
  <2> QED BY <1>1, <1>3, <2>1 DEF Run
<1>5. Run' = Run
  BY <1>1 DEF Run, Names, Asked, GroupsOf
<1>6. RunSound'
  BY <1>3, <1>4, <1>5 DEF RunSound
<1>7. ASSUME ~run.misled PROVE Progress'
  <2>1. Range(run.todo) = {}
    BY <1>1 DEF Range
  <2>2. s \in Listed /\ (HasStatus("FAILED") \/ \A g \in GroupsOf(s) : <<g, s>> \in links)
    BY <1>1, <1>7, <2>1 DEF IInv, Progress
  <2>3. s \notin GroupNames
    BY <1>3, ResourcesAssumption DEF GroupNames
  <2>4. Handled(s)
    BY <2>2, <2>3 DEF Handled
  <2>5. PICK r : r = s
    OBVIOUS
  <2>6. Handled(r)'
    BY <1>2, <1>4, <2>4, <2>5, HandledStays
  <2> QED BY <1>1, <1>2, <1>4, <1>7, <2>5, <2>6, Advances DEF IInv
<1> QED BY <1>4, <1>6, <1>7, <1>2 DEF IInv

\* Past the last resource, everything is handled: that is what "Applied" says.
LEMMA FinishKeeps ==
  ASSUME IInv, Finish
  PROVE  IInv'
<1> DEFINE how == IF HasStatus("FAILED") THEN "failed"
                  ELSE IF run.mode = "preflight" THEN "preflight" ELSE "applied"
<1>1. /\ run.pc = "working" /\ run.at > Len(blueprint.order) /\ ~HasStatus("DRIFT")
      /\ run' = Ended(how) /\ UNCHANGED <<group, stores, service, links, blueprint, process>>
  BY DEF Finish, account, people
<1>2. AccountSound' /\ AccountSound /\ RunSound
  BY <1>1, AccountKept DEF IInv
<1>3. how \in {"drift", "failed", "preflight", "applied", "stopped"}
  OBVIOUS
<1> HIDE DEF how
<1>4. RunSound' /\ run'.result = how /\ run'.misled = run.misled /\ Progress'
  BY <1>1, <1>2, <1>3, EndedSound
<1>5. ASSUME ~run.misled, how = "applied" PROVE Complete'
  <2>1. ~HasStatus("FAILED") /\ run.mode # "preflight"
    BY <1>5 DEF how
  <2>2. run.mode \in {"preflight", "provision"}
    BY <1>1, <1>2 DEF RunSound, Run
  <2>3. /\ blueprint \in Blueprints /\ run.at \in Nat /\ Len(blueprint.order) \in Nat
        /\ DOMAIN blueprint.order = 1..Len(blueprint.order) /\ Range(blueprint.order) = Names
    <3>1. blueprint \in Blueprints /\ run.at \in Nat
      BY <1>2, RunFacts DEF AccountSound, RunSound
    <3>2. Range(blueprint.order) = Names
      BY <3>1, ResourcesAssumption DEF Names
    <3>3. blueprint.order \in Seq(Names)
      BY <3>1, ResourcesAssumption DEF Names
    <3> QED BY <3>1, <3>2, <3>3
  <2>4. ASSUME NEW r \in Names PROVE Handled(r)
    <3>1. PICK i \in DOMAIN blueprint.order : r = blueprint.order[i]
      BY <2>3 DEF Range
    <3>2. i \in 1..(run.at - 1)
      BY <1>1, <2>3
    <3> QED BY <3>1, <3>2, <2>1, <2>2, <1>1, <1>5 DEF IInv, Progress
  <2>5. Complete
    <3>1. Range(blueprint.order) \subseteq Listed
      BY <2>3, <2>4 DEF Handled
    <3>2. \A g \in GroupNames : Matches(g)
      BY <1>1, <2>4 DEF Handled, Names, GroupNames
    <3>3. \A s \in DOMAIN blueprint.services : \A g \in GroupsOf(s) : <<g, s>> \in links
      BY <2>1, <2>4 DEF Handled, Names
    <3> QED BY <3>1, <3>2, <3>3 DEF Complete, Matches, GroupsOf
  <2> QED BY <1>1, <2>5 DEF Complete, Listed, GroupNames, Declared
<1> QED BY <1>2, <1>4, <1>5 DEF IInv

\* A run dies, at a call that may have taken effect.
LEMMA StopsKeeps ==
  ASSUME IInv, Stops
  PROVE  IInv'
<1>1. run' = Ended("stopped") /\ UNCHANGED <<blueprint, process>> /\ AccountSound /\ RunSound
  BY DEF Stops, IInv
<1>2. AccountSound'
  <2>1. CASE UNCHANGED account
    BY <1>1, <2>1, AccountKept DEF account
  <2>2. CASE \E r \in Range(blueprint.order) : Created(r)
    BY <1>1, <2>2, CreatedSound
  <2>3. CASE \E g \in GroupNames : Linked(g)
    BY <1>1, <2>3, LinkedSound
  <2> QED BY <2>1, <2>2, <2>3 DEF Stops
<1> QED BY <1>1, <1>2, EndsUnapplied

\* What a run knows of the blueprint does not change while people are at the account.
LEMMA RunUndisturbed ==
  ASSUME RunSound, UNCHANGED <<blueprint, run>>
  PROVE  RunSound'
BY DEF RunSound, Run, Names, Asked, GroupsOf

\* A run that took a refusal for a link claims nothing.
LEMMA LinkMisreadKeeps ==
  ASSUME IInv, NEW g, LinkMisread(g)
  PROVE  IInv'
<1>1. /\ run.pc = "linking" /\ run.todo # <<>> /\ g = Head(run.todo)
      /\ run' = [run EXCEPT !.todo = Tail(@), !.report = @ \cup {<<g, "already linked">>},
                           !.misled = TRUE]
      /\ UNCHANGED <<group, stores, service, links, blueprint, process>>
  BY DEF LinkMisread, account
<1>2. AccountSound' /\ RunSound
  BY <1>1, AccountKept DEF IInv
<1>3. run.todo \in Seq(Asked) /\ run \in Run /\ Range(run.todo) \subseteq GroupsOf(blueprint.order[run.at])
  BY <1>1, <1>2, RunFacts DEF RunSound
<1>4. /\ Tail(run.todo) \in Seq(Asked) /\ g \in Range(run.todo)
      /\ Range(Tail(run.todo)) \subseteq Range(run.todo)
  BY <1>1, <1>3, QueueFacts
<1>5. run.report \cup {<<g, "already linked">>} \in SUBSET ((Names \cup Asked) \X Statuses)
  <2>1. g \in Asked
    BY <1>1, <1>2, <1>3, <1>4 DEF Asked, RunSound
  <2>2. <<g, "already linked">> \in (Names \cup Asked) \X Statuses
    BY <2>1 DEF Statuses
  <2> QED BY <2>2, <1>3 DEF Run
<1>6. /\ run' \in Run /\ run'.pc = "linking" /\ run'.todo = Tail(run.todo) /\ run'.at = run.at
      /\ run'.mode = run.mode /\ run'.result = run.result /\ run'.misled
  BY <1>1, <1>3, <1>4, <1>5 DEF Run
<1>7. Run' = Run
  BY <1>1 DEF Run, Names, Asked, GroupsOf
<1>8. RunSound'
  BY <1>1, <1>2, <1>3, <1>4, <1>6, <1>7 DEF RunSound, GroupsOf
<1> QED BY <1>2, <1>6, <1>8 DEF IInv

\* A run somebody disturbed claims nothing.
LEMMA RunMeddled ==
  ASSUME RunSound, UNCHANGED blueprint, run' = [run EXCEPT !.misled = TRUE]
  PROVE  RunSound' /\ run'.misled
<1>1. Run' = Run
  BY DEF Run, Names, Asked, GroupsOf
<1>2. /\ run' \in Run /\ run'.misled /\ run'.pc = run.pc /\ run'.at = run.at /\ run'.todo = run.todo
      /\ run'.result = run.result /\ run'.mode = run.mode
  BY DEF RunSound, Run
<1> QED BY <1>1, <1>2 DEF RunSound, GroupsOf

\* Typing a secret in leaves what a run compared as it was.
LEMMA TypeSecretsKeeps ==
  ASSUME IInv, NEW r, TypeSecrets(r)
  PROVE  IInv'
<1>1. /\ AccountSound /\ RunSound
      /\ AccountSound' /\ UNCHANGED <<blueprint, stores, links, run>>
      /\ DOMAIN group' = DOMAIN group /\ DOMAIN service' = DOMAIN service
      /\ \A g \in GroupNames \cap DOMAIN group : Matches(g) => Matches(g)'
  BY TypeSecretsSound DEF IInv
<1>2. RunSound'
  BY <1>1, RunUndisturbed
<1>3. Listed' = Listed /\ GroupNames' = GroupNames
  BY <1>1 DEF Listed, GroupNames
<1>4. \A g \in GroupNames : g \in Listed /\ Matches(g) => Matches(g)'
  BY <1>1, ListedGroups
<1>5. ASSUME NEW x, Handled(x) PROVE Handled(x)'
  <2>1. (HasStatus("DRIFT")' = HasStatus("DRIFT")) /\ (HasStatus("FAILED")' = HasStatus("FAILED"))
    BY <1>1 DEF HasStatus
  <2>2. x \in GroupNames' /\ ~HasStatus("DRIFT")' => Matches(x)'
    BY <1>3, <1>4, <1>5, <2>1 DEF Handled
  <2> QED BY <1>1, <1>3, <1>5, <2>1, <2>2 DEF Handled, GroupsOf
<1>6. Progress => Progress'
  <2> SUFFICES ASSUME Progress PROVE Progress'
    OBVIOUS
  <2>1. ASSUME run.pc \in {"working", "linking"}, run.mode = "provision",
               NEW i \in 1..(run.at - 1), i \in DOMAIN blueprint.order, NEW x, x = blueprint.order[i]
        PROVE  Handled(x)'
    BY <1>5, <2>1 DEF Progress
  <2>2. run'.pc \in {"working", "linking"} /\ run'.mode = "provision" =>
          \A i \in 1..(run'.at - 1) : i \in DOMAIN blueprint'.order =>
            \A x : x = blueprint'.order[i] => Handled(x)'
    BY <1>1, <2>1
  <2>3. HasStatus("FAILED")' = HasStatus("FAILED")
    BY <1>1 DEF HasStatus
  <2> QED BY <1>1, <1>3, <2>2, <2>3 DEF Progress, Handled, GroupsOf
<1>7. Complete => Complete'
  <2> SUFFICES ASSUME Complete PROVE Complete'
    OBVIOUS
  <2>1. Range(blueprint.order) \subseteq Listed' /\ blueprint \in Blueprints
    BY <1>3 DEF Complete, IInv, AccountSound
  <2>2. \A g \in GroupNames : g \in Listed
    BY <1>3, <2>1, ResourcesAssumption DEF GroupNames
  <2>3. \A g \in GroupNames : Matches(g)'
    BY <1>4, <2>2 DEF Complete, Matches
  <2> QED BY <1>1, <1>3, <2>1, <2>3 DEF Complete, Matches
<1> QED BY <1>1, <1>2, <1>6, <1>7 DEF IInv

(* ------------------------------ the check ------------------------------ *)

\* What the blueprint spells out is well-formed, and the choices are its own.
WellFormed(bp) ==
  \A g \in DOMAIN bp.vars : \A n \in Literals(bp.vars[g]) : Fits(n, bp.vars[g][n])

LeftToGroups(bp, s) ==
  LET own == bp.services[s].vars
      wired == VariablesFor(bp, s)
  IN /\ \A n \in Literals(own) : n = "NODE_ENV" /\ Fits(n, own[n])
     /\ DOMAIN Enums \cap DOMAIN wired \subseteq Literals(wired)

\* An environment that has the literals of a service as the blueprint gives them, and a well-formed
\* value for the rest.
Filled(bp, s, env) ==
  LET wired == VariablesFor(bp, s) IN
  /\ DOMAIN env = DOMAIN wired \cup {"NODE_ENV"}
  /\ \A n \in Literals(wired) : env[n] = wired[n]
  /\ \A n \in DOMAIN wired \ Literals(wired) : env[n] = "own"
  /\ "NODE_ENV" \notin DOMAIN wired => env["NODE_ENV"] = "production"

\* A literal that reaches a service is spelled out by one of its groups, or is its own.
LEMMA WiredLiterals ==
  ASSUME NEW bp \in Blueprints, NEW s \in DOMAIN bp.services, NEW n \in Literals(VariablesFor(bp, s))
  PROVE  \/ /\ n \in Literals(bp.services[s].vars)
            /\ VariablesFor(bp, s)[n] = bp.services[s].vars[n]
         \/ \E g \in DOMAIN bp.vars : /\ n \in Literals(bp.vars[g])
                                      /\ VariablesFor(bp, s)[n] = bp.vars[g][n]
<1> DEFINE own == bp.services[s].vars
           wired == VariablesFor(bp, s)
           asked == Range(bp.services[s].groups) \cap DOMAIN bp.vars
<1>1. /\ DOMAIN wired = (UNION {DOMAIN bp.vars[g] : g \in asked}) \cup DOMAIN own
      /\ \A g \in asked : \A m \in DOMAIN bp.vars[g] : wired[m] = bp.vars[g][m]
      /\ \A m \in DOMAIN own : wired[m] = own[m]
  BY VariablesForFacts
<1>2. n \in DOMAIN wired /\ wired[n] \notin {Sync, FromDatabase, FromKeyValue}
  BY DEF Literals
<1> HIDE DEF wired
<1>3. CASE n \in DOMAIN own
  BY <1>1, <1>2, <1>3 DEF Literals, wired
<1>4. CASE n \notin DOMAIN own
  <2>1. PICK g \in asked : n \in DOMAIN bp.vars[g]
    BY <1>1, <1>2, <1>4
  <2>2. wired[n] = bp.vars[g][n]
    BY <1>1, <2>1
  <2> QED BY <1>2, <2>1, <2>2 DEF Literals, wired
<1> QED BY <1>3, <1>4

\* The schema takes everything that was typed in: what a checked blueprint requires is there, what
\* it spells out fits and what is left to the dashboard is not a choice between fixed values.
LEMMA CheckedFits ==
  ASSUME NEW bp \in Blueprints, NEW s \in DOMAIN bp.services,
         Required \subseteq DOMAIN VariablesFor(bp, s), WellFormed(bp), LeftToGroups(bp, s),
         NEW env, Filled(bp, s, env)
  PROVE  SchemaIssues(env) = {}
<1> DEFINE wired == VariablesFor(bp, s)
<1>1. /\ DOMAIN env = DOMAIN wired \cup {"NODE_ENV"}
      /\ \A n \in Literals(wired) : env[n] = wired[n]
      /\ \A n \in DOMAIN wired \ Literals(wired) : env[n] = "own"
      /\ "NODE_ENV" \notin DOMAIN wired => env["NODE_ENV"] = "production"
  BY DEF Filled
<1>2. ASSUME NEW n \in DOMAIN env PROVE Fits(n, env[n])
  <2>1. CASE n \in Literals(wired)
    <3>1. Fits(n, wired[n])
      BY <2>1, WiredLiterals DEF WellFormed, LeftToGroups
    <3> QED BY <1>1, <2>1, <3>1
  <2>2. CASE n \in DOMAIN wired \ Literals(wired)
    <3>1. n \notin DOMAIN Enums
      BY <2>2 DEF LeftToGroups
    <3>2. env[n] = "own"
      BY <1>1, <2>2
    <3>3. Fits(n, "own")
      BY <3>1 DEF Fits
    <3> QED BY <3>2, <3>3
  <2>3. CASE n \notin DOMAIN wired
    <3>1. n = "NODE_ENV" /\ env[n] = "production"
      BY <1>1, <2>3
    <3>2. "NODE_ENV" \in DOMAIN Enums /\ "production" \in Enums["NODE_ENV"]
      BY DEF Enums
    <3>3. Fits("NODE_ENV", "production")
      BY <3>2 DEF Fits, Urls
    <3> QED BY <3>1, <3>3
  <2>4. Literals(wired) \subseteq DOMAIN wired
    BY DEF Literals
  <2> QED BY <2>1, <2>2, <2>3, <2>4
<1>3. Required \subseteq DOMAIN env
  BY <1>1
<1> QED BY <1>2, <1>3 DEF SchemaIssues

\* What a group spells out and every group together say is the same.
LEMMA ConfiguredFacts ==
  ASSUME NEW bp \in Blueprints, NEW g \in DOMAIN bp.vars, NEW n \in Literals(bp.vars[g])
  PROVE  LET configured == Union({bp.vars[h] : h \in DOMAIN bp.vars})
         IN n \in Literals(configured) /\ configured[n] = bp.vars[g][n]
<1> DEFINE F == {bp.vars[h] : h \in DOMAIN bp.vars}
<1>1. \A a, b \in F : DOMAIN a \cap DOMAIN b # {} => a = b
  BY VariablesAssumption
<1>2. bp.vars[g] \in F /\ n \in DOMAIN bp.vars[g]
  BY DEF Literals
<1>3. n \in DOMAIN Union(F) /\ Union(F)[n] = bp.vars[g][n]
  <2>1. /\ DOMAIN Union(F) = UNION {DOMAIN f : f \in F}
        /\ \A f \in F : \A m \in DOMAIN f : Union(F)[m] = f[m]
    <3> HIDE DEF F
    <3> QED BY <1>1, UnionFacts
  <2> QED BY <1>2, <2>1
<1> QED BY <1>3 DEF Literals

\* What the check of a blueprint establishes of each service and of the groups.
LEMMA CheckFacts ==
  ASSUME NEW bp, CheckBlueprint(bp) = {}, NEW s \in DOMAIN bp.services
  PROVE  /\ (Required \cup MustBeExplicit) \subseteq DOMAIN VariablesFor(bp, s)
         /\ NeverLiteral \cap Literals(VariablesFor(bp, s)) = {}
         /\ ConfiguredProblems(bp) = {}
         /\ Range(bp.services[s].groups) \subseteq DOMAIN bp.vars
<1>1. ServiceProblems(bp, s) = {} /\ ConfiguredProblems(bp) = {}
  <2>1. ConfiguredProblems(bp) = {}
    BY DEF CheckBlueprint
  <2>2. \A t \in DOMAIN bp.services : ServiceProblems(bp, t) = {}
    BY DEF CheckBlueprint
  <2> QED BY <2>1, <2>2
<1> DEFINE wired == VariablesFor(bp, s)
<1>2. /\ (Required \cup MustBeExplicit) \ DOMAIN wired = {}
      /\ NeverLiteral \cap Literals(wired) = {}
      /\ Range(bp.services[s].groups) \ DOMAIN bp.vars = {}
  BY <1>1 DEF ServiceProblems
<1> QED BY <1>1, <1>2

\* Production finds nothing else in what was typed in: secrets are not in the file, addresses in it
\* are https and the storage driver is spelled out.
LEMMA CheckedIsForProduction ==
  ASSUME NEW bp \in Blueprints, NEW s \in DOMAIN bp.services, CheckBlueprint(bp) = {},
         LeftToGroups(bp, s), NEW source, Filled(bp, s, source)
  PROVE  ProductionIssues(Parsed(source)) \subseteq {"MAIL_DRIVER", "CRON_SECRET"}
<1> DEFINE wired == VariablesFor(bp, s)
           env == Parsed(source)
           configured == Union({bp.vars[g] : g \in DOMAIN bp.vars})
<1>1. /\ \A n \in Literals(wired) : source[n] = wired[n]
      /\ \A n \in DOMAIN wired \ Literals(wired) : source[n] = "own"
      /\ DOMAIN wired \subseteq DOMAIN source
  BY DEF Filled
<1>2. /\ (Required \cup MustBeExplicit) \subseteq DOMAIN wired
      /\ NeverLiteral \cap Literals(wired) = {}
      /\ ConfiguredProblems(bp) = {}
  BY CheckFacts
<1>3. \A n \in (Required \cup MustBeExplicit) : env[n] = source[n]
  <2>1. (Required \cup MustBeExplicit) \subseteq SchemaNames
    BY DEF SchemaNames, MustBeExplicit, Defaults
  <2> QED BY <1>1, <1>2, <2>1 DEF Parsed
<1>4. ASSUME NEW n \in Literals(wired), n # "NODE_ENV"
      PROVE  n \in Literals(configured) /\ configured[n] = wired[n]
  <2>1. n \notin Literals(bp.services[s].vars)
    BY <1>4 DEF LeftToGroups
  <2>2. PICK g \in DOMAIN bp.vars : n \in Literals(bp.vars[g]) /\ wired[n] = bp.vars[g][n]
    BY <2>1, WiredLiterals
  <2> QED BY <2>2, ConfiguredFacts
<1>5. env["SESSION_SECRET"] = "own" /\ env["TOTP_ENCRYPTION_KEY"] = "own"
  <2> HIDE DEF wired, env
  <2>1. /\ {"SESSION_SECRET", "TOTP_ENCRYPTION_KEY"} \subseteq Required
        /\ {"SESSION_SECRET", "TOTP_ENCRYPTION_KEY"} \subseteq NeverLiteral
    BY DEF Required, NeverLiteral
  <2> QED BY <1>1, <1>2, <1>3, <2>1
<1>6. env["PUBLIC_BASE_URL"] # "http"
  <2>1. "PUBLIC_BASE_URL" \in Required
    BY DEF Required
  <2>2. CASE "PUBLIC_BASE_URL" \in Literals(wired)
    <3>1. "PUBLIC_BASE_URL" \in Literals(configured)
          /\ configured["PUBLIC_BASE_URL"] = wired["PUBLIC_BASE_URL"]
      BY <1>4, <2>2
    <3>2. configured["PUBLIC_BASE_URL"] = "https"
      <4> HIDE DEF wired
      <4> QED BY <1>2, <3>1 DEF ConfiguredProblems
    <3> HIDE DEF wired, env, configured
    <3> QED BY <1>1, <1>3, <2>1, <2>2, <3>1, <3>2
  <2>3. CASE "PUBLIC_BASE_URL" \notin Literals(wired)
    <3> HIDE DEF wired, env
    <3> QED BY <1>1, <1>2, <1>3, <2>1, <2>3
  <2> QED BY <2>2, <2>3
<1>7. env["STORAGE_DRIVER"] # "minio"
  <2>1. "STORAGE_DRIVER" \in MustBeExplicit /\ "STORAGE_DRIVER" \in DOMAIN Enums
    BY DEF MustBeExplicit, Enums
  <2>2. "STORAGE_DRIVER" \in Literals(wired)
    BY <1>2, <2>1 DEF LeftToGroups
  <2>3. "STORAGE_DRIVER" \in Literals(configured)
        /\ configured["STORAGE_DRIVER"] = wired["STORAGE_DRIVER"]
    BY <1>4, <2>2
  <2>4. configured["STORAGE_DRIVER"] # "minio"
    <3>1. "STORAGE_DRIVER" \in DOMAIN configured
      BY <2>3 DEF Literals
    <3> HIDE DEF wired
    <3> QED BY <1>2, <3>1 DEF ConfiguredProblems, Is, Has
  <2> HIDE DEF wired, env, configured
  <2> QED BY <1>1, <1>3, <2>1, <2>2, <2>3, <2>4
<1> HIDE DEF env
<1>8. ProductionIssues(env) \subseteq {"MAIL_DRIVER", "CRON_SECRET"}
  BY <1>5, <1>6, <1>7 DEF ProductionIssues, Is
<1> QED BY <1>8 DEF env

\* Once runs have completed the blueprint and the rest is typed in, an instance is started with
\* everything that is meant to reach it.
LEMMA CompletedIsFilled ==
  ASSUME AccountSound, Complete, NEW s \in DOMAIN blueprint.services, TypedIn(s),
         GroupsOf(s) \subseteq GroupNames
  PROVE  Filled(blueprint, s, EnvOf(s))
<1> DEFINE wired == VariablesFor(blueprint, s)
           own == blueprint.services[s].vars
           E == EnvOf(s)
<1>1. /\ blueprint \in Blueprints /\ Range(blueprint.order) = Names
      /\ \A g \in DOMAIN group : GroupSound(g)
      /\ stores \subseteq DOMAIN blueprint.stores
      /\ \A t \in DOMAIN service : ServiceSound(t)
  BY ResourcesAssumption DEF AccountSound, Names
<1>2. s \in DOMAIN service /\ ServiceSound(s)
  <2>1. s \in Listed
    BY <1>1 DEF Complete, Names
  <2>2. s \notin DOMAIN group /\ s \notin stores
    BY <1>1, ResourcesAssumption DEF GroupSound, GroupNames
  <2> QED BY <1>1, <2>1, <2>2 DEF Listed
<1>3. ASSUME NEW g \in GroupsOf(s) PROVE g \in DOMAIN group /\ g \in LinkedTo(s)
  <2>1. g \in Listed /\ g \in GroupNames
    BY <1>1, <1>3 DEF Complete, Names, GroupNames
  <2>2. g \in DOMAIN group
    BY <2>1, ListedGroups
  <2> QED BY <2>2, <1>3 DEF Complete, LinkedTo, GroupsOf
<1>4. ASSUME NEW g \in GroupsOf(s), NEW n \in DOMAIN blueprint.vars[g]
      PROVE  /\ n \in DOMAIN group[g]
             /\ n \in Literals(blueprint.vars[g]) => group[g][n] = blueprint.vars[g][n]
             /\ n \notin Literals(blueprint.vars[g]) => group[g][n] = "own"
  <2>1. CASE n \in Literals(blueprint.vars[g])
    <3>1. g \in GroupNames /\ n \in DOMAIN Declared(g) /\ Declared(g)[n] = blueprint.vars[g][n]
      BY <2>1, DeclaredFacts
    <3>2. Is(group[g], n, blueprint.vars[g][n])
      BY <3>1 DEF Complete
    <3> QED BY <2>1, <3>2 DEF Is, Has
  <2>2. CASE n \notin Literals(blueprint.vars[g])
    BY <2>2 DEF TypedIn, GroupsOf, Is, Has
  <2> QED BY <2>1, <2>2
<1>5. /\ Known(s) = DOMAIN own
      /\ \A n \in Literals(own) : service[s][n] = own[n] /\ service[s][n] \notin References
      /\ \A n \in DOMAIN own \ Literals(own) : service[s][n] = "own" \/ service[s][n] \in References
  BY <1>2 DEF Known, ServiceSound, TypedIn, Literals, References, Sync, FromDatabase, FromKeyValue
<1>6. /\ LinkedTo(s) = GroupsOf(s)
      /\ DOMAIN E = Known(s) \cup (UNION {DOMAIN group[g] : g \in LinkedTo(s)}) \cup {"NODE_ENV"}
      /\ \A n \in Known(s) : E[n] = IF service[s][n] \in References THEN "own" ELSE service[s][n]
      /\ \A g \in LinkedTo(s) : \A n \in DOMAIN group[g] \ Known(s) : E[n] = group[g][n]
      /\ "NODE_ENV" \notin Known(s) \cup (UNION {DOMAIN group[g] : g \in LinkedTo(s)})
           => E["NODE_ENV"] = "production"
  BY <1>2, <1>3, EnvOfFacts
<1>7. \A g \in GroupsOf(s) : DOMAIN group[g] = DOMAIN blueprint.vars[g]
  BY <1>1, <1>3, <1>4 DEF GroupSound
<1>8. /\ DOMAIN wired = (UNION {DOMAIN blueprint.vars[g] : g \in GroupsOf(s)}) \cup DOMAIN own
      /\ \A g \in GroupsOf(s) : \A n \in DOMAIN blueprint.vars[g] : wired[n] = blueprint.vars[g][n]
      /\ \A n \in DOMAIN own : wired[n] = own[n]
  <2>1. GroupsOf(s) \cap DOMAIN blueprint.vars = GroupsOf(s)
    BY DEF GroupNames
  <2> QED BY <1>1, <2>1, VariablesForFacts DEF GroupsOf
<1> HIDE DEF wired, own, E
<1>9. DOMAIN E = DOMAIN wired \cup {"NODE_ENV"}
  BY <1>5, <1>6, <1>7, <1>8
<1>10. ASSUME NEW n \in DOMAIN own
       PROVE  /\ n \in Literals(wired) => E[n] = wired[n]
              /\ n \notin Literals(wired) => E[n] = "own"
  <2>1. n \in Literals(wired) <=> n \in Literals(own)
    BY <1>8, <1>10 DEF Literals
  <2> QED BY <1>5, <1>6, <1>8, <1>10, <2>1
<1>11. ASSUME NEW n \in DOMAIN wired, n \notin DOMAIN own
       PROVE  /\ n \in Literals(wired) => E[n] = wired[n]
              /\ n \notin Literals(wired) => E[n] = "own"
  <2>1. PICK g \in GroupsOf(s) : n \in DOMAIN blueprint.vars[g]
    BY <1>8, <1>11
  <2>2. n \in Literals(wired) <=> n \in Literals(blueprint.vars[g])
    BY <1>8, <1>11, <2>1 DEF Literals
  <2>3. E[n] = group[g][n] /\ wired[n] = blueprint.vars[g][n]
    BY <1>5, <1>6, <1>7, <1>8, <1>11, <2>1
  <2> QED BY <1>4, <2>1, <2>2, <2>3
<1>12. "NODE_ENV" \notin DOMAIN wired => E["NODE_ENV"] = "production"
  BY <1>5, <1>6, <1>7, <1>8
<1>13. Literals(wired) \subseteq DOMAIN wired
  BY DEF Literals
<1> QED BY <1>9, <1>10, <1>11, <1>12, <1>13 DEF Filled, wired, E

(* ------------------------------ the theorems --------------------------- *)

\* An empty account, before any run.
LEMMA InitIInv == Init => IInv
<1> SUFFICES ASSUME Init PROVE IInv
  OBVIOUS
<1>1. /\ blueprint \in Blueprints /\ DOMAIN group = {} /\ stores = {} /\ DOMAIN service = {} /\ links = {}
      /\ run = Stopped /\ process = [s \in DOMAIN blueprint.services |-> NotDeployed]
  BY DEF Init, Nothing
<1>2. \A s \in DOMAIN process : InstanceSound(s)
  BY <1>1 DEF InstanceSound, NotDeployed
<1>3. AccountSound
  BY <1>1, <1>2 DEF AccountSound
<1>4. <<>> \in Seq(Asked)
  OBVIOUS
<1>5. RunSound /\ Progress /\ run.result = "none"
  BY <1>1, <1>4 DEF RunSound, Run, Stopped, Progress
<1> QED BY <1>3, <1>5 DEF IInv

\* Every step keeps the invariant.
LEMMA NextIInv == IInv /\ [Next]_vars => IInv'
<1> SUFFICES ASSUME IInv, [Next]_vars PROVE IInv'
  OBVIOUS
<1> USE DEF IInv
<1>1. ASSUME NEW mode \in {"preflight", "provision"}, StartRun(mode) PROVE IInv'
  BY <1>1, StartRunKeeps
<1>2. CASE ListAccount
  BY <1>2, ListAccountKeeps
<1>3. CASE DriftGate
  BY <1>3, AccountKept, EndsUnapplied DEF DriftGate, account, people
<1>4. CASE LinkFails
  BY <1>4, LinkFailsKeeps
<1>5. CASE LinksDone
  BY <1>5, LinksDoneKeeps
<1>6. CASE Finish
  BY <1>6, FinishKeeps
<1>7. CASE Gone
  BY <1>7, AccountKept, EndsUnapplied DEF Gone, account, people
<1>8. ASSUME NEW r, CompareGroup(r) \/ Announce(r) \/ Adopt(r) \/ Create(r) \/ Link(r) PROVE IInv'
  BY <1>8, CompareGroupKeeps, AnnounceKeeps, AdoptKeeps, CreateKeeps, LinkKeeps
<1>9. CASE Stops
  BY <1>9, StopsKeeps
<1>10. ASSUME NEW r, TypeSecrets(r) PROVE IInv'
  BY <1>10, TypeSecretsKeeps
<1>11. ASSUME NEW r, Delete(r) PROVE IInv'
  BY <1>11, DeleteSound, RunMeddled DEF Delete, Meddles
<1>12. ASSUME NEW g, Reconcile(g) PROVE IInv'
  BY <1>12, ReconcileSound, RunMeddled DEF Reconcile
<1>13. ASSUME NEW g, NEW n \in Editable, EditValue(g, n) PROVE IInv'
  BY <1>13, EditValueSound, RunMeddled DEF EditValue, Meddles
<1>14. ASSUME AccountSound', UNCHANGED <<blueprint, group, stores, service, links, run>> PROVE IInv'
  <2>1. RunSound'
    BY <1>14, RunUndisturbed
  <2> QED BY <1>14, <2>1 DEF Progress, Handled, HasStatus, Matches, Declared, Complete, Listed,
                             GroupNames, GroupsOf
<1>15. ASSUME NEW s \in DOMAIN service, Deploy(s) \/ FirstRequest(s) PROVE IInv'
  BY <1>14, <1>15, DeploySound, FirstRequestSound
<1>16. CASE UNCHANGED vars
  BY <1>14, <1>16, AccountKept DEF vars
<1>17. ASSUME NEW g, LinkMisread(g) PROVE IInv'
  BY <1>17, LinkMisreadKeeps
<1> QED BY <1>1, <1>2, <1>3, <1>4, <1>5, <1>6, <1>7, <1>8, <1>9, <1>10, <1>11, <1>12, <1>13, <1>15,
           <1>16, <1>17 DEF Next, RunStep

\* The invariant holds throughout.
THEOREM Invariance == Spec => []IInv
BY InitIInv, NextIInv, PTL DEF Spec

\* A run that says "Applied", with nobody else at the account meanwhile and no refusal taken for a
\* link, has left it complete: for any blueprint, whatever runs died before it.
THEOREM AppliedIsComplete == Spec => []AppliedMeansComplete
<1>1. IInv => AppliedMeansComplete
  BY DEF IInv, AppliedMeansComplete
<1> QED BY <1>1, Invariance, PTL

\* No instance serves with part of what was reviewed, whichever groups, links and stores the run that
\* created it left behind and whatever was deleted since.
THEOREM OnlyTheReviewedServes == Spec => []ServesWhatWasReviewed
<1>1. IInv => ServesWhatWasReviewed
  BY DEF IInv, AccountSound, InstanceSound, Reviewed, ServesWhatWasReviewed
<1> QED BY <1>1, Invariance, PTL

\* A blueprint the check accepts boots once runs have completed it and its secrets are typed in:
\* whatever blueprint that is, the parse can refuse what an instance is started with only over the
\* mail transport, a mail credential or the cron secret.
THEOREM CheckedBoots == Spec => []CheckedBlueprintBoots
<1>1. ASSUME NEW bp \in Blueprints, NEW s \in DOMAIN bp.services, CheckBlueprint(bp) = {},
             WellFormed(bp), LeftToGroups(bp, s), NEW env, Filled(bp, s, env)
      PROVE  ParseEnv(env)
               \subseteq {"MAIL_DRIVER", "MAIL_SMTP_URL", "MAIL_RESEND_API_KEY", "CRON_SECRET"}
  <2>1. SchemaIssues(env) = {}
    BY <1>1, CheckFacts, CheckedFits
  <2>2. ProductionIssues(Parsed(env)) \subseteq {"MAIL_DRIVER", "CRON_SECRET"}
    BY <1>1, CheckedIsForProduction
  <2>3. MailIssues(Parsed(env)) \subseteq {"MAIL_SMTP_URL", "MAIL_RESEND_API_KEY"}
    BY DEF MailIssues
  <2> QED BY <2>1, <2>2, <2>3 DEF ParseEnv
<1>2. ASSUME AccountSound PROVE CheckedBlueprintBoots
  <2> SUFFICES ASSUME CheckBlueprint(blueprint) = {},
                      \A g \in GroupNames : \A n \in DOMAIN Declared(g) : Fits(n, Declared(g)[n]),
                      Complete, NEW s \in DOMAIN blueprint.services,
                      LeftToGroups(blueprint, s), TypedIn(s)
               PROVE  ParseEnv(EnvOf(s))
                        \subseteq {"MAIL_DRIVER", "MAIL_SMTP_URL", "MAIL_RESEND_API_KEY", "CRON_SECRET"}
    BY DEF CheckedBlueprintBoots, LeftToGroups
  <2>1. blueprint \in Blueprints /\ WellFormed(blueprint)
    BY <1>2, DeclaredFacts DEF AccountSound, WellFormed, GroupNames
  <2>2. GroupsOf(s) \subseteq GroupNames
    BY CheckFacts DEF GroupsOf, GroupNames
  <2>3. Filled(blueprint, s, EnvOf(s))
    BY <1>2, <2>2, CompletedIsFilled
  <2> QED BY <1>1, <2>1, <2>3
<1>3. IInv => AccountSound
  BY DEF IInv
<1> QED BY <1>2, <1>3, Invariance, PTL

=============================================================================
