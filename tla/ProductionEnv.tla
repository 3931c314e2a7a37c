--------------------------- MODULE ProductionEnv ---------------------------
(***************************************************************************)
(* The environment of a process (packages/config/src/env.ts), the          *)
(* blueprints it is deployed from (render.yaml, infra/render/free.yaml)    *)
(* and the check that compares the two (scripts/check-production-env.mjs). *)
(* Pure.                                                                   *)
(*                                                                         *)
(* A value is the literal the blueprint gives, or what the rules tell      *)
(* apart: "own", a well-formed value no other variable has, "shared", one  *)
(* that another has too, "placeholder", "short", "http", "https",          *)
(* "undefined" (the string), "malformed" for the empty text, "other" for   *)
(* any further one.                                                        *)
(***************************************************************************)
EXTENDS SequencesExt, Integers

(* ------------------------------- EnvSchema ----------------------------- *)

Required ==
  {"PUBLIC_BASE_URL", "DATABASE_URL", "REDIS_URL", "SESSION_SECRET", "TOTP_ENCRYPTION_KEY",
   "STORAGE_ENDPOINT", "STORAGE_BUCKET_MEDIA", "STORAGE_ACCESS_KEY_ID",
   "STORAGE_SECRET_ACCESS_KEY", "STORAGE_PUBLIC_BASE_URL", "MAIL_FROM_ADDRESS", "DEFAULT_MARKET"}

Defaults ==
  [NODE_ENV |-> "development", STORAGE_DRIVER |-> "minio", STORAGE_REGION |-> "auto",
   MEDIA_DISPATCH |-> "queue", MAIL_DRIVER |-> "smtp", MAIL_FROM_NAME |-> "Zfaf"]

Optional ==
  {"CRON_SECRET", "PILOT_NO_EMAIL", "MAIL_SMTP_URL", "MAIL_RESEND_API_KEY", "MAIL_RESEND_ENDPOINT",
   "CDN_ZONE_ID", "CDN_API_TOKEN", "SENTRY_DSN", "HEALTH_CHECK_TOKEN", "TURNSTILE_SECRET_KEY",
   "GOOGLE_OAUTH_CLIENT_ID", "GOOGLE_OAUTH_CLIENT_SECRET"}

SchemaNames == Required \cup DOMAIN Defaults \cup Optional

Urls == {"PUBLIC_BASE_URL", "DATABASE_URL", "REDIS_URL", "STORAGE_ENDPOINT", "STORAGE_PUBLIC_BASE_URL",
         "MAIL_SMTP_URL", "MAIL_RESEND_ENDPOINT", "SENTRY_DSN"}

Enums == [NODE_ENV |-> {"development", "test", "production"},
          STORAGE_DRIVER |-> {"minio", "r2", "s3", "b2"},
          MEDIA_DISPATCH |-> {"queue", "inline"},
          MAIL_DRIVER |-> {"smtp", "resend", "noop"}]

\* Whether a field's own rule takes value v.
Fits(n, v) ==
  CASE n \in DOMAIN Enums -> v \in Enums[n]
    [] n \in Urls -> v \in {"own", "shared", "http", "https"}
    [] n \in {"SESSION_SECRET", "TOTP_ENCRYPTION_KEY", "CRON_SECRET", "HEALTH_CHECK_TOKEN"} ->
         v \notin {"short", "undefined", "malformed"}
    [] n \in {"MAIL_FROM_ADDRESS", "DEFAULT_MARKET"} -> v \in {"own", "shared"}
    [] OTHER -> v # "malformed"

\* EnvSchema.safeParse: what is missing, and what has a value its rule refuses.
SchemaIssues(source) ==
  (Required \ DOMAIN source) \cup { n \in DOMAIN source \cap SchemaNames : ~Fits(n, source[n]) }

\* The parsed environment: the source where it speaks, the defaults elsewhere.
Parsed(source) ==
  [n \in (DOMAIN source \cap SchemaNames) \cup DOMAIN Defaults |->
     IF n \in DOMAIN source THEN source[n] ELSE Defaults[n]]

Has(env, n) == n \in DOMAIN env

Is(env, n, v) == Has(env, n) /\ env[n] = v

\* The rules across fields that hold everywhere.
MailIssues(env) ==
  { n \in {"MAIL_SMTP_URL", "MAIL_RESEND_API_KEY"} :
      /\ ~Has(env, n)
      /\ Is(env, "MAIL_DRIVER", IF n = "MAIL_SMTP_URL" THEN "smtp" ELSE "resend") }

\* What production refuses besides.
ProductionIssues(env) ==
  { n \in DOMAIN env \cup {"CRON_SECRET"} :
      \/ n \in {"SESSION_SECRET", "TOTP_ENCRYPTION_KEY"} /\ Is(env, n, "placeholder")
      \/ n = "TOTP_ENCRYPTION_KEY" /\ Is(env, n, "shared") /\ Is(env, "SESSION_SECRET", "shared")
      \/ n = "PUBLIC_BASE_URL" /\ Is(env, n, "http")
      \/ n = "STORAGE_DRIVER" /\ Is(env, n, "minio")
      \/ n = "CRON_SECRET" /\ Is(env, "MEDIA_DISPATCH", "inline") /\ ~Has(env, n)
      \/ n = "MAIL_DRIVER" /\ Is(env, n, "noop") /\ ~Is(env, "PILOT_NO_EMAIL", "true")
      \/ n = "MAIL_DRIVER" /\ Is(env, n, "smtp") }

\* parseEnv: the variables it throws over, none when it returns.
ParseEnv(source) ==
  LET env == Parsed(source) IN
  IF SchemaIssues(source) # {} THEN SchemaIssues(source)
  ELSE IF MailIssues(env) # {} THEN MailIssues(env)
  ELSE IF env.NODE_ENV = "production" THEN ProductionIssues(env) ELSE {}

(* ------------------------------ blueprints ----------------------------- *)

\* A variable left to the dashboard, and one that takes another resource's address.
Sync == "sync: false"
FromDatabase == "fromDatabase"
FromKeyValue == "fromService"

\* The keys of a group or a service that carry a value in the file.
Literals(vars) == { n \in DOMAIN vars : vars[n] \notin {Sync, FromDatabase, FromKeyValue} }

\* A blueprint: the variables of its groups, its databases and key-value stores, and the
\* services that run the application; `order` is how the provisioner goes through them, and
\* `unknown` the keys it declares that the provisioner cannot send.
Blueprint(order, vars, stores, services) ==
  [order |-> order, vars |-> vars, stores |-> stores, services |-> services, unknown |-> {}]

Service(type, vars, groups) ==
  [type |-> type, vars |-> vars, groups |-> groups, branchExists |-> TRUE, autoDeploy |-> FALSE,
   dockerfileExists |-> TRUE, health |-> "shallow"]

\* What the images set themselves.
Image == [NODE_ENV |-> "production"]

\* What f says, and what g says besides.
Over(f, g) == [n \in DOMAIN f \cup DOMAIN g |-> IF n \in DOMAIN f THEN f[n] ELSE g[n]]

Union(functions) ==
  [n \in UNION { DOMAIN f : f \in functions } |->
     (CHOOSE f \in functions : n \in DOMAIN f)[n]]

(* --------------------------- checkBlueprint ---------------------------- *)

\* variablesFor: what reaches a service, a group's entry before its own.
VariablesFor(bp, s) ==
  Over(Union({ bp.vars[g] : g \in Range(bp.services[s].groups) \cap DOMAIN bp.vars }),
       bp.services[s].vars)

\* Seeded fault: the storage driver may be left to its default.
MustBeExplicit_MailOnly == {"MAIL_DRIVER"}

MustBeExplicit == {"STORAGE_DRIVER", "MAIL_DRIVER"}

NeverLiteral ==
  {"SESSION_SECRET", "TOTP_ENCRYPTION_KEY", "STORAGE_ENDPOINT", "STORAGE_ACCESS_KEY_ID",
   "STORAGE_SECRET_ACCESS_KEY", "MAIL_SMTP_URL", "MAIL_RESEND_API_KEY", "CDN_ZONE_ID",
   "CDN_API_TOKEN", "SENTRY_DSN", "HEALTH_CHECK_TOKEN", "TURNSTILE_SECRET_KEY",
   "GOOGLE_OAUTH_CLIENT_SECRET", "DATABASE_URL", "REDIS_URL"}

\* What is wrong with the variables of one service.
ServiceProblems(bp, s) ==
  LET wired == VariablesFor(bp, s) IN
  UNION { (Required \cup MustBeExplicit) \ DOMAIN wired,
          DOMAIN wired \ SchemaNames,
          NeverLiteral \cap Literals(wired),
          Range(bp.services[s].groups) \ DOMAIN bp.vars }

\* Of several resources the check looks at the one that is declared first.
IsFirst(bp, r, among) ==
  \E k \in DOMAIN bp.order :
    bp.order[k] = r /\ \A j \in DOMAIN bp.order : bp.order[j] \in among => j >= k

WebServices(bp) == { s \in DOMAIN bp.services : bp.services[s].type = "web" }

KeyValueStores(bp) == { r \in DOMAIN bp.stores : bp.stores[r].kind = FromKeyValue }

\* What is wrong with how it is built and put into rotation.
DeployProblems(bp, s) ==
  LET service == bp.services[s] IN
  { p \in {"branch", "autoDeploy", "dockerfilePath", "healthCheckPath"} :
      \/ p = "branch" /\ ~service.branchExists
      \/ p = "autoDeploy" /\ service.autoDeploy
      \/ p = "dockerfilePath" /\ ~service.dockerfileExists
      \/ /\ p = "healthCheckPath" /\ service.health # "shallow"
         /\ s \in WebServices(bp) /\ IsFirst(bp, s, WebServices(bp)) }

\* The first key-value store evicts keys; a database is on the plan that expires.
StoreProblems(bp) ==
  { r \in DOMAIN bp.stores :
      /\ bp.stores[r].volatile
      /\ r \in KeyValueStores(bp) => IsFirst(bp, r, KeyValueStores(bp)) }

\* The values a reviewer can check by reading them: of the groups, not of the services.
ConfiguredProblems(bp) ==
  LET configured == Union({ bp.vars[g] : g \in DOMAIN bp.vars }) IN
  { n \in {"MAIL_DRIVER", "STORAGE_DRIVER", "PUBLIC_BASE_URL", "STORAGE_PUBLIC_BASE_URL"} :
      \/ n = "MAIL_DRIVER" /\ Is(configured, n, "noop") /\ ~Is(configured, "PILOT_NO_EMAIL", "true")
      \/ n = "STORAGE_DRIVER" /\ Is(configured, n, "minio")
      \/ /\ n \in {"PUBLIC_BASE_URL", "STORAGE_PUBLIC_BASE_URL"}
         /\ n \in Literals(configured) /\ configured[n] # "https" }

\* checkBlueprint, over every web and worker service.
CheckBlueprint(bp) ==
  (UNION { ServiceProblems(bp, s) \cup DeployProblems(bp, s) : s \in DOMAIN bp.services })
    \cup ConfiguredProblems(bp)
    \cup StoreProblems(bp)
    \cup (IF DOMAIN bp.services = {} THEN {"services"} ELSE {})

=============================================================================
