--------------------------- MODULE MCProvisioning ---------------------------
(* The two committed blueprints, and what a reviewer might have changed in them, for TLC. *)
EXTENDS Provisioning

\* What a behaviour is about: a blueprint that passes the check, applying one, or starting it.
VARIABLE watched

Config == [PUBLIC_BASE_URL |-> "https", DEFAULT_MARKET |-> "own", STORAGE_DRIVER |-> "r2",
           STORAGE_REGION |-> "other", STORAGE_BUCKET_MEDIA |-> "other",
           STORAGE_PUBLIC_BASE_URL |-> "https", MAIL_DRIVER |-> "resend",
           MAIL_FROM_ADDRESS |-> "own", MAIL_FROM_NAME |-> "other"]

Secrets == [n \in {"SESSION_SECRET", "TOTP_ENCRYPTION_KEY", "STORAGE_ENDPOINT", "STORAGE_ACCESS_KEY_ID",
                   "STORAGE_SECRET_ACCESS_KEY", "MAIL_RESEND_API_KEY", "CDN_ZONE_ID", "CDN_API_TOKEN",
                   "SENTRY_DSN", "HEALTH_CHECK_TOKEN", "TURNSTILE_SECRET_KEY"} |-> Sync]

PaidOf(config, secrets) ==
  LET app(type) == Service(type, [NODE_ENV |-> "production", DATABASE_URL |-> FromDatabase,
                                  REDIS_URL |-> FromKeyValue], <<"zfaf-config", "zfaf-secrets">>)
  IN Blueprint(
       <<"zfaf-config", "zfaf-secrets", "zfaf-postgres", "zfaf-keyvalue", "zfaf-web", "zfaf-worker">>,
       ("zfaf-config" :> config) @@ ("zfaf-secrets" :> secrets),
       ("zfaf-postgres" :> [kind |-> FromDatabase, volatile |-> FALSE])
         @@ ("zfaf-keyvalue" :> [kind |-> FromKeyValue, volatile |-> FALSE]),
       ("zfaf-web" :> app("web")) @@ ("zfaf-worker" :> app("worker")))

\* render.yaml
Paid == PaidOf(Config, Secrets)

\* infra/render/free.yaml
Free ==
  Blueprint(
    <<"zfaf-config-free", "zfaf-secrets", "zfaf-web-free">>,
    ("zfaf-config-free" :> ([MAIL_DRIVER |-> "noop", PILOT_NO_EMAIL |-> "true", STORAGE_DRIVER |-> "b2",
                            MEDIA_DISPATCH |-> "inline"] @@ Config))
      @@ ("zfaf-secrets" :> [n \in (DOMAIN Secrets \ {"MAIL_RESEND_API_KEY"}) \cup {"CRON_SECRET"} |-> Sync]),
    Nothing,
    "zfaf-web-free" :> Service("web", [NODE_ENV |-> "production", DATABASE_URL |-> Sync, REDIS_URL |-> Sync],
                               <<"zfaf-config-free", "zfaf-secrets">>))

\* A variable given one of `values`, or left out.
Given(n, values) == { n :> v : v \in values } \cup {Nothing}

Without(f, names) == Restrict(f, DOMAIN f \ names)

Variants ==
  { PaidOf(mail @@ pilot @@ storage @@ media @@ base
             @@ Without(Config, {"MAIL_DRIVER", "STORAGE_DRIVER", "PUBLIC_BASE_URL"}),
           key @@ cron @@ session @@ Without(Secrets, {"MAIL_RESEND_API_KEY", "SESSION_SECRET"})) :
      mail \in Given("MAIL_DRIVER", {"smtp", "resend", "noop"}),
      pilot \in Given("PILOT_NO_EMAIL", {"true", "other"}),
      storage \in Given("STORAGE_DRIVER", {"minio", "r2"}),
      media \in Given("MEDIA_DISPATCH", {"inline"}),
      base \in Given("PUBLIC_BASE_URL", {"http", "https"}),
      key \in Given("MAIL_RESEND_API_KEY", {Sync}),
      cron \in Given("CRON_SECRET", {Sync}),
      session \in Given("SESSION_SECRET", {Sync, "placeholder"}) }

\* The blueprints runs are dispatched with: the two, and one with a key nobody can send.
Dispatched == {Paid, Free, [Free EXCEPT !.unknown = {"scaling"}]}

MCBlueprints == Dispatched \cup Variants

MCInit ==
  /\ Init
  /\ \/ watched = "the check" /\ CheckBlueprint(blueprint) = {}
     \/ watched \in {"applying", "starting"} /\ blueprint \in Dispatched

\* Nothing starts while it is about applying, and nothing goes wrong either while it is about the
\* check; nothing is deleted and no refusal misread while it is about starting.
MCNext ==
  /\ Next
  /\ watched = "the check" => process' = process /\ budget' = budget /\ run'.mode # "preflight"
  /\ watched = "applying" => process' = process
  /\ watched = "starting" => /\ run'.mode # "preflight"
                             /\ ~\E g \in GroupNames : LinkMisread(g)
                             /\ DOMAIN group \subseteq DOMAIN group'
                             /\ stores \subseteq stores'
                             /\ DOMAIN service \subseteq DOMAIN service'
  /\ UNCHANGED watched

MCSpec == MCInit /\ [][MCNext]_<<vars, watched>> /\ Fairness

=============================================================================
