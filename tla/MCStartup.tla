------------------------------ MODULE MCStartup ------------------------------
(* Environments that start, each of them with one variable changed to every    *)
(* class of value it has, and all combinations of variables that belong        *)
(* together.                                                                   *)
EXTENDS Startup, TLC

Classes ==
    ("APP_ENV" :> {"unset", "production"})
    @@ ("LOG_LEVEL" :> {"unset", "DEBUG", "invalid"})
    @@ ("LOG_FORMAT" :> {"unset", "blank", "json", "text", "invalid"})
    @@ ("COOKIE_SECURE" :> {"unset", "true", "false", "invalid"})
    @@ ("COOKIE_DOMAIN" :> {"unset", "blank", "valid", "leading dot", "invalid"})
    @@ ("CORS_ALLOWED_ORIGINS" :> {"unset", "blank", "listed"})
    @@ [v \in {"CANDLES_CACHE_TTL", "TRUSTED_PROXY_HOPS", "INGEST_TIMEOUT_HOURS",
               "LOGO_INGEST_TIMEOUT_HOURS"} \union DbNumbers
          |-> {"unset", "positive", "zero", "invalid"}]
    @@ [v \in {"INGEST_MAX_FAILURE_RATE", "LOGO_INGEST_MAX_FAILURE_RATE"}
          |-> {"unset", "rate", "invalid"}]
    @@ [v \in {"JWT_SECRET", "PASSWORD_PEPPER"} |-> {"unset", "short", "long"}]
    @@ [v \in {"GOOGLE", "GITHUB"} |-> {"unset", "no secret", "no redirect", "complete"}]
    @@ ("OAUTH_FRONTEND_REDIRECT_URL" :> {"unset", "set"})
    @@ [v \in {"DB_USER", "DB_NAME", "DB_HOST", "DB_PORT", "INSTANCE_CONNECTION_NAME"}
          |-> {"unset", "blank", "set"}]
    @@ ("DB_IP_TYPE" :> {"unset", "PUBLIC", "PRIVATE", "invalid"})
    @@ ("DSN" :> {"parses", "invalid"})

Local ==
    [v \in DOMAIN Classes |->
        CASE v \in {"JWT_SECRET", "PASSWORD_PEPPER"} -> "long"
          [] v \in {"DB_USER", "DB_NAME", "DB_HOST", "DB_PORT"} -> "set"
          [] v = "DSN" -> "parses"
          [] OTHER -> "unset"]

Cloud ==
    [Local EXCEPT !["APP_ENV"] = "production", !["INSTANCE_CONNECTION_NAME"] = "set",
                  !["DB_HOST"] = "unset", !["DB_PORT"] = "unset", !["GOOGLE"] = "complete",
                  !["OAUTH_FRONTEND_REDIRECT_URL"] = "set", !["DB_IP_TYPE"] = "PRIVATE",
                  !["TRUSTED_PROXY_HOPS"] = "positive"]

Starting == {Local, Cloud, [Local EXCEPT !["INSTANCE_CONNECTION_NAME"] = "blank"]}

\* Variables that are read together.
Group == {{"GOOGLE", "GITHUB", "OAUTH_FRONTEND_REDIRECT_URL"},
          {"INSTANCE_CONNECTION_NAME", "DB_HOST", "DB_PORT", "DB_IP_TYPE"},
          {"APP_ENV", "COOKIE_SECURE", "COOKIE_DOMAIN"}}

Assignments(g) ==
    {f \in [g -> UNION {Classes[v] : v \in g}] : \A v \in g : f[v] \in Classes[v]}

MCEnvironment ==
    UNION {{[e EXCEPT ![v] = c] : c \in Classes[v]} : e \in Starting, v \in DOMAIN Classes}
    \union UNION {{f @@ Local : f \in Assignments(g)} : g \in Group}
=============================================================================
