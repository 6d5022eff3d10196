-------------------------- MODULE MCRequestPipeline --------------------------
(* One request of every kind, on both sides of every check and limit, beside  *)
(* one that competes with it; and three requests that share an address, a     *)
(* user or an account.                                                        *)
EXTENDS RequestPipeline

CONSTANTS r1, r2, r3

Plain(route) ==
    [route |-> route, peer |-> "c1", probe |-> FALSE, forged |-> <<>>,
     cookie |-> "none", bearer |-> "none", refreshCookie |-> FALSE, csrf |-> FALSE,
     user |-> "u1", email |-> <<"a1", 1>>, body |-> 1, image |-> 0,
     chunked |-> FALSE, wellformed |-> TRUE, name |-> TRUE,
     traceparent |-> FALSE, cloudTrace |-> FALSE, panics |-> FALSE]

Authorised(route) == [Plain(route) EXCEPT !.bearer = "valid"]
Browser(route) == [Plain(route) EXCEPT !.cookie = "valid", !.csrf = TRUE, !.refreshCookie = TRUE]
Detect(body, image) == [Authorised("detect") EXCEPT !.body = body, !.image = image]
From(i, peer, forged) == [i EXCEPT !.peer = peer, !.forged = forged]

Anonymous ==
    {Plain(route) : route \in {"signup", "begin", "callback", "refresh", "logout", "read",
                               "write", "unknown"}}
    \union {[Plain("preflight") EXCEPT !.traceparent = TRUE, !.cloudTrace = TRUE],
            [Plain("healthz") EXCEPT !.probe = TRUE, !.cloudTrace = TRUE],
            [Plain("healthz") EXCEPT !.probe = TRUE, !.forged = <<"not an address">>],
            [Plain("signup") EXCEPT !.body = 2], [Plain("signup") EXCEPT !.wellformed = FALSE],
            [Plain("login") EXCEPT !.body = 2, !.chunked = TRUE],
            From(Plain("login"), "c1", <<"c2">>)}

SignedIn ==
    {Authorised("write"), Browser("write"), Browser("refresh"), Browser("logout"),
     [Browser("write") EXCEPT !.csrf = FALSE], [Browser("refresh") EXCEPT !.csrf = FALSE],
     [Browser("logout") EXCEPT !.csrf = FALSE, !.cookie = "none"],
     [Browser("read") EXCEPT !.csrf = FALSE, !.cookie = "revoked", !.bearer = "valid"],
     [Authorised("read") EXCEPT !.bearer = "invalid"]}

Costly ==
    {Detect(2, 1), Detect(4, 3), Detect(5, 4), Detect(6, 5), Detect(1, 0),
     [Detect(1, 0) EXCEPT !.wellformed = FALSE], [Detect(2, 1) EXCEPT !.cookie = "valid"],
     [Detect(2, 1) EXCEPT !.panics = TRUE],
     Browser("analyze"), [Authorised("analyze") EXCEPT !.body = 2, !.chunked = TRUE],
     [Authorised("analyze") EXCEPT !.body = 2], [Authorised("analyze") EXCEPT !.wellformed = FALSE],
     [Authorised("analyze") EXCEPT !.name = FALSE]}

Beside(i) ==
    IF i.route \in {"detect", "analyze"} THEN Detect(2, 1)
    ELSE IF ByIPRoute(i.route) THEN Plain(i.route) ELSE Authorised("analyze")

Login(peer, forged, spelling) ==
    [From(Plain("login"), peer, forged) EXCEPT !.email = <<"a1", spelling>>]

MCScenarios ==
    {r1 :> i @@ r2 :> Beside(i) @@ r3 :> Plain("none") :
        i \in Anonymous \union SignedIn \union Costly}
    \union
    {r1 :> From(Plain("signup"), "c1", <<"c2", "">>) @@ r2 :> From(Plain("signup"), "c1", <<"c3">>)
        @@ r3 :> From(Plain("signup"), peer, <<>>) : peer \in {"c1", "c2"}}
    \union
    {r1 :> Login("c1", <<>>, 1) @@ r2 :> Login("c2", <<"c1">>, 2) @@ r3 :> Plain("none"),
     r1 :> Login("c1", <<>>, 1) @@ r2 :> [Login("c1", <<>>, 2) EXCEPT !.panics = TRUE]
        @@ r3 :> Plain("none"),
     r1 :> Plain("refresh") @@ r2 :> Browser("refresh") @@ r3 :> Plain("none"),
     r1 :> Detect(2, 1) @@ r2 :> Detect(6, 5) @@ r3 :> [Detect(2, 1) EXCEPT !.user = "u2"]}

MCKey ==
    {"signup", "login", "refresh", "begin", "callback"} \X {"c1", "c2", "c3", "lb"}
    \union {"detect", "analyze"} \X {"u1", "u2"} \union {<<"email", "a1">>}

\* All answers of up to three logos over two names and two confidences.
MCAnnotations ==
    LET logo == [name : {"A", "B"}, confidence : {1, 2}]
    IN  {<<>>} \union UNION {[1 .. n -> logo] : n \in 1 .. 3}
=============================================================================
