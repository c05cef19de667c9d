------------------------------- MODULE Routes -------------------------------
(***************************************************************************)
(* The application's route table (src/main.py and the routers it includes) *)
(* and what becomes of a client's submission.  The framework (external)    *)
(* tries routes in the order of their registration: include_router         *)
(* registers at once, @app.post where the function is defined, after the   *)
(* include_router calls.  The first route whose path and method match      *)
(* takes the request; a body that does not have the fields its handler     *)
(* declares is answered 422.                                               *)
(***************************************************************************)
EXTENDS Sequences, FiniteSetsExt

CONSTANT Clients      \* clients that submit alerts

\* The two request bodies that declare an alert, by their required fields.
Body == {"AlertPayload", "ComposePayload", "other"}

Route(method, path, handler, body) ==
  [method |-> method, path |-> path, handler |-> handler, body |-> body]

\* Registration order; routes below /admin and /metrics, which share no path
\* with the others, are left out.
RouteTable == <<
  Route("POST",   "/webhooks",              "register_webhook",   "other"),
  Route("DELETE", "/webhooks/*",            "deregister_webhook", "other"),
  Route("GET",    "/webhooks/stats",        "webhook_stats",      "other"),
  Route("GET",    "/api/v1/alerts",         "list_alerts",        "other"),
  Route("GET",    "/api/v1/alerts/*",       "get_alert",          "other"),
  Route("GET",    "/api/v1/alerts/feeds/status", "feed_status",   "other"),
  Route("POST",   "/api/v1/compose/preview", "preview",           "ComposePayload"),
  Route("POST",   "/api/v1/compose",        "submit",             "ComposePayload"),
  Route("POST",   "/api/v1/compose",        "compose_cap",        "AlertPayload"),
  Route("POST",   "/api/mesh/broadcast",    "mesh_broadcast",     "other"),
  Route("GET",    "/api/v1/health",         "health",             "other"),
  Route("GET",    "/api/v1/router/stats",   "router_stats",       "other") >>

\* A request for a path below /webhooks or /alerts names it as the table does.
Taken(request) ==
  {i \in DOMAIN RouteTable : /\ RouteTable[i].method = request.method
                             /\ RouteTable[i].path = request.path}

\* The handler that runs, and the ones that could.
Handler(request) ==
  IF Taken(request) = {} THEN "404"
  ELSE LET route == RouteTable[Min(Taken(request))] IN
       IF route.body \in {"other", request.body} THEN route.handler ELSE "422"

\* The composer page and the simulator submit the fields of AlertPayload, a
\* client of the compose API those of ComposePayload.
Submission == {[method |-> "POST", path |-> path, body |-> body] :
                 path \in {"/api/v1/compose", "/api/v1/compose/preview"},
                 body \in {"AlertPayload", "ComposePayload"}}

VARIABLES sent,      \* the submission of each client under way
          handled    \* who handled each client's last one
vars == <<sent, handled>>

None == [method |-> "", path |-> "", body |-> ""]

Init == sent = [c \in Clients |-> None] /\ handled = [c \in Clients |-> "none"]

Submit(c) ==
  /\ sent[c] = None
  /\ \E request \in Submission : sent' = [sent EXCEPT ![c] = request]
  /\ handled' = [handled EXCEPT ![c] = "none"]

Handle(c) ==
  /\ sent[c] # None
  /\ handled' = [handled EXCEPT ![c] = Handler(sent[c])]
  /\ sent' = [sent EXCEPT ![c] = None]

Next == \E c \in Clients : Submit(c) \/ Handle(c)

Spec == Init /\ [][Next]_vars

\* What the composer page says of the alert it posts (frontend/src/Composer.js:
\* 70-73): it is validated, deduplicated, audited and forwarded to IPAWS-OPEN,
\* which is what compose_cap does (src/main.py:140-142).
ComposedAlertsReachThePipeline ==
  [][\A c \in Clients :
       /\ sent[c].path = "/api/v1/compose" /\ sent[c].body = "AlertPayload"
       /\ sent'[c] = None
       => handled'[c] = "compose_cap"]_vars

=============================================================================
