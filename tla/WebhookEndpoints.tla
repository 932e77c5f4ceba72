-------------------------- MODULE WebhookEndpoints --------------------------
(***************************************************************************)
(* A merchant's webhook endpoints: requests register them, change their   *)
(* status and subscriptions and rotate their signing secrets, each change *)
(* conditional on the version its client last saw (If-Match) and recorded *)
(* by an audit record.  A secret is shown once, in the response of the    *)
(* request that made it, and the one before it stays valid for an overlap.*)
(*                                                                         *)
(* An endpoint is named by its owner and its normalized URL.  Actions     *)
(* take the merchant and the key of the authenticated request.            *)
(***************************************************************************)
EXTENDS Integers, Sequences, FiniteSets, WebhookHttp, ProblemDetails

CONSTANTS
    Requests,
    Merchants, Urls,
    Answers,       \* [Urls -> what the URL is and what its host resolves to]
    Command,       \* [Requests -> [kind, endpoint, ifMatch, status, subscriptions]]
    MaxUpsets      \* bound: unavailable dependencies, lost answers, ended overlaps

Endpoints == Merchants \X Urls
Subscriptions == {"payment.created.v1", "payment.captured.v1"}

VARIABLES
    endpoint,   \* [Endpoints -> [version, status, subscriptions, secrets]]
    audits,     \* audit_events about endpoints
    command,    \* [Requests -> [at, expected, secretVersion, reply, etag]]
    heard,      \* the <<endpoint, secret version>> the merchant was shown
    upsets

endpointVars == <<endpoint, audits, command, heard, upsets>>

Absent == [version |-> -1, status |-> "absent", subscriptions |-> {}, secrets |-> <<>>]

Exists(e) == endpoint[e].version >= 0

EndpointInit(registered) ==
    /\ endpoint = [e \in Endpoints |->
           IF e \in registered
           THEN [version |-> 0, status |-> "active", subscriptions |-> Subscriptions,
                 secrets |-> <<[version |-> 1, life |-> "current", overlap |-> "none"]>>]
           ELSE Absent]
    /\ audits = {[request |-> "registration", key |-> 0, action |-> "created",
                  endpoint |-> e, version |-> 0] : e \in registered}
    /\ command = [r \in Requests |-> [at |-> "sent", expected |-> -1, secretVersion |-> 0,
                                      reply |-> 0, etag |-> -1]]
    /\ heard = {<<e, 1>> : e \in registered}
    /\ upsets = 0

Upset == upsets < MaxUpsets /\ upsets' = upsets + 1

Named(r) == Command[r].endpoint

\* The client sends the ETag it has just read, or one of its own making when
\* there is nothing to read.
ReadEtag(r) == command' = [command EXCEPT ![r].expected = endpoint[Named(r)].version]

-----------------------------------------------------------------------------
(* Checks made before anything is read or written. *)

parseSubscriptions(subscriptions) ==
    IF subscriptions = {} THEN "InvalidWebhookEndpointRequestError"
    ELSE IF ~(subscriptions \subseteq Subscriptions) THEN "UnsupportedWebhookEventError"
    ELSE "none"

\* status and subscriptions are optional: sets of at most one value.
parsePatchWebhookEndpoint(c) ==
    IF c.status = {} /\ c.subscriptions = {} THEN "InvalidWebhookEndpointRequestError"
    ELSE IF c.subscriptions = {} THEN "none"
    ELSE parseSubscriptions(CHOOSE s \in c.subscriptions : TRUE)

parseWebhookIfMatch(c) ==
    CASE c.ifMatch = "missing" -> "WebhookEndpointPreconditionRequiredError"
      [] c.ifMatch = "malformed" -> "InvalidWebhookEndpointRequestError"
      [] OTHER -> "none"

FirstOf(p, q) == IF p # "none" THEN p ELSE q

Refusal(r) ==
    LET c == Command[r] IN
    CASE c.kind = "create" -> FirstOf(parseSubscriptions(CHOOSE s \in c.subscriptions : TRUE),
                                      normalizeAndValidate(Answers[Named(r)[2]]))
      [] c.kind = "patch"  -> FirstOf(parseWebhookIfMatch(c), parsePatchWebhookEndpoint(c))
      [] c.kind = "rotate" -> parseWebhookIfMatch(c)
      [] OTHER -> "none"

\* The error filter answers for the handler.
Refuse(r, error) ==
    /\ command' = [command EXCEPT ![r].at = "answered", ![r].reply = descriptor[error]]
    /\ UNCHANGED <<endpoint, audits, heard>>

Invalid(r) ==
    /\ command[r].at = "sent"
    /\ Refusal(r) # "none"
    /\ Refuse(r, Refusal(r))
    /\ UNCHANGED upsets

\* A dependency fails before the command commits anything.
Unavailable(r) ==
    /\ command[r].at \in {"sent", "versionRead", "candidate"}
    /\ Upset
    /\ Refuse(r, "DatabaseUnavailableError")

\* The transaction committed; its answer, or its acknowledgement, may be lost.
Committed(r, status, version) ==
    \/ /\ command' = [command EXCEPT ![r].at = "committed", ![r].reply = status,
                                     ![r].etag = version]
       /\ UNCHANGED upsets
    \/ /\ Upset
       /\ command' = [command EXCEPT ![r].at = "answered",
                                     ![r].reply = descriptor["DatabaseUnavailableError"]]

Audit(r, k, actions, version) ==
    audits' = audits \cup {[request |-> r, key |-> k, action |-> a,
                            endpoint |-> Named(r), version |-> version] : a \in actions}

Valid(r, kind) == Command[r].kind = kind /\ Refusal(r) = "none"

-----------------------------------------------------------------------------
(* The operations. *)

\* create: the unique index on merchant and URL decides between two.
Register(r, m, k) ==
    LET e == Named(r) IN
    /\ command[r].at = "sent" /\ Valid(r, "create") /\ e[1] = m
    /\ \/ /\ Exists(e)
          /\ Refuse(r, "WebhookEndpointUrlConflictError")
          /\ UNCHANGED upsets
       \/ /\ ~Exists(e)
          /\ endpoint' = [endpoint EXCEPT ![e] =
                 [version |-> 0, status |-> "active",
                  subscriptions |-> CHOOSE s \in Command[r].subscriptions : TRUE,
                  secrets |-> <<[version |-> 1, life |-> "current", overlap |-> "none"]>>]]
          /\ Audit(r, k, {"created"}, 0)
          /\ Committed(r, 201, 0)
          /\ UNCHANGED heard

\* Another merchant's endpoint is not found.
Visible(r, m) == Exists(Named(r)) /\ Named(r)[1] = m

NotFound(r, m) ==
    /\ command[r].at = "sent" /\ Refusal(r) = "none"
    /\ Command[r].kind # "create" /\ ~Visible(r, m)
    /\ Refuse(r, "WebhookEndpointNotFoundError")
    /\ UNCHANGED upsets

Get(r, m) ==
    /\ command[r].at = "sent" /\ Valid(r, "get") /\ Visible(r, m)
    /\ command' = [command EXCEPT ![r].at = "answered", ![r].reply = 200,
                                  ![r].etag = endpoint[Named(r)].version]
    /\ UNCHANGED <<endpoint, audits, heard, upsets>>

\* Mistake: the version is compared before the row is locked, not after.
UncheckedVersion(r) == TRUE

MatchesVersion(r) == endpoint[Named(r)].version = command[r].expected

Chosen(option, otherwise) == IF option = {} THEN otherwise ELSE CHOOSE x \in option : TRUE

\* patch locks the row, compares the version and changes what differs.
Patch(r, m, k) ==
    LET current == endpoint[Named(r)]
        status == Chosen(Command[r].status, current.status)
        subscriptions == Chosen(Command[r].subscriptions, current.subscriptions)
        changes == (IF status # current.status THEN {"status_changed"} ELSE {}) \cup
                   (IF subscriptions # current.subscriptions THEN {"subscriptions_changed"} ELSE {})
        version == IF changes = {} THEN current.version ELSE current.version + 1
    IN  /\ command[r].at = "sent" /\ Valid(r, "patch") /\ Visible(r, m)
        /\ \/ /\ ~MatchesVersion(r)
              /\ Refuse(r, "WebhookEndpointPreconditionFailedError") /\ UNCHANGED upsets
           \/ /\ MatchesVersion(r)
              /\ endpoint' = [endpoint EXCEPT
                     ![Named(r)] = [@ EXCEPT !.version = version, !.status = status,
                                             !.subscriptions = subscriptions]]
              /\ Audit(r, k, changes, version)
              /\ Committed(r, 200, version)
              /\ UNCHANGED heard

\* findRotationContext reads the version, then the latest secret version.
RotationReadsVersion(r, m) ==
    /\ command[r].at = "sent" /\ Valid(r, "rotate")
    /\ Visible(r, m)
    /\ \/ /\ ~MatchesVersion(r)
          /\ Refuse(r, "WebhookEndpointPreconditionFailedError")
       \/ /\ MatchesVersion(r)
          /\ command' = [command EXCEPT ![r].at = "versionRead"]
          /\ UNCHANGED <<endpoint, audits, heard>>
    /\ UNCHANGED upsets

RotationReadsSecretVersion(r) ==
    /\ command[r].at = "versionRead"
    /\ command' = [command EXCEPT ![r].at = "candidate",
                                  ![r].secretVersion = Len(endpoint[Named(r)].secrets) + 1]
    /\ UNCHANGED <<endpoint, audits, heard, upsets>>

\* Mistake: the current secret is retired at once.
WithoutOverlap(secrets, version) ==
    Append([i \in DOMAIN secrets |-> [secrets[i] EXCEPT !.life = "retired"]],
           [version |-> version, life |-> "current", overlap |-> "none"])

rotateSecret(secrets, version) ==
    Append([i \in DOMAIN secrets |->
               IF secrets[i].life = "current"
               THEN [secrets[i] EXCEPT !.life = "previous", !.overlap = "open"]
               ELSE [secrets[i] EXCEPT !.life = "retired"]],
           [version |-> version, life |-> "current", overlap |-> "none"])

\* The unique index on endpoint and secret version.
IsNewVersion(r) ==
    \A i \in DOMAIN endpoint[Named(r)].secrets :
        endpoint[Named(r)].secrets[i].version # command[r].secretVersion

\* rotate's transaction: the version is compared again under the row's lock.
Rotate(r, k) ==
    LET current == endpoint[Named(r)] IN
    /\ command[r].at = "candidate"
    /\ \/ /\ ~MatchesVersion(r) \/ ~IsNewVersion(r)
          /\ Refuse(r, IF MatchesVersion(r) THEN "Error"
                       ELSE "WebhookEndpointPreconditionFailedError")
          /\ UNCHANGED upsets
       \/ /\ MatchesVersion(r) /\ IsNewVersion(r)
          /\ endpoint' = [endpoint EXCEPT
                 ![Named(r)].version = current.version + 1,
                 ![Named(r)].secrets = rotateSecret(current.secrets, command[r].secretVersion)]
          /\ Audit(r, k, {"secret_rotated"}, current.version + 1)
          /\ Committed(r, 200, current.version + 1)
          /\ UNCHANGED heard

Shown(r) ==
    CASE Command[r].kind = "create" -> {<<Named(r), 1>>}
      [] Command[r].kind = "rotate" -> {<<Named(r), command[r].secretVersion>>}
      [] OTHER -> {}

\* The answer reaches the merchant, with the secret it shows, or is lost.
Hear(r) ==
    /\ command[r].at = "committed"
    /\ command' = [command EXCEPT ![r].at = "answered"]
    /\ \/ heard' = heard \cup Shown(r) /\ UNCHANGED upsets
       \/ Shown(r) # {} /\ Upset /\ UNCHANGED heard
    /\ UNCHANGED <<endpoint, audits>>

\* The 24 hours of a previous secret pass.
OverlapEnds(e) ==
    /\ \E i \in DOMAIN endpoint[e].secrets :
          /\ endpoint[e].secrets[i].life = "previous" /\ endpoint[e].secrets[i].overlap = "open"
          /\ endpoint' = [endpoint EXCEPT ![e].secrets[i].overlap = "ended"]
    /\ Upset
    /\ UNCHANGED <<audits, command, heard>>

\* The secrets a delivery is signed with.
SigningSecrets(e) ==
    {i \in DOMAIN endpoint[e].secrets :
        \/ endpoint[e].secrets[i].life = "current"
        \/ endpoint[e].secrets[i].life = "previous" /\ endpoint[e].secrets[i].overlap = "open"}

Serve(r, m, k) ==
    \/ Invalid(r) \/ NotFound(r, m)
    \/ Register(r, m, k) \/ Get(r, m) \/ Patch(r, m, k)
    \/ RotationReadsVersion(r, m) \/ RotationReadsSecretVersion(r) \/ Rotate(r, k)
    \/ Hear(r)
=============================================================================
