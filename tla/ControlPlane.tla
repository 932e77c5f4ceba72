---------------------------- MODULE ControlPlane ----------------------------
(***************************************************************************)
(* The API's webhook endpoint routes from end to end: a request's key is  *)
(* verified (MerchantAccess), then its command runs for the merchant of   *)
(* that key (WebhookEndpoints), and an error of either is answered by the *)
(* error filter (ProblemDetails).                                          *)
(***************************************************************************)
EXTENDS MerchantAccess

CONSTANTS
    Urls, Answers, Command, MaxUpsets, DevelopmentOrigins, MaxAnswers, MaxResponseBytes,
    Registered,  \* endpoints that exist at the start
    MaxDisturbances,  \* bound: incidents and upsets together
    After        \* [Requests -> the requests its client awaits first]

VARIABLES endpoint, audits, command, heard, upsets

E == INSTANCE WebhookEndpoints

\* Endpoints registered earlier have an audit record that names no request.
ASSUME ControlAssumption ==
    /\ "registration" \notin Requests
    /\ \A r \in Requests : Command[r].endpoint \in E!Endpoints
    /\ Registered \subseteq E!Endpoints
    /\ MaxUpsets \in Nat

endpointVars == <<endpoint, audits, command, heard, upsets>>
controlVars == <<accessVars, endpointVars>>

ControlInit == AccessInit /\ E!EndpointInit(Registered)

Answered(r) == command[r].at = "answered"

\* The guard looks the key up; the client has just read the endpoint's ETag.
Arrive(r) ==
    /\ \A q \in After[r] : Answered(q)
    /\ findActiveApiKeyByPrefix(r)
    /\ E!ReadEtag(r)
    /\ UNCHANGED <<endpoint, audits, heard, upsets>>

\* canActivate goes on with the credential.
Verify(r) == (verify(r) \/ verifyAndRemember(r) \/ DerivationFails(r)) /\ UNCHANGED endpointVars

Rejection(r) ==
    CASE auth[r] = "unauthorized" -> {"UnauthorizedException"}
      [] auth[r] = "forbidden" -> {"ForbiddenException"}
      [] auth[r] = "failed" -> {"Error"}
      [] OTHER -> {}

\* The guard throws: the handler never runs.
Reject(r) ==
    /\ ~Answered(r)
    /\ \E error \in Rejection(r) : E!Refuse(r, error)
    /\ UNCHANGED <<accessVars, upsets>>

\* The handler runs with the merchant and the key the guard found.
Handle(r) ==
    /\ auth[r] = "admitted"
    /\ E!Serve(r, keys[KeyOf(r)].merchant, KeyOf(r)) \/ E!Unavailable(r)
    /\ UNCHANGED accessVars

Elsewhere ==
    \/ Operate /\ UNCHANGED endpointVars
    \/ \E i \in DOMAIN cache : EntryExpires(i) /\ UNCHANGED endpointVars
    \/ \E e \in E!Endpoints : E!OverlapEnds(e) /\ UNCHANGED accessVars

ControlNext ==
    /\ \/ \E r \in Requests : Arrive(r) \/ Verify(r) \/ Reject(r) \/ Handle(r)
       \/ Elsewhere
    /\ incidents' + upsets' <= MaxDisturbances

ControlSpec == ControlInit /\ [][ControlNext]_controlVars

-----------------------------------------------------------------------------
ControlTypeOK ==
    /\ AccessTypeOK
    /\ \A e \in E!Endpoints :
          /\ endpoint[e].version \in -1..(2 * Cardinality(Requests))
          /\ endpoint[e].status \in {"absent", "active", "inactive"}
          /\ endpoint[e].subscriptions \subseteq E!Subscriptions
    /\ \A r \in Requests :
          command[r].at \in {"sent", "versionRead", "candidate", "committed", "answered"}
    /\ upsets \in 0..MaxUpsets

\* Whatever is remembered, shared, issued or retired meanwhile, a change of
\* an endpoint is made with a genuine credential of the endpoint's own
\* merchant whose key has every scope the route requires, and every refused
\* request is told so and has changed nothing (canActivate, authenticate).
AccessIsAuthorised ==
    /\ \A a \in audits : a.request \in Requests =>
          /\ CredentialOf[a.request] = [key |-> a.key, genuine |-> TRUE]
          /\ keys[a.key].merchant = a.endpoint[1]
          /\ Needs[a.request] \subseteq keys[a.key].scopes
    /\ \A r \in Requests : Answered(r) /\ command[r].reply \in 400..499 =>
          ~\E a \in audits : a.request = r

\* Every version of an endpoint has exactly one author, who had read the
\* version before it, and the audit trail tells them all; secrets are
\* numbered without a gap by the rotations, and the last one is current.
\* So neither of two clients that read the same version overwrites the other
\* (rotate encrypts for a number it read outside its transaction).
VersionsHaveOneAuthor ==
    \A e \in E!Endpoints :
        LET about == {a \in audits : a.endpoint = e}
            authors(v) == {a.request : a \in {b \in about : b.version = v}}
            secrets == endpoint[e].secrets
        IN  /\ {a.version : a \in about} = 0..endpoint[e].version
            /\ \A v \in 1..endpoint[e].version :
                  \E r \in Requests : authors(v) = {r} /\ command[r].expected = v - 1
            /\ Len(secrets) = Cardinality({a \in about : a.action \in {"created", "secret_rotated"}})
            /\ \A i \in DOMAIN secrets :
                  /\ secrets[i].version = i
                  /\ (secrets[i].life = "current") = (i = Len(secrets))
                  /\ secrets[i].life = "previous" => i = Len(secrets) - 1

\* A receiver that has heard of the newest secret, or of the one before it
\* and less than 24 hours have passed since, can verify a delivery sent now:
\* a lost answer of one rotation does not cut it off
\* (docs/adr/0015-webhook-signing-secret-encryption-and-rotation.md:76).
ReceiverCanVerify ==
    \A e \in E!Endpoints :
        LET secrets == endpoint[e].secrets IN
        \A v \in DOMAIN secrets :
            <<e, v>> \in heard /\ v >= Len(secrets) - 1 /\ secrets[v].overlap # "ended"
                => v \in E!SigningSecrets(e)
=============================================================================
