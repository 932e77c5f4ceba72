--------------------------- MODULE MerchantAccess ---------------------------
(***************************************************************************)
(* API keys of merchants and the authentication of requests by one API    *)
(* process: each request looks its key up in the database and verifies    *)
(* the credential against the stored hash, which is slow to derive; the   *)
(* process remembers verified credentials and shares a derivation between *)
(* the requests that wait for the same one.  Operators issue, disable,    *)
(* revoke and rotate keys meanwhile.                                      *)
(*                                                                         *)
(* A credential is [key, genuine]: its public prefix names the key, its   *)
(* secret is the key's own or not.  Keys are numbered as they are issued. *)
(***************************************************************************)
EXTENDS Integers, Sequences, FiniteSets

CONSTANTS
    Merchants,
    Requests,
    CredentialOf,  \* [Requests -> credentials]
    Needs,         \* [Requests -> the scopes the handler requires]
    Grants,        \* [key number -> the scopes it is issued with]
    Recipient,     \* [key number -> the merchant it is issued to]
    FirstKeys,     \* keys that exist at the start: 1..FirstKeys
    Rotations,     \* operators at work, each rotating one key
    Rotating,      \* [Rotations -> a key it is about to replace at the start, or 0]
    CacheSize,     \* verificationCacheSize
    MaxIncidents   \* bound: failed derivations, expired entries, operators' changes

ASSUME AccessAssumption ==
    /\ CacheSize \in Nat \ {0}
    /\ FirstKeys \in 0..Len(Grants)
    /\ Len(Grants) \in Nat /\ DOMAIN Grants = 1..Len(Grants)
    /\ Recipient \in [DOMAIN Grants -> Merchants]
    /\ CredentialOf \in [Requests -> [key : Nat, genuine : BOOLEAN]]
    /\ Rotating \in [Rotations -> 0..FirstKeys]
    /\ MaxIncidents \in Nat

VARIABLES
    merchant,   \* [Merchants -> {"absent", "active", "disabled"}]
    keys,       \* api_keys, in order of issue
    cache,      \* verificationCache: prints, oldest first
    inFlight,   \* verificationInFlight: the prints being derived
    auth,       \* [Requests -> where authentication stands]
    rotation,   \* [Rotations -> [pc, key]]
    incidents

accessVars == <<merchant, keys, cache, inFlight, auth, rotation, incidents>>

Usable(k) == /\ k \in DOMAIN keys
             /\ keys[k].status = "active"
             /\ merchant[keys[k].merchant] = "active"

NewKey(m, scopes, from) ==
    [status |-> "active", merchant |-> m, scopes |-> scopes, from |-> from]

Incident == incidents < MaxIncidents /\ incidents' = incidents + 1

AccessInit ==
    /\ merchant = [m \in Merchants |->
                      IF \E k \in 1..FirstKeys : Recipient[k] = m THEN "active" ELSE "absent"]
    /\ keys = [k \in 1..FirstKeys |-> NewKey(Recipient[k], Grants[k], 0)]
    /\ cache = <<>>
    /\ inFlight = {}
    /\ auth = [r \in Requests |-> "new"]
    /\ rotation = [o \in Rotations |->
           [pc |-> IF Rotating[o] = 0 THEN "idle" ELSE "read", key |-> Rotating[o]]]
    /\ incidents = 0

(***************************************************************************)
(* Authentication of a request                                            *)
(***************************************************************************)
KeyOf(r) == CredentialOf[r].key

\* The predicate of the lookup holds at this moment, for this request only.
findActiveApiKeyByPrefix(r) ==
    /\ auth[r] = "new"
    /\ auth' = [auth EXCEPT ![r] = IF Usable(KeyOf(r)) THEN "found" ELSE "unauthorized"]
    /\ UNCHANGED <<merchant, keys, cache, inFlight, rotation, incidents>>

\* Mistake: the fingerprint leaves the secret out.
PrefixFingerprint(r) == [key |-> CredentialOf[r].key, genuine |-> TRUE]

verificationFingerprint(r) == CredentialOf[r]

hasScopes(r) == Needs[r] \subseteq keys[KeyOf(r)].scopes

Outcome(r, verified) ==
    CASE ~verified -> "unauthorized"
      [] verified /\ ~hasScopes(r) -> "forbidden"
      [] OTHER -> "admitted"

FreshPrints == {cache[i].print : i \in {i \in DOMAIN cache : cache[i].fresh}}

\* A print is remembered once.
PlaceOf(print) == CHOOSE i \in DOMAIN cache : cache[i].print = print

WithoutPrint(print) ==
    IF \A i \in DOMAIN cache : cache[i].print # print THEN cache
    ELSE [i \in 1..(Len(cache) - 1) |-> IF i < PlaceOf(print) THEN cache[i] ELSE cache[i + 1]]

\* verify up to its first await: a remembered credential moves to the end of
\* the cache, one past its time leaves it; a derivation under way is shared;
\* beyond the limit a derivation is not registered.
verify(r) ==
    LET print == verificationFingerprint(r) IN
    /\ auth[r] = "found"
    /\ IF print \in FreshPrints
       THEN /\ cache' = Append(WithoutPrint(print), [print |-> print, fresh |-> TRUE])
            /\ auth' = [auth EXCEPT ![r] = Outcome(r, TRUE)]
            /\ UNCHANGED inFlight
       ELSE /\ cache' = WithoutPrint(print)
            /\ \/ /\ print \in inFlight
                  /\ auth' = [auth EXCEPT ![r] = "sharing"]
                  /\ UNCHANGED inFlight
               \/ /\ print \notin inFlight
                  /\ Cardinality(inFlight) >= CacheSize
                  /\ auth' = [auth EXCEPT ![r] = "alone"]
                  /\ UNCHANGED inFlight
               \/ /\ print \notin inFlight
                  /\ Cardinality(inFlight) < CacheSize
                  /\ auth' = [auth EXCEPT ![r] = "deriving"]
                  /\ inFlight' = inFlight \cup {print}
    /\ UNCHANGED <<merchant, keys, rotation, incidents>>

\* The oldest entries make room, whatever they are.
rememberVerifiedFingerprint(print) ==
    LET kept == IF Len(cache) < CacheSize THEN cache
                ELSE SubSeq(cache, Len(cache) - CacheSize + 2, Len(cache))
    IN  IF \E i \in DOMAIN kept : kept[i].print = print
        THEN [i \in DOMAIN kept |-> IF kept[i].print = print
                                    THEN [print |-> print, fresh |-> TRUE] ELSE kept[i]]
        ELSE Append(kept, [print |-> print, fresh |-> TRUE])

Sharers(r) ==
    {r} \cup IF auth[r] = "deriving"
             THEN {q \in Requests : /\ auth[q] = "sharing"
                                    /\ verificationFingerprint(q) = verificationFingerprint(r)}
             ELSE {}

\* Mistake: the registration outlives a derivation that did not succeed.
UnregisteredIfVerified(r, verified) ==
    IF auth[r] = "deriving" /\ verified THEN {verificationFingerprint(r)} ELSE {}

Unregistered(r, verified) == IF auth[r] = "deriving" THEN {verificationFingerprint(r)} ELSE {}

verifyAndRemember(r) ==
    LET print == verificationFingerprint(r)
        verified == CredentialOf[r].genuine
    IN  /\ auth[r] \in {"deriving", "alone"}
        /\ cache' = IF verified THEN rememberVerifiedFingerprint(print) ELSE cache
        /\ inFlight' = inFlight \ Unregistered(r, verified)
        /\ auth' = [q \in Requests |-> IF q \in Sharers(r) THEN Outcome(q, verified) ELSE auth[q]]
        /\ UNCHANGED <<merchant, keys, rotation, incidents>>

\* scrypt fails: every request that waits for it fails, nothing is cached.
DerivationFails(r) ==
    /\ auth[r] \in {"deriving", "alone"}
    /\ Incident
    /\ inFlight' = inFlight \ Unregistered(r, FALSE)
    /\ auth' = [q \in Requests |-> IF q \in Sharers(r) THEN "failed" ELSE auth[q]]
    /\ UNCHANGED <<merchant, keys, cache, rotation>>

\* verificationCacheTtlMs passes for the entry remembered i-th.
EntryExpires(i) ==
    /\ i \in DOMAIN cache
    /\ cache[i].fresh
    /\ cache' = [cache EXCEPT ![i].fresh = FALSE]
    /\ Incident /\ UNCHANGED <<merchant, keys, inFlight, auth, rotation>>

(***************************************************************************)
(* Operators                                                              *)
(***************************************************************************)
provisionSyntheticMerchant(m) ==
    /\ merchant[m] = "absent"
    /\ merchant' = [merchant EXCEPT ![m] = "active"]
    /\ Incident /\ UNCHANGED <<keys, cache, inFlight, auth, rotation>>

createApiKey ==
    LET k == Len(keys) + 1 IN
    /\ k \in DOMAIN Grants
    /\ merchant[Recipient[k]] = "active"
    /\ keys' = Append(keys, NewKey(Recipient[k], Grants[k], 0))
    /\ Incident /\ UNCHANGED <<merchant, cache, inFlight, auth, rotation>>

disableApiKey(k) ==
    /\ keys[k].status = "active"
    /\ keys' = [keys EXCEPT ![k].status = "disabled"]
    /\ Incident /\ UNCHANGED <<merchant, cache, inFlight, auth, rotation>>

revokeApiKey(k) ==
    /\ keys[k].status \in {"active", "disabled"}
    /\ keys' = [keys EXCEPT ![k].status = "revoked"]
    /\ Incident /\ UNCHANGED <<merchant, cache, inFlight, auth, rotation>>

Rotatable(k) == keys[k].status \in {"active", "disabled"}

\* rotateApiKey's transaction reads the key ...
RotationReads(o, k) ==
    /\ rotation[o].pc = "idle"
    /\ Len(keys) < Len(Grants)
    /\ Rotatable(k) /\ merchant[keys[k].merchant] = "active"
    /\ rotation' = [rotation EXCEPT ![o] = [pc |-> "read", key |-> k]]
    /\ Incident /\ UNCHANGED <<merchant, keys, cache, inFlight, auth>>

\* Mistake: the update that retires the key does not look at its status.
RetiresAnyway(k) == TRUE

Retires(k) == Rotatable(k)

\* ... retires it unless another transaction did, and creates its successor.
rotateApiKey(o) ==
    LET k == rotation[o].key IN
    /\ rotation[o].pc = "read"
    /\ Len(keys) < Len(Grants)
    /\ \/ /\ Retires(k)
          /\ \E scopes \in {keys[k].scopes, Grants[Len(keys) + 1]} :
                keys' = Append([keys EXCEPT ![k].status = "revoked"],
                               NewKey(keys[k].merchant, scopes, k))
       \/ ~Retires(k) /\ UNCHANGED keys
    /\ rotation' = [rotation EXCEPT ![o].pc = "done"]
    /\ UNCHANGED <<merchant, cache, inFlight, auth, incidents>>

\* An operator closes a merchant, outside the code.
CloseMerchant(m) ==
    /\ merchant[m] = "active"
    /\ merchant' = [merchant EXCEPT ![m] = "disabled"]
    /\ Incident /\ UNCHANGED <<keys, cache, inFlight, auth, rotation>>

Operate ==
    \/ createApiKey
    \/ \E m \in Merchants : provisionSyntheticMerchant(m) \/ CloseMerchant(m)
    \/ \E k \in DOMAIN keys : disableApiKey(k) \/ revokeApiKey(k)
    \/ \E o \in Rotations : rotateApiKey(o) \/ \E k \in DOMAIN keys : RotationReads(o, k)

(***************************************************************************)
(* Properties                                                             *)
(***************************************************************************)
AccessTypeOK ==
    /\ merchant \in [Merchants -> {"absent", "active", "disabled"}]
    /\ \A k \in DOMAIN keys : /\ keys[k].status \in {"active", "disabled", "revoked"}
                              /\ keys[k].merchant \in Merchants
                              /\ keys[k].from \in 0..(k - 1)
    /\ Len(cache) <= CacheSize
    /\ auth \in [Requests -> {"new", "found", "deriving", "alone", "sharing", "admitted",
                              "unauthorized", "forbidden", "failed"}]
    /\ incidents \in 0..MaxIncidents

\* However many rotations of one key overlap, it has one successor at most,
\* with its merchant, and no longer opens anything itself
\* (docs/api/merchant-access.md:40; rotateApiKey).
RotationReplacesOnce ==
    \A k \in DOMAIN keys :
        LET successors == {n \in DOMAIN keys : keys[n].from = k} IN
        /\ Cardinality(successors) <= 1
        /\ \A n \in successors : /\ keys[k].status = "revoked"
                                 /\ keys[n].merchant = keys[k].merchant

\* The process remembers and shares no more than it may: at most CacheSize
\* credentials, each once and each genuine, and a derivation is registered
\* exactly while one request performs it, so that nobody waits for one that
\* has ended (ApiKeyCredentialService; docs/api/merchant-access.md:39).
VerificationIsShared ==
    /\ Len(cache) <= CacheSize /\ Cardinality(inFlight) <= CacheSize
    /\ \A i \in DOMAIN cache : cache[i].print.genuine
    /\ \A i, j \in DOMAIN cache : cache[i].print = cache[j].print => i = j
    /\ \A print \in inFlight :
          Cardinality({r \in Requests : /\ auth[r] = "deriving"
                                        /\ verificationFingerprint(r) = print}) = 1
    /\ \A r \in Requests : auth[r] \in {"deriving", "sharing"} =>
          verificationFingerprint(r) \in inFlight
=============================================================================
