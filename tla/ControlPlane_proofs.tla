------------------------- MODULE ControlPlane_proofs -------------------------
(***************************************************************************)
(* Proofs about MerchantAccess, WebhookEndpoints and their composition,    *)
(* for any number of merchants, keys, requests, operators and endpoints.   *)
(***************************************************************************)
EXTENDS ControlPlane, FiniteSetTheorems, TLAPS

(***************************************************************************)
(* Keys and authentication.                                                *)
(***************************************************************************)
Prints == {CredentialOf[r] : r \in Requests}
Entries == [print : Prints, fresh : BOOLEAN]

ApiKeys ==
    [status : {"active", "disabled", "revoked"}, merchant : Merchants,
     scopes : {Grants[k] : k \in DOMAIN Grants}, from : Nat]

\* What the process may remember: few prints, each once and each genuine.
Remembers(entries) ==
    /\ entries \in Seq(Entries)
    /\ Len(entries) <= CacheSize
    /\ \A i \in DOMAIN entries : entries[i].print.genuine
    /\ \A i, j \in DOMAIN entries : entries[i].print = entries[j].print => i = j

KeysOK ==
    /\ merchant \in [Merchants -> {"absent", "active", "disabled"}]
    /\ keys \in Seq(ApiKeys)
    /\ rotation \in [Rotations -> [pc : {"idle", "read", "done"}, key : Nat]]
    /\ \A o \in Rotations : rotation[o].pc = "read" => rotation[o].key \in DOMAIN keys
    /\ incidents \in 0..MaxIncidents

\* A key that has a successor is revoked and has no other.
Succeeded ==
    /\ \A n \in DOMAIN keys : keys[n].from \in 0..(n - 1)
    /\ \A n \in DOMAIN keys : keys[n].from # 0 =>
          /\ keys[keys[n].from].status = "revoked"
          /\ keys[keys[n].from].merchant = keys[n].merchant
    /\ \A n, m \in DOMAIN keys : keys[n].from = keys[m].from /\ keys[n].from # 0 => n = m

AuthStates == {"new", "found", "deriving", "alone", "sharing", "admitted", "unauthorized",
               "forbidden", "failed"}

\* A request goes beyond the look-up with an issued key only, and is admitted
\* with a genuine credential whose key has the scopes.
AuthOK ==
    /\ auth \in [Requests -> AuthStates]
    /\ \A r \in Requests :
          /\ auth[r] \in {"found", "deriving", "alone", "sharing", "admitted"} =>
                KeyOf(r) \in DOMAIN keys
          /\ auth[r] = "admitted" => CredentialOf[r].genuine /\ hasScopes(r)

\* One request derives each print that is registered.
DerivationsOK ==
    /\ inFlight \subseteq Prints /\ IsFiniteSet(inFlight) /\ Cardinality(inFlight) <= CacheSize
    /\ \A print \in inFlight : \E r \in Requests : auth[r] = "deriving" /\ CredentialOf[r] = print
    /\ \A r, q \in Requests : auth[r] = "deriving" /\ auth[q] = "deriving" /\ CredentialOf[r] = CredentialOf[q]
          => r = q
    /\ \A r \in Requests : auth[r] \in {"deriving", "sharing"} => CredentialOf[r] \in inFlight

AccessInv == KeysOK /\ Succeeded /\ AuthOK /\ Remembers(cache) /\ DerivationsOK

LEMMA AccessInitInv == AccessInit => AccessInv
<1> SUFFICES ASSUME AccessInit PROVE AccessInv
  OBVIOUS
<1> USE AccessAssumption DEF AccessInit
<1>1. keys \in Seq(ApiKeys) /\ Len(keys) = FirstKeys /\ \A k \in DOMAIN keys : keys[k].from = 0
  <2>1. \A k \in 1..FirstKeys : NewKey(Recipient[k], Grants[k], 0) \in ApiKeys
    BY DEF NewKey, ApiKeys
  <2>2. FirstKeys \in Nat
    OBVIOUS
  <2> QED
    BY <2>1, <2>2 DEF NewKey
<1>2. KeysOK
  BY <1>1 DEF KeysOK
<1>3. Succeeded
  BY <1>1 DEF Succeeded
<1>4. AuthOK /\ Remembers(cache)
  BY DEF AuthOK, AuthStates, Remembers
<1>5. DerivationsOK
  BY FS_EmptySet DEF DerivationsOK
<1> QED
  BY <1>2, <1>3, <1>4, <1>5 DEF AccessInv

\* What the step of one request or operator leaves as it is: the owner and the
\* scopes of a key, and what a request was answered.
AccessKeeps ==
    /\ Len(keys) <= Len(keys')
    /\ \A k \in DOMAIN keys : keys'[k].merchant = keys[k].merchant /\ keys'[k].scopes = keys[k].scopes
    /\ \A r \in Requests : /\ auth[r] # "new" => auth'[r] # "new"
                           /\ auth[r] = "admitted" => auth'[r] = "admitted"

\* AuthOK outlives any change of the keys that keeps owners and scopes.
LEMMA KeysChange ==
    ASSUME AccessInv, keys' \in Seq(ApiKeys), AccessKeeps, UNCHANGED <<cache, inFlight, auth>>
    PROVE  AuthOK' /\ Remembers(cache') /\ DerivationsOK'
<1>1. AuthOK'
  <2>1. DOMAIN keys \subseteq DOMAIN keys' /\ auth' = auth
    BY DEF AccessInv, KeysOK, AccessKeeps
  <2>2. ASSUME NEW r \in Requests, auth[r] = "admitted"
        PROVE  hasScopes(r)'
    BY <2>1, <2>2 DEF AccessInv, AuthOK, AccessKeeps, hasScopes, KeyOf
  <2> QED
    BY <2>1, <2>2 DEF AccessInv, AuthOK, KeyOf
<1>2. Remembers(cache') /\ DerivationsOK'
  BY DEF AccessInv, DerivationsOK, Remembers
<1> QED
  BY <1>1, <1>2

LEMMA IncidentCounted == incidents \in 0..MaxIncidents /\ Incident => incidents' \in 0..MaxIncidents
  BY AccessAssumption DEF Incident

WithStatus(k, s) == [keys EXCEPT ![k].status = s]

LEMMA StatusSet ==
    ASSUME keys \in Seq(ApiKeys), NEW k \in DOMAIN keys, NEW s \in {"active", "disabled", "revoked"}
    PROVE  /\ WithStatus(k, s) \in Seq(ApiKeys) /\ Len(WithStatus(k, s)) = Len(keys)
           /\ WithStatus(k, s)[k].status = s
           /\ \A n \in DOMAIN keys : /\ WithStatus(k, s)[n].merchant = keys[n].merchant
                                     /\ WithStatus(k, s)[n].scopes = keys[n].scopes
                                     /\ WithStatus(k, s)[n].from = keys[n].from
                                     /\ n # k => WithStatus(k, s)[n].status = keys[n].status
<1>1. \A n \in DOMAIN keys : WithStatus(k, s)[n] = IF n = k THEN [keys[k] EXCEPT !.status = s] ELSE keys[n]
  BY DEF WithStatus
<1>2. keys[k] \in ApiKeys /\ \A n \in DOMAIN keys : keys[n] \in ApiKeys
  OBVIOUS
<1>3. [keys[k] EXCEPT !.status = s] \in ApiKeys
  BY <1>2 DEF ApiKeys
<1>4. WithStatus(k, s) \in Seq(ApiKeys) /\ Len(WithStatus(k, s)) = Len(keys)
  BY <1>1, <1>2, <1>3 DEF WithStatus
<1> QED
  BY <1>1, <1>2, <1>4 DEF ApiKeys

LEMMA KeyStatusInv ==
    ASSUME AccessInv, NEW k \in DOMAIN keys, disableApiKey(k) \/ revokeApiKey(k)
    PROVE  AccessInv' /\ AccessKeeps
<1> USE DEF AccessInv, disableApiKey, revokeApiKey
<1>1. /\ keys' \in Seq(ApiKeys) /\ Len(keys') = Len(keys)
      /\ \A n \in DOMAIN keys : /\ keys'[n].merchant = keys[n].merchant
                                /\ keys'[n].scopes = keys[n].scopes
                                /\ keys'[n].from = keys[n].from
                                /\ keys[n].status = "revoked" => keys'[n].status = "revoked"
  <2>1. PICK s \in {"disabled", "revoked"} : keys' = WithStatus(k, s)
    BY DEF WithStatus
  <2>2. keys[k].status # "revoked"
    OBVIOUS
  <2>3. keys \in Seq(ApiKeys) /\ s \in {"active", "disabled", "revoked"}
    BY DEF KeysOK
  <2> HIDE DEF AccessInv, disableApiKey, revokeApiKey
  <2> QED
    BY <2>1, <2>2, <2>3, StatusSet
<1>2. AccessKeeps
  BY <1>1 DEF AccessKeeps, KeysOK
<1>3. KeysOK'
  BY <1>1, IncidentCounted DEF KeysOK
<1>4. Succeeded'
  <2>1. DOMAIN keys' = DOMAIN keys /\ \A n \in DOMAIN keys : keys[n].from \in DOMAIN keys \cup {0}
    BY <1>1 DEF KeysOK, Succeeded
  <2>2. \A n \in DOMAIN keys' : keys'[n].from \in 0..(n - 1)
    BY <1>1, <2>1 DEF Succeeded
  <2>3. \A n \in DOMAIN keys' : keys'[n].from # 0 =>
          /\ keys'[keys'[n].from].status = "revoked"
          /\ keys'[keys'[n].from].merchant = keys'[n].merchant
    BY <1>1, <2>1 DEF Succeeded
  <2>4. \A n, m \in DOMAIN keys' : keys'[n].from = keys'[m].from /\ keys'[n].from # 0 => n = m
    BY <1>1, <2>1 DEF Succeeded
  <2> QED
    BY <2>2, <2>3, <2>4 DEF Succeeded
<1> QED
  BY <1>1, <1>2, <1>3, <1>4, KeysChange

LEMMA IssueInv ==
    ASSUME AccessInv, NEW key \in ApiKeys, keys' = Append(keys, key), key.from = 0,
           UNCHANGED <<merchant, cache, inFlight, auth, rotation>>, Incident
    PROVE  AccessInv' /\ AccessKeeps
<1> USE DEF AccessInv
<1>1. /\ keys' \in Seq(ApiKeys) /\ Len(keys') = Len(keys) + 1 /\ keys'[Len(keys) + 1] = key
      /\ \A n \in DOMAIN keys : keys'[n] = keys[n]
  BY DEF KeysOK
<1>2. AccessKeeps
  BY <1>1 DEF AccessKeeps, KeysOK
<1>3. KeysOK'
  BY <1>1, IncidentCounted DEF KeysOK
<1>4. Succeeded'
  BY <1>1 DEF KeysOK, Succeeded
<1> QED
  BY <1>1, <1>2, <1>3, <1>4, KeysChange

LEMMA RotateInv ==
    ASSUME AccessInv, NEW o \in Rotations, rotateApiKey(o)
    PROVE  AccessInv' /\ AccessKeeps
<1> DEFINE k == rotation[o].key
<1> USE DEF AccessInv
<1>1. k \in DOMAIN keys /\ rotation' = [rotation EXCEPT ![o].pc = "done"]
      /\ UNCHANGED <<merchant, cache, inFlight, auth, incidents>>
  BY DEF rotateApiKey, KeysOK
<1>2. CASE UNCHANGED keys
  <2>1. KeysOK' /\ Succeeded'
    BY <1>1, <1>2 DEF KeysOK, Succeeded
  <2>2. AccessKeeps
    BY <1>1, <1>2 DEF AccessKeeps, KeysOK
  <2> QED
    BY <1>1, <1>2, <2>1, <2>2, KeysChange DEF KeysOK
<1>3. CASE Retires(k) /\ \E scopes \in {keys[k].scopes, Grants[Len(keys) + 1]} :
                keys' = Append([keys EXCEPT ![k].status = "revoked"], NewKey(keys[k].merchant, scopes, k))
  <2>0. PICK scopes \in {keys[k].scopes, Grants[Len(keys) + 1]} :
            keys' = Append([keys EXCEPT ![k].status = "revoked"], NewKey(keys[k].merchant, scopes, k))
    BY <1>3
  <2>a. Len(keys) < Len(Grants) /\ keys \in Seq(ApiKeys) /\ keys[k].status # "revoked"
    BY <1>3 DEF rotateApiKey, KeysOK, Retires, Rotatable
  <2>b. NewKey(keys[k].merchant, scopes, k) \in ApiKeys
    <3>1. keys[k] \in ApiKeys /\ k \in Nat /\ Len(keys) + 1 \in DOMAIN Grants
      BY <1>1, <2>a, AccessAssumption
    <3> QED
      BY <3>1 DEF NewKey, ApiKeys
  <2>1. /\ keys' \in Seq(ApiKeys) /\ Len(keys') = Len(keys) + 1
        /\ keys'[Len(keys) + 1].from = k /\ keys'[Len(keys) + 1].merchant = keys[k].merchant
        /\ keys'[k].status = "revoked"
        /\ \A n \in DOMAIN keys :
              /\ keys'[n].merchant = keys[n].merchant
              /\ keys'[n].scopes = keys[n].scopes
              /\ keys'[n].from = keys[n].from
              /\ keys[n].status = "revoked" => keys'[n].status = "revoked"
    <3> DEFINE old == WithStatus(k, "revoked")
    <3>1. /\ old \in Seq(ApiKeys) /\ Len(old) = Len(keys) /\ old[k].status = "revoked"
          /\ \A n \in DOMAIN keys : /\ old[n].merchant = keys[n].merchant
                                    /\ old[n].scopes = keys[n].scopes
                                    /\ old[n].from = keys[n].from
                                    /\ n # k => old[n].status = keys[n].status
      BY <1>1, <2>a, StatusSet
    <3> HIDE DEF old
    <3>2. keys' = Append(old, NewKey(keys[k].merchant, scopes, k))
      BY <2>0 DEF old, WithStatus
    <3>3. /\ keys' \in Seq(ApiKeys) /\ Len(keys') = Len(keys) + 1
          /\ keys'[Len(keys) + 1] = NewKey(keys[k].merchant, scopes, k)
          /\ \A n \in DOMAIN keys : keys'[n] = old[n]
      BY <2>b, <3>1, <3>2, <2>a
    <3> QED
      BY <1>1, <3>1, <3>3 DEF NewKey
  <2>2. AccessKeeps
    BY <1>1, <2>1 DEF AccessKeeps, KeysOK
  <2>3. KeysOK'
    BY <1>1, <2>1 DEF KeysOK
  <2>4. Succeeded'
    <3>1. \A n \in DOMAIN keys : keys[n].from # k
      BY <1>1, <2>a DEF Succeeded
    <3>2. /\ DOMAIN keys' = DOMAIN keys \cup {Len(keys) + 1} /\ Len(keys) + 1 \notin DOMAIN keys
          /\ \A n \in DOMAIN keys : keys[n].from \in DOMAIN keys \cup {0}
      BY <2>1, <2>a DEF Succeeded
    <3>3. \A n \in DOMAIN keys' : keys'[n].from \in 0..(n - 1)
      BY <1>1, <2>1, <2>a, <3>2 DEF Succeeded
    <3>4. \A n \in DOMAIN keys' : keys'[n].from # 0 =>
            /\ keys'[keys'[n].from].status = "revoked"
            /\ keys'[keys'[n].from].merchant = keys'[n].merchant
      BY <1>1, <2>1, <3>1, <3>2 DEF Succeeded
    <3>5. \A n, m \in DOMAIN keys' : keys'[n].from = keys'[m].from /\ keys'[n].from # 0 => n = m
      BY <1>1, <2>1, <3>1, <3>2 DEF Succeeded
    <3> QED
      BY <3>3, <3>4, <3>5 DEF Succeeded
  <2> QED
    BY <1>1, <2>1, <2>2, <2>3, <2>4, KeysChange
<1> QED
  BY <1>2, <1>3 DEF rotateApiKey

LEMMA MerchantInv ==
    ASSUME AccessInv, NEW m \in Merchants, provisionSyntheticMerchant(m) \/ CloseMerchant(m)
    PROVE  AccessInv' /\ AccessKeeps
<1> USE DEF AccessInv, provisionSyntheticMerchant, CloseMerchant
<1>1. KeysOK' /\ AccessKeeps
  BY IncidentCounted DEF KeysOK, AccessKeeps
<1>2. Succeeded'
  BY DEF Succeeded
<1> QED
  BY <1>1, <1>2, KeysChange DEF KeysOK

LEMMA RotationReadsInv ==
    ASSUME AccessInv, NEW o \in Rotations, NEW k \in DOMAIN keys, RotationReads(o, k)
    PROVE  AccessInv' /\ AccessKeeps
<1> USE DEF AccessInv, RotationReads
<1>1. KeysOK' /\ AccessKeeps
  <2>1. k \in Nat /\ incidents' \in 0..MaxIncidents
    BY IncidentCounted DEF KeysOK
  <2> QED
    BY <2>1 DEF KeysOK, AccessKeeps
<1>2. Succeeded'
  BY DEF Succeeded
<1> QED
  BY <1>1, <1>2, KeysChange DEF KeysOK

LEMMA CreateInv ==
    ASSUME AccessInv, createApiKey
    PROVE  AccessInv' /\ AccessKeeps
<1> DEFINE key == NewKey(Recipient[Len(keys) + 1], Grants[Len(keys) + 1], 0)
<1>1. key \in ApiKeys /\ key.from = 0
  BY AccessAssumption DEF createApiKey, NewKey, ApiKeys
<1>2. keys' = Append(keys, key) /\ UNCHANGED <<merchant, cache, inFlight, auth, rotation>> /\ Incident
  BY DEF createApiKey
<1> QED
  BY <1>1, <1>2, IssueInv

LEMMA OperateInv == AccessInv /\ Operate => AccessInv' /\ AccessKeeps
  BY KeyStatusInv, RotateInv, MerchantInv, RotationReadsInv, CreateInv DEF Operate

\* The cache of the process.

\* The entry of a print is gone, the others stay.
LEMMA WithoutPrintSound ==
    ASSUME Remembers(cache), NEW print
    PROVE  /\ Remembers(WithoutPrint(print))
           /\ \A i \in DOMAIN WithoutPrint(print) : WithoutPrint(print)[i].print # print
           /\ print \in FreshPrints => Len(WithoutPrint(print)) < Len(cache)
<1> DEFINE rest == WithoutPrint(print)
           n == PlaceOf(print)
           shorter == [i \in 1..(Len(cache) - 1) |-> IF i < n THEN cache[i] ELSE cache[i + 1]]
<1> USE DEF Remembers
<1>1. CASE \A i \in DOMAIN cache : cache[i].print # print
  BY <1>1 DEF WithoutPrint, FreshPrints
<1>2. CASE \E i \in DOMAIN cache : cache[i].print = print
  <2>1. n \in DOMAIN cache /\ cache[n].print = print
    BY <1>2 DEF PlaceOf
  <2>2. rest = shorter
    BY <1>2 DEF WithoutPrint
  <2> HIDE DEF n
  <2>3. /\ Len(cache) - 1 \in Nat
        /\ \A i \in 1..(Len(cache) - 1) : shorter[i] = cache[IF i < n THEN i ELSE i + 1]
    BY <2>1
  <2>4. shorter \in Seq(Entries) /\ Len(shorter) = Len(cache) - 1
    BY <2>1, <2>3
  <2>5. \A i \in DOMAIN shorter : /\ (IF i < n THEN i ELSE i + 1) \in DOMAIN cache \ {n}
                                   /\ shorter[i] = cache[IF i < n THEN i ELSE i + 1]
    BY <2>1, <2>3, <2>4
  <2> HIDE DEF shorter
  <2>6. \A i, j \in DOMAIN shorter : shorter[i].print = shorter[j].print => i = j
    BY <2>4, <2>5, <2>1
  <2>7. \A i \in DOMAIN shorter : shorter[i].print # print /\ shorter[i].print.genuine
    BY <2>5, <2>1
  <2> QED
    BY <2>2, <2>4, <2>6, <2>7, AccessAssumption
<1> QED
  BY <1>1, <1>2

LEMMA RememberSound ==
    ASSUME Remembers(cache), NEW print \in Prints, print.genuine
    PROVE  Remembers(rememberVerifiedFingerprint(print))
<1> DEFINE kept == IF Len(cache) < CacheSize THEN cache
                   ELSE SubSeq(cache, Len(cache) - CacheSize + 2, Len(cache))
           entry == [print |-> print, fresh |-> TRUE]
<1> USE AccessAssumption DEF Remembers
<1>0. entry \in Entries /\ entry.print = print
  BY DEF Entries
<1> HIDE DEF entry
<1>1. Remembers(kept) /\ Len(kept) < CacheSize
  <2>1. CASE Len(cache) < CacheSize
    BY <2>1
  <2>2. CASE Len(cache) = CacheSize
    <3>1. kept = SubSeq(cache, 2, Len(cache))
      BY <2>2
    <3>2. kept \in Seq(Entries) /\ Len(kept) = Len(cache) - 1 /\ \A i \in DOMAIN kept : kept[i] = cache[i + 1]
      BY <2>2, <3>1
    <3> QED
      BY <2>2, <3>2
  <2> QED
    BY <2>1, <2>2
<1>2. rememberVerifiedFingerprint(print) =
        IF \E i \in DOMAIN kept : kept[i].print = print
        THEN [i \in DOMAIN kept |-> IF kept[i].print = print THEN entry ELSE kept[i]]
        ELSE Append(kept, entry)
  BY DEF rememberVerifiedFingerprint, entry
<1> HIDE DEF kept
<1>3. CASE \E i \in DOMAIN kept : kept[i].print = print
  <2> DEFINE fresh == [i \in DOMAIN kept |-> IF kept[i].print = print THEN entry ELSE kept[i]]
  <2>1. \A i \in DOMAIN kept : fresh[i] \in Entries /\ fresh[i].print = kept[i].print
    BY <1>0, <1>1
  <2>2. fresh \in Seq(Entries) /\ Len(fresh) = Len(kept) /\ DOMAIN fresh = DOMAIN kept
    BY <1>1, <2>1
  <2>3. rememberVerifiedFingerprint(print) = fresh
    BY <1>2, <1>3
  <2> HIDE DEF fresh
  <2>4. Remembers(fresh)
    BY <1>1, <2>1, <2>2
  <2> QED
    BY <2>3, <2>4
<1>4. CASE \A i \in DOMAIN kept : kept[i].print # print
  <2> DEFINE longer == Append(kept, entry)
  <2>1. /\ longer \in Seq(Entries) /\ Len(longer) = Len(kept) + 1
        /\ \A i \in DOMAIN kept : longer[i] = kept[i]
        /\ longer[Len(kept) + 1] = entry
    BY <1>0, <1>1
  <2>2. rememberVerifiedFingerprint(print) = longer
    BY <1>2, <1>4
  <2> HIDE DEF longer
  <2>3. \A i \in DOMAIN longer : i \in DOMAIN kept \/ i = Len(kept) + 1
    BY <1>1, <2>1
  <2>4. \A i \in DOMAIN longer : longer[i].print.genuine
    BY <1>0, <1>1, <2>1, <2>3
  <2>5. \A i, j \in DOMAIN longer : longer[i].print = longer[j].print => i = j
    <3>1. \A i \in DOMAIN kept : longer[i].print # longer[Len(kept) + 1].print
      BY <1>0, <1>4, <2>1
    <3> QED
      BY <1>1, <2>1, <2>3, <3>1
  <2>6. Remembers(longer)
    BY <1>1, <2>1, <2>4, <2>5
  <2> HIDE DEF Remembers
  <2> QED
    BY <2>2, <2>6
<1> QED
  BY <1>3, <1>4

\* The steps of a request's authentication.

LEMMA FindInv ==
    ASSUME AccessInv, NEW r \in Requests, findActiveApiKeyByPrefix(r)
    PROVE  AccessInv' /\ \A q \in Requests : auth[q] # "new" => auth'[q] = auth[q]
<1> USE DEF AccessInv, findActiveApiKeyByPrefix
<1>1. /\ \A q \in Requests \ {r} : auth'[q] = auth[q]
      /\ auth'[r] \in {"found", "unauthorized"} /\ auth[r] = "new"
      /\ auth'[r] = "found" => KeyOf(r) \in DOMAIN keys
      /\ auth' \in [Requests -> AuthStates]
  BY DEF AuthOK, Usable, AuthStates
<1>2. KeysOK' /\ Succeeded' /\ Remembers(cache')
  BY DEF KeysOK, Succeeded, Remembers
<1>3. AuthOK'
  BY <1>1 DEF AuthOK, KeyOf, hasScopes
<1>4. DerivationsOK'
  BY <1>1 DEF DerivationsOK
<1> QED
  BY <1>1, <1>2, <1>3, <1>4

LEMMA OutcomeSound ==
    ASSUME NEW r \in Requests, NEW verified \in BOOLEAN
    PROVE  /\ Outcome(r, verified) \in {"unauthorized", "forbidden", "admitted"}
           /\ Outcome(r, verified) = "admitted" => verified /\ hasScopes(r)
  BY DEF Outcome

\* A remembered credential is a genuine one.
LEMMA FreshAreGenuine == Remembers(cache) => \A print \in FreshPrints : print.genuine
  BY DEF Remembers, FreshPrints

LEMMA VerifyInv ==
    ASSUME AccessInv, NEW r \in Requests, verify(r)
    PROVE  AccessInv' /\ \A q \in Requests \ {r} : auth'[q] = auth[q]
<1> DEFINE print == CredentialOf[r]
<1> USE DEF verificationFingerprint
<1>0. /\ auth[r] = "found" /\ UNCHANGED <<merchant, keys, rotation, incidents>> /\ print \in Prints
      /\ auth \in [Requests -> AuthStates]
  BY DEF verify, Prints, AccessInv, AuthOK
<1>1. KeysOK' /\ Succeeded'
  BY <1>0 DEF AccessInv, KeysOK, Succeeded
<1>2. Remembers(WithoutPrint(print))
  BY WithoutPrintSound DEF AccessInv
<1>3. CASE print \in FreshPrints
  <2>1. /\ cache' = Append(WithoutPrint(print), [print |-> print, fresh |-> TRUE])
        /\ auth' = [auth EXCEPT ![r] = Outcome(r, TRUE)] /\ inFlight' = inFlight
    BY <1>3 DEF verify
  <2>2. /\ print.genuine /\ Len(WithoutPrint(print)) < Len(cache)
        /\ \A i \in DOMAIN WithoutPrint(print) : WithoutPrint(print)[i].print # print
    BY <1>3, FreshAreGenuine, WithoutPrintSound DEF AccessInv
  <2>3. Remembers(cache')
    <3> DEFINE rest == WithoutPrint(print)
               entry == [print |-> print, fresh |-> TRUE]
    <3>1. entry \in Entries /\ entry.print = print
      BY <1>0 DEF Entries
    <3>2. Remembers(rest) /\ Len(rest) < CacheSize /\ print.genuine /\ CacheSize \in Nat
          /\ \A i \in DOMAIN rest : rest[i].print # print
      BY <1>2, <2>2, AccessAssumption DEF AccessInv, Remembers
    <3>3. cache' = Append(rest, entry)
      BY <2>1
    <3> HIDE DEF rest, entry, print
    <3>4. /\ cache' \in Seq(Entries) /\ Len(cache') = Len(rest) + 1 /\ cache'[Len(rest) + 1] = entry
          /\ \A i \in DOMAIN rest : cache'[i] = rest[i]
          /\ \A i \in DOMAIN cache' : i \in DOMAIN rest \/ i = Len(rest) + 1
      BY <3>1, <3>2, <3>3 DEF Remembers
    <3>5. \A i \in DOMAIN cache' : cache'[i].print.genuine
      BY <3>1, <3>2, <3>4 DEF Remembers
    <3>6. \A i, j \in DOMAIN cache' : cache'[i].print = cache'[j].print => i = j
      BY <3>1, <3>2, <3>4 DEF Remembers
    <3> QED
      BY <3>2, <3>4, <3>5, <3>6 DEF Remembers
  <2>4. AuthOK'
    <3>1. /\ \A q \in Requests \ {r} : auth'[q] = auth[q]
          /\ auth'[r] \in {"unauthorized", "forbidden", "admitted"}
          /\ auth'[r] = "admitted" => hasScopes(r) /\ KeyOf(r) \in DOMAIN keys
          /\ auth' \in [Requests -> AuthStates]
      BY <1>0, <2>1, OutcomeSound DEF AccessInv, AuthOK, AuthStates
    <3> QED
      BY <1>0, <2>2, <3>1 DEF AccessInv, AuthOK, KeyOf, hasScopes
  <2>5. DerivationsOK'
    <3>1. /\ \A q \in Requests \ {r} : auth'[q] = auth[q]
          /\ auth'[r] \notin {"deriving", "sharing"}
      BY <1>0, <2>1, OutcomeSound
    <3> QED
      BY <1>0, <2>1, <3>1 DEF AccessInv, DerivationsOK
  <2> QED
    BY <1>0, <1>1, <2>1, <2>3, <2>4, <2>5 DEF AccessInv
<1>4. CASE print \notin FreshPrints
  <2>1. /\ cache' = WithoutPrint(print)
        /\ \E s \in {"sharing", "alone", "deriving"} :
              /\ auth' = [auth EXCEPT ![r] = s]
              /\ s = "sharing" => print \in inFlight
              /\ s = "deriving" => print \notin inFlight /\ Cardinality(inFlight) < CacheSize
              /\ inFlight' = IF s = "deriving" THEN inFlight \cup {print} ELSE inFlight
    BY <1>4 DEF verify
  <2>2. PICK s \in {"sharing", "alone", "deriving"} :
              /\ auth' = [auth EXCEPT ![r] = s]
              /\ s = "sharing" => print \in inFlight
              /\ s = "deriving" => print \notin inFlight /\ Cardinality(inFlight) < CacheSize
              /\ inFlight' = IF s = "deriving" THEN inFlight \cup {print} ELSE inFlight
    BY <2>1
  <2>3. /\ \A q \in Requests \ {r} : auth'[q] = auth[q]
        /\ auth'[r] = s /\ auth' \in [Requests -> AuthStates]
    BY <1>0, <2>2 DEF AuthStates
  <2>4. AuthOK'
    BY <1>0, <2>3 DEF AccessInv, AuthOK, KeyOf, hasScopes
  <2>5. DerivationsOK'
    <3>1. CASE s = "deriving"
      <4>1. /\ inFlight' = inFlight \cup {print} /\ print \notin inFlight
            /\ Cardinality(inFlight') = Cardinality(inFlight) + 1 /\ IsFiniteSet(inFlight')
            /\ Cardinality(inFlight) \in Nat
        BY <2>2, <3>1, FS_AddElement, FS_CardinalityType DEF AccessInv, DerivationsOK
      <4>2. /\ inFlight' \subseteq Prints /\ Cardinality(inFlight') <= CacheSize
            /\ \A q \in Requests : auth[q] = "deriving" => CredentialOf[q] # print
        BY <1>0, <2>2, <3>1, <4>1, AccessAssumption DEF AccessInv, DerivationsOK
      <4> QED
        BY <1>0, <2>3, <3>1, <4>1, <4>2 DEF AccessInv, DerivationsOK
    <3>2. CASE s # "deriving"
      BY <1>0, <2>2, <2>3, <3>2 DEF AccessInv, DerivationsOK
    <3> QED
      BY <3>1, <3>2
  <2> QED
    BY <1>1, <1>2, <2>1, <2>3, <2>4, <2>5 DEF AccessInv
<1> QED
  BY <1>3, <1>4

\* A derivation has ended: its sharers have the outcome, its print is free.
LEMMA DerivedInv ==
    ASSUME AccessInv, NEW r \in Requests, auth[r] \in {"deriving", "alone"},
           Remembers(cache'), NEW verified \in BOOLEAN, inFlight' = inFlight \ Unregistered(r, verified),
           KeysOK', Succeeded', UNCHANGED keys, auth' \in [Requests -> AuthStates],
           \A q \in Requests \ Sharers(r) : auth'[q] = auth[q],
           \A q \in Sharers(r) :
              /\ auth'[q] \in {"admitted", "unauthorized", "forbidden", "failed"}
              /\ auth'[q] = "admitted" => CredentialOf[q].genuine /\ hasScopes(q)
    PROVE  AccessInv' /\ \A q \in Requests : auth[q] \in {"new", "admitted"} => auth'[q] = auth[q]
<1> USE DEF verificationFingerprint
<1>1. /\ r \in Sharers(r) /\ Sharers(r) \subseteq Requests
      /\ \A q \in Sharers(r) : auth[q] \in {"deriving", "alone", "sharing"}
      /\ \A q \in Requests : auth[r] = "deriving" /\ auth[q] = "sharing" /\ CredentialOf[q] = CredentialOf[r]
            => q \in Sharers(r)
      /\ \A q \in Sharers(r) \ {r} : auth[q] = "sharing"
  BY DEF Sharers
<1>2. AuthOK'
  <2>1. ASSUME NEW q \in Requests,
               auth'[q] \in {"found", "deriving", "alone", "sharing", "admitted"}
        PROVE  KeyOf(q) \in DOMAIN keys
    BY <1>1, <2>1 DEF AccessInv, AuthOK
  <2>2. ASSUME NEW q \in Requests, auth'[q] = "admitted"
        PROVE  CredentialOf[q].genuine /\ hasScopes(q)
    BY <1>1, <2>2 DEF AccessInv, AuthOK
  <2> QED
    BY <2>1, <2>2 DEF AuthOK, KeyOf, hasScopes
<1>3. DerivationsOK'
  <2>1. /\ inFlight' \subseteq Prints /\ IsFiniteSet(inFlight') /\ Cardinality(inFlight') <= CacheSize
    <3>1. inFlight' \subseteq inFlight
      OBVIOUS
    <3> QED
      BY <3>1, FS_Subset, FS_CardinalityType, AccessAssumption DEF AccessInv, DerivationsOK
  <2>2. ASSUME NEW q \in Requests, auth'[q] \in {"deriving", "sharing"}
        PROVE  auth[q] = auth'[q] /\ q \notin Sharers(r)
    BY <1>1, <2>2
  <2>3. ASSUME NEW q \in Requests, auth'[q] \in {"deriving", "sharing"}
        PROVE  CredentialOf[q] \in inFlight'
    <3>1. CASE auth[r] = "deriving"
      <4>1. CredentialOf[q] # CredentialOf[r]
        BY <1>1, <2>2, <2>3, <3>1 DEF AccessInv, DerivationsOK
      <4> QED
        BY <2>2, <2>3, <4>1, <3>1 DEF AccessInv, DerivationsOK, Unregistered
    <3>2. CASE auth[r] # "deriving"
      BY <2>2, <2>3, <3>2 DEF AccessInv, DerivationsOK, Unregistered
    <3> QED
      BY <3>1, <3>2
  <2>4. ASSUME NEW print \in inFlight'
        PROVE  \E q \in Requests : auth'[q] = "deriving" /\ CredentialOf[q] = print
    <3>1. PICK q \in Requests : auth[q] = "deriving" /\ CredentialOf[q] = print
      BY <2>4 DEF AccessInv, DerivationsOK
    <3>2. q \notin Sharers(r)
      BY <1>1, <2>4, <3>1 DEF Unregistered
    <3> QED
      BY <3>1, <3>2
  <2> QED
    BY <2>1, <2>2, <2>3, <2>4 DEF AccessInv, DerivationsOK
<1> QED
  BY <1>1, <1>2, <1>3 DEF AccessInv

LEMMA VerifyAndRememberInv ==
    ASSUME AccessInv, NEW r \in Requests, verifyAndRemember(r)
    PROVE  AccessInv' /\ \A q \in Requests : auth[q] \in {"new", "admitted"} => auth'[q] = auth[q]
<1> DEFINE verified == CredentialOf[r].genuine
<1> USE DEF verificationFingerprint
<1>1. /\ auth[r] \in {"deriving", "alone"} /\ verified \in BOOLEAN /\ CredentialOf[r] \in Prints
      /\ cache' = IF verified THEN rememberVerifiedFingerprint(CredentialOf[r]) ELSE cache
      /\ inFlight' = inFlight \ Unregistered(r, verified)
      /\ auth' = [q \in Requests |-> IF q \in Sharers(r) THEN Outcome(q, verified) ELSE auth[q]]
      /\ UNCHANGED <<merchant, keys, rotation, incidents>>
  BY AccessAssumption DEF verifyAndRemember, Prints
<1>2. Remembers(cache')
  BY <1>1, RememberSound DEF AccessInv
<1>3. KeysOK' /\ Succeeded'
  BY <1>1 DEF AccessInv, KeysOK, Succeeded
<1>4. \A q \in Sharers(r) : /\ q \in Requests
                            /\ CredentialOf[q] = CredentialOf[r]
                            /\ auth'[q] \in {"admitted", "unauthorized", "forbidden"}
                            /\ auth'[q] = "admitted" => verified /\ hasScopes(q)
  BY <1>1, OutcomeSound DEF Sharers
<1>5. auth' \in [Requests -> AuthStates]
  <2>1. auth \in [Requests -> AuthStates]
    BY DEF AccessInv, AuthOK
  <2>2. \A q \in Requests : (IF q \in Sharers(r) THEN Outcome(q, verified) ELSE auth[q]) \in AuthStates
    BY <1>1, <2>1, OutcomeSound DEF AuthStates
  <2> QED
    BY <1>1, <2>2
<1>6. \A q \in Sharers(r) : /\ auth'[q] \in {"admitted", "unauthorized", "forbidden", "failed"}
                            /\ auth'[q] = "admitted" => CredentialOf[q].genuine /\ hasScopes(q)
  BY <1>4
<1>7. \A q \in Requests \ Sharers(r) : auth'[q] = auth[q]
  BY <1>1
<1> HIDE DEF verified
<1> QED
  BY <1>1, <1>2, <1>3, <1>5, <1>6, <1>7, DerivedInv

LEMMA DerivationFailsInv ==
    ASSUME AccessInv, NEW r \in Requests, DerivationFails(r)
    PROVE  AccessInv' /\ \A q \in Requests : auth[q] \in {"new", "admitted"} => auth'[q] = auth[q]
<1>1. /\ auth[r] \in {"deriving", "alone"} /\ Incident
      /\ inFlight' = inFlight \ Unregistered(r, FALSE)
      /\ auth' = [q \in Requests |-> IF q \in Sharers(r) THEN "failed" ELSE auth[q]]
      /\ UNCHANGED <<merchant, keys, cache, rotation>>
  BY DEF DerivationFails
<1>2. Remembers(cache') /\ KeysOK' /\ Succeeded'
  BY <1>1, IncidentCounted DEF AccessInv, KeysOK, Succeeded, Remembers
<1>3. \A q \in Sharers(r) : q \in Requests /\ auth'[q] = "failed"
  BY <1>1 DEF Sharers
<1>4. auth' \in [Requests -> AuthStates]
  <2>1. auth \in [Requests -> AuthStates] /\ "failed" \in AuthStates
    BY DEF AccessInv, AuthOK, AuthStates
  <2> QED
    BY <1>1, <2>1
<1>5. \A q \in Requests \ Sharers(r) : auth'[q] = auth[q]
  BY <1>1
<1> QED
  BY <1>1, <1>2, <1>3, <1>4, <1>5, DerivedInv

LEMMA ExpiresInv ==
    ASSUME AccessInv, NEW i \in DOMAIN cache, EntryExpires(i)
    PROVE  AccessInv' /\ UNCHANGED <<keys, auth>>
<1>1. /\ cache' = [cache EXCEPT ![i].fresh = FALSE] /\ Incident
      /\ UNCHANGED <<merchant, keys, inFlight, auth, rotation>>
  BY DEF EntryExpires
<1>2. Remembers(cache')
  <2>1. /\ \A n \in DOMAIN cache : cache'[n] = IF n = i THEN [cache[i] EXCEPT !.fresh = FALSE] ELSE cache[n]
        /\ \A n \in DOMAIN cache : cache[n] \in Entries
    BY <1>1 DEF AccessInv, Remembers
  <2>2. [cache[i] EXCEPT !.fresh = FALSE] \in Entries /\ [cache[i] EXCEPT !.fresh = FALSE].print = cache[i].print
    BY <2>1 DEF Entries
  <2>3. /\ cache' \in Seq(Entries) /\ Len(cache') = Len(cache)
        /\ \A n \in DOMAIN cache : cache'[n].print = cache[n].print
    BY <1>1, <2>1, <2>2 DEF AccessInv, Remembers
  <2> QED
    BY <2>3 DEF AccessInv, Remembers
<1>3. KeysOK' /\ Succeeded' /\ AuthOK'
  BY <1>1, IncidentCounted DEF AccessInv, KeysOK, Succeeded, AuthOK, KeyOf, hasScopes
<1>4. DerivationsOK'
  BY <1>1 DEF AccessInv, DerivationsOK
<1> QED
  BY <1>1, <1>2, <1>3, <1>4 DEF AccessInv

\* The steps of a verification, together.
LEMMA AuthStepInv ==
    ASSUME AccessInv, NEW r \in Requests, verify(r) \/ verifyAndRemember(r) \/ DerivationFails(r)
    PROVE  AccessInv' /\ AccessKeeps
<1>1. keys' = keys /\ Len(keys) \in Nat /\ auth \in [Requests -> AuthStates]
  <2>1. keys' = keys
    BY DEF verify, verifyAndRemember, DerivationFails
  <2>2. keys \in Seq(ApiKeys) /\ auth \in [Requests -> AuthStates]
    BY DEF AccessInv, KeysOK, AuthOK
  <2> QED
    BY <2>1, <2>2
<1>2. AccessInv' /\ \A q \in Requests : /\ auth[q] # "new" => auth'[q] # "new"
                                        /\ auth[q] = "admitted" => auth'[q] = "admitted"
  <2>1. CASE verify(r)
    <3>1. auth[r] = "found" /\ auth'[r] # "new"
      BY <1>1, <2>1, OutcomeSound DEF verify
    <3> QED
      BY <2>1, <3>1, VerifyInv
  <2>2. CASE verifyAndRemember(r)
    <3>1. auth' = [q \in Requests |-> IF q \in Sharers(r) THEN Outcome(q, CredentialOf[r].genuine) ELSE auth[q]]
      BY <2>2 DEF verifyAndRemember
    <3>2. CredentialOf[r].genuine \in BOOLEAN
      BY AccessAssumption
    <3>3. \A q \in Requests : Outcome(q, CredentialOf[r].genuine) # "new"
      BY <3>2, OutcomeSound
    <3>4. \A q \in Requests : auth[q] # "new" => auth'[q] # "new"
      BY <3>1, <3>3
    <3>5. AccessInv' /\ \A q \in Requests : auth[q] \in {"new", "admitted"} => auth'[q] = auth[q]
      BY <2>2, VerifyAndRememberInv
    <3> QED
      BY <3>4, <3>5
  <2>3. CASE DerivationFails(r)
    <3>1. auth' = [q \in Requests |-> IF q \in Sharers(r) THEN "failed" ELSE auth[q]]
      BY <2>3 DEF DerivationFails
    <3>2. AccessInv' /\ \A q \in Requests : auth[q] \in {"new", "admitted"} => auth'[q] = auth[q]
      BY <2>3, DerivationFailsInv
    <3> QED
      BY <3>1, <3>2
  <2> QED
    BY <2>1, <2>2, <2>3
<1>3. Len(keys) <= Len(keys') /\ \A k \in DOMAIN keys : keys'[k] = keys[k]
  BY <1>1
<1> QED
  BY <1>2, <1>3 DEF AccessKeeps

(***************************************************************************)
(* Endpoints and their commands.                                           *)
(***************************************************************************)
Secrets == [version : Nat, life : {"current", "previous", "retired"}, overlap : {"none", "open", "ended"}]

EndpointsTyped ==
    endpoint \in [E!Endpoints -> [version : Int, status : {endpoint[e].status : e \in E!Endpoints},
                                  subscriptions : {endpoint[e].subscriptions : e \in E!Endpoints},
                                  secrets : Seq(Secrets)]]

CommandsTyped ==
    command \in [Requests ->
        [at : {"sent", "versionRead", "candidate", "committed", "answered"}, expected : Int,
         secretVersion : Nat, reply : {command[r].reply : r \in Requests},
         etag : {command[r].etag : r \in Requests}]]

\* The last secret is current, the one before it previous, every other retired.
SecretsOK(secrets) ==
    \A i \in DOMAIN secrets :
        /\ secrets[i].version = i
        /\ (secrets[i].life = "current") = (i = Len(secrets))
        /\ (secrets[i].life = "previous") = (i = Len(secrets) - 1)
        /\ secrets[i].life = "previous" => secrets[i].overlap \in {"open", "ended"}

About(A, e) == {a \in A : a.endpoint = e}
AuthorsOf(A, e, v) == {a.request : a \in {b \in About(A, e) : b.version = v}}
SecretsMade(A, e) == {a \in About(A, e) : a.action \in {"created", "secret_rotated"}}

\* The audit records A tell the v versions of e, each by one request, which
\* had read the version before it.
Told(A, e, v, c) ==
    /\ {a.version : a \in About(A, e)} = 0..v
    /\ \A n \in 1..v : \E r \in Requests : AuthorsOf(A, e, n) = {r} /\ c[r].expected = n - 1

HistoryOK(e) ==
    /\ endpoint[e].version >= -1
    /\ Told(audits, e, endpoint[e].version, command)
    /\ SecretsOK(endpoint[e].secrets)
    /\ IsFiniteSet(SecretsMade(audits, e))
    /\ Cardinality(SecretsMade(audits, e)) = Len(endpoint[e].secrets)

AuditsOK ==
    \A a \in audits : a.request \in Requests =>
        /\ CredentialOf[a.request] = [key |-> a.key, genuine |-> TRUE]
        /\ a.key \in DOMAIN keys
        /\ keys[a.key].merchant = a.endpoint[1]
        /\ Needs[a.request] \subseteq keys[a.key].scopes

Unrecorded(r) == \A a \in audits : a.request # r

\* A command that has changed nothing yet is not in the audit trail, and a
\* rotation knows the number of its secret as long as its version is current.
CommandOK(r) ==
    /\ auth[r] = "new" => command[r].at = "sent"
    /\ command[r].at \in {"versionRead", "candidate", "committed"} => auth[r] = "admitted"
    /\ command[r].at \in {"sent", "versionRead", "candidate"} => Unrecorded(r)
    /\ command[r].at \in {"versionRead", "candidate"} =>
          /\ 0 <= command[r].expected
          /\ command[r].expected <= endpoint[E!Named(r)].version
          /\ keys[KeyOf(r)].merchant = E!Named(r)[1]
    /\ command[r].at = "candidate" /\ command[r].expected = endpoint[E!Named(r)].version =>
          command[r].secretVersion = Len(endpoint[E!Named(r)].secrets) + 1
    /\ command[r].at = "committed" => command[r].reply \in {200, 201}
    /\ command[r].at = "answered" /\ command[r].reply \in 400..499 => Unrecorded(r)

ControlInv ==
    /\ AccessInv
    /\ EndpointsTyped /\ CommandsTyped
    /\ \A e \in E!Endpoints : HistoryOK(e)
    /\ AuditsOK
    /\ \A r \in Requests : CommandOK(r)

LEMMA ControlInitInv == ControlInit => ControlInv
<1> SUFFICES ASSUME ControlInit PROVE ControlInv
  OBVIOUS
<1>1. AccessInv
  BY AccessInitInv DEF ControlInit
<1> DEFINE first == [version |-> 1, life |-> "current", overlap |-> "none"]
           record(e) == [request |-> "registration", key |-> 0, action |-> "created",
                         endpoint |-> e, version |-> 0]
<1>2. /\ endpoint = [e \in E!Endpoints |->
             IF e \in Registered
             THEN [version |-> 0, status |-> "active", subscriptions |-> E!Subscriptions, secrets |-> <<first>>]
             ELSE [version |-> -1, status |-> "absent", subscriptions |-> {}, secrets |-> <<>>]]
      /\ audits = {record(e) : e \in Registered}
      /\ command = [r \in Requests |-> [at |-> "sent", expected |-> -1, secretVersion |-> 0,
                                        reply |-> 0, etag |-> -1]]
      /\ auth = [r \in Requests |-> "new"]
  BY DEF ControlInit, AccessInit, E!EndpointInit, E!Absent
<1>3. first \in Secrets /\ <<first>> \in Seq(Secrets) /\ <<>> \in Seq(Secrets)
      /\ Len(<<first>>) = 1 /\ <<first>>[1] = first
  BY DEF Secrets
<1>4. EndpointsTyped
  BY <1>2, <1>3 DEF EndpointsTyped
<1>5. CommandsTyped
  BY <1>2 DEF CommandsTyped
<1>6. ASSUME NEW e \in E!Endpoints PROVE HistoryOK(e)
  <2>1. CASE e \in Registered
    <3>1. /\ endpoint[e].version = 0 /\ endpoint[e].secrets = <<first>>
          /\ About(audits, e) = {record(e)}
      BY <1>2, <2>1 DEF About
    <3>2. SecretsMade(audits, e) = {record(e)}
      BY <3>1 DEF SecretsMade
    <3>3. Told(audits, e, 0, command)
      BY <3>1 DEF Told
    <3>4. SecretsOK(<<first>>)
      BY <1>3 DEF SecretsOK
    <3> HIDE DEF record, first
    <3> QED
      BY <1>3, <3>1, <3>2, <3>3, <3>4, FS_Singleton DEF HistoryOK
  <2>2. CASE e \notin Registered
    <3>1. /\ endpoint[e].version = -1 /\ endpoint[e].secrets = <<>>
          /\ About(audits, e) = {}
      BY <1>2, <2>2 DEF About
    <3>2. SecretsMade(audits, e) = {}
      BY <3>1 DEF SecretsMade
    <3> QED
      BY <3>1, <3>2, FS_EmptySet DEF HistoryOK, Told, SecretsOK
  <2> QED
    BY <2>1, <2>2
<1>7. \A a \in audits : a.request = "registration"
  BY <1>2
<1>8. AuditsOK
  BY <1>7, ControlAssumption DEF AuditsOK
<1>9. \A r \in Requests : CommandOK(r)
  BY <1>2, <1>7, ControlAssumption DEF CommandOK, Unrecorded
<1> QED
  BY <1>1, <1>4, <1>5, <1>6, <1>8, <1>9 DEF ControlInv
\* One command moves on; what it saw of its endpoint stays, unless it had
\* changed nothing.
Moved(r) ==
    /\ CommandsTyped'
    /\ \A q \in Requests \ {r} : command'[q] = command[q]
    /\ command'[r].expected = command[r].expected \/ Unrecorded(r)

\* No version of an endpoint is made.
SameHistory ==
    /\ EndpointsTyped' /\ audits' = audits
    /\ \A e \in E!Endpoints : /\ endpoint'[e].version = endpoint[e].version
                              /\ Len(endpoint'[e].secrets) = Len(endpoint[e].secrets)
                              /\ SecretsOK(endpoint'[e].secrets)

\* Told depends on the expected versions of the recorded requests only.
LEMMA ToldStays ==
    ASSUME ControlInv, NEW r \in Requests, Moved(r), NEW e \in E!Endpoints, NEW v, Told(audits, e, v, command)
    PROVE  Told(audits, e, v, command')
<1>1. ASSUME NEW n \in 1..v, NEW q \in Requests, AuthorsOf(audits, e, n) = {q}
      PROVE  command'[q].expected = command[q].expected
  <2>1. CASE q = r
    <3>1. ~Unrecorded(r)
      BY <1>1, <2>1 DEF Unrecorded, AuthorsOf, About
    <3> QED
      BY <2>1, <3>1 DEF Moved
  <2>2. CASE q # r
    BY <2>2 DEF Moved
  <2> QED
    BY <2>1, <2>2
<1> QED
  BY <1>1 DEF Told

\* The commands of the other requests are none the worse for a step that keeps
\* the versions and secrets of their endpoints, or makes a later version.
LEMMA OthersStay ==
    ASSUME ControlInv, AccessKeeps, NEW q \in Requests, command'[q] = command[q],
           \A a \in audits' \ audits : a.request # q,
           EndpointsTyped, EndpointsTyped',
           NEW e, e = E!Named(q), e \in E!Endpoints,
           \/ /\ endpoint'[e].version = endpoint[e].version
              /\ Len(endpoint'[e].secrets) = Len(endpoint[e].secrets)
           \/ endpoint'[e].version > endpoint[e].version
    PROVE  CommandOK(q)'
<1>1. CommandOK(q) /\ auth \in [Requests -> AuthStates]
  BY DEF ControlInv, AccessInv, AuthOK
<1>2. auth[q] = "admitted" => KeyOf(q) \in DOMAIN keys
  BY DEF ControlInv, AccessInv, AuthOK
<1>3. /\ auth'[q] = "new" => auth[q] = "new"
      /\ auth[q] = "admitted" => auth'[q] = "admitted" /\ keys'[KeyOf(q)].merchant = keys[KeyOf(q)].merchant
  BY <1>2 DEF AccessKeeps
<1>4. Unrecorded(q) => Unrecorded(q)'
  BY DEF Unrecorded
<1>5. endpoint[e].version \in Int /\ endpoint'[e].version \in Int /\ command[q].expected \in Int
  BY DEF EndpointsTyped, CommandsTyped, ControlInv
<1>6. /\ command'[q].at = command[q].at /\ command'[q].expected = command[q].expected
      /\ command'[q].reply = command[q].reply /\ command'[q].secretVersion = command[q].secretVersion
  OBVIOUS
<1>7. /\ auth'[q] = "new" => command'[q].at = "sent"
      /\ command'[q].at \in {"versionRead", "candidate", "committed"} => auth'[q] = "admitted"
      /\ command'[q].at \in {"sent", "versionRead", "candidate"} => Unrecorded(q)'
      /\ command'[q].at = "committed" => command'[q].reply \in {200, 201}
      /\ command'[q].at = "answered" /\ command'[q].reply \in 400..499 => Unrecorded(q)'
  BY <1>1, <1>3, <1>4, <1>6 DEF CommandOK
<1>8. command'[q].at \in {"versionRead", "candidate"} =>
          /\ 0 <= command'[q].expected
          /\ command'[q].expected <= endpoint'[e].version
          /\ keys'[KeyOf(q)].merchant = e[1]
  BY <1>1, <1>3, <1>5, <1>6 DEF CommandOK
<1>9. command'[q].at = "candidate" /\ command'[q].expected = endpoint'[e].version =>
          command'[q].secretVersion = Len(endpoint'[e].secrets) + 1
  BY <1>1, <1>5, <1>6 DEF CommandOK
<1> QED
  BY <1>7, <1>8, <1>9 DEF CommandOK, E!Named, KeyOf

LEMMA NamedTyped == \A r \in Requests : E!Named(r) \in E!Endpoints /\ E!Named(r) = Command[r].endpoint
  BY ControlAssumption DEF E!Named

LEMMA AuditsStay ==
    ASSUME ControlInv, AccessInv', AccessKeeps, NEW a \in audits, a.request \in Requests
    PROVE  /\ CredentialOf[a.request] = [key |-> a.key, genuine |-> TRUE]
           /\ a.key \in DOMAIN keys'
           /\ keys'[a.key].merchant = a.endpoint[1]
           /\ Needs[a.request] \subseteq keys'[a.key].scopes
<1>1. /\ a.key \in DOMAIN keys
      /\ CredentialOf[a.request] = [key |-> a.key, genuine |-> TRUE]
      /\ keys[a.key].merchant = a.endpoint[1]
      /\ Needs[a.request] \subseteq keys[a.key].scopes
  BY DEF ControlInv, AuditsOK
<1>2. keys'[a.key].merchant = keys[a.key].merchant /\ keys'[a.key].scopes = keys[a.key].scopes
  BY <1>1 DEF AccessKeeps
<1>3. DOMAIN keys \subseteq DOMAIN keys'
  BY DEF ControlInv, AccessInv, KeysOK, AccessKeeps
<1> QED
  BY <1>1, <1>2, <1>3

\* A step that makes no version of any endpoint.
LEMMA QuietStep ==
    ASSUME ControlInv, AccessInv', AccessKeeps, SameHistory,
           NEW r \in Requests, Moved(r), CommandOK(r)'
    PROVE  ControlInv'
<1>1. EndpointsTyped' /\ CommandsTyped' /\ audits' = audits
  BY DEF SameHistory, Moved
<1>2. ASSUME NEW e \in E!Endpoints PROVE HistoryOK(e)'
  <2>1. HistoryOK(e) /\ endpoint'[e].version = endpoint[e].version
    BY DEF ControlInv, SameHistory
  <2>2. Told(audits, e, endpoint[e].version, command')
    BY <2>1, ToldStays DEF HistoryOK
  <2>3. Told(audits, e, endpoint[e].version, command)'
    BY <1>1, <2>1, <2>2
  <2> QED
    BY <1>1, <2>1, <2>3 DEF HistoryOK, SameHistory
<1>3. AuditsOK'
  BY <1>1, AuditsStay DEF AuditsOK
<1>4. ASSUME NEW q \in Requests \ {r} PROVE CommandOK(q)'
  BY <1>1, NamedTyped, OthersStay DEF Moved, SameHistory, ControlInv
<1> QED
  BY <1>1, <1>2, <1>3, <1>4 DEF ControlInv
(***************************************************************************)
(* The command of a request, and a version it makes.                       *)
(***************************************************************************)
LEMMA CommandSet ==
    ASSUME CommandsTyped, NEW r \in Requests, NEW new,
           new \in [at : {"sent", "versionRead", "candidate", "committed", "answered"}, expected : Int,
                    secretVersion : Nat, reply : {new.reply}, etag : {new.etag}],
           command' = [command EXCEPT ![r] = new]
    PROVE  /\ CommandsTyped' /\ command'[r] = new
           /\ \A q \in Requests \ {r} : command'[q] = command[q]
<1>1. command'[r] = new /\ \A q \in Requests \ {r} : command'[q] = command[q]
  BY DEF CommandsTyped
<1>2. \A q \in Requests : command'[q] \in
          [at : {"sent", "versionRead", "candidate", "committed", "answered"}, expected : Int,
           secretVersion : Nat, reply : {command'[p].reply : p \in Requests},
           etag : {command'[p].etag : p \in Requests}]
  BY <1>1 DEF CommandsTyped
<1> QED
  BY <1>1, <1>2 DEF CommandsTyped

SetsAnswered(r, reply) == command' = [command EXCEPT ![r].at = "answered", ![r].reply = reply]

LEMMA CommandAnswered ==
    ASSUME CommandsTyped, NEW r \in Requests, NEW reply, SetsAnswered(r, reply)
    PROVE  /\ Moved(r) /\ command'[r].expected = command[r].expected
           /\ command'[r].at = "answered" /\ command'[r].reply = reply
<1> DEFINE new == [command[r] EXCEPT !.at = "answered", !.reply = reply]
<1>1. command' = [command EXCEPT ![r] = new]
  BY DEF CommandsTyped, SetsAnswered
<1>2. /\ new \in [at : {"sent", "versionRead", "candidate", "committed", "answered"}, expected : Int,
                 secretVersion : Nat, reply : {new.reply}, etag : {new.etag}]
      /\ new.at = "answered" /\ new.reply = reply /\ new.expected = command[r].expected
  BY DEF CommandsTyped
<1> HIDE DEF new
<1> QED
  BY <1>1, <1>2, CommandSet DEF Moved

SetsCommitted(r, at, reply, etag) ==
    command' = [command EXCEPT ![r].at = at, ![r].reply = reply, ![r].etag = etag]

LEMMA CommandCommitted ==
    ASSUME CommandsTyped, NEW r \in Requests, NEW at \in {"committed", "answered"}, NEW reply, NEW etag,
           SetsCommitted(r, at, reply, etag)
    PROVE  /\ Moved(r) /\ command'[r].expected = command[r].expected
           /\ command'[r].at = at /\ command'[r].reply = reply
<1> DEFINE new == [command[r] EXCEPT !.at = at, !.reply = reply, !.etag = etag]
<1>1. command' = [command EXCEPT ![r] = new]
  BY DEF CommandsTyped, SetsCommitted
<1>2. /\ new \in [at : {"sent", "versionRead", "candidate", "committed", "answered"}, expected : Int,
                 secretVersion : Nat, reply : {new.reply}, etag : {new.etag}]
      /\ new.at = at /\ new.reply = reply /\ new.expected = command[r].expected
  BY DEF CommandsTyped
<1> HIDE DEF new
<1> QED
  BY <1>1, <1>2, CommandSet DEF Moved

LEMMA RefuseMoves ==
    ASSUME CommandsTyped, NEW r \in Requests, NEW error, E!Refuse(r, error)
    PROVE  Moved(r) /\ command'[r].at = "answered" /\ UNCHANGED <<endpoint, audits>>
<1>1. SetsAnswered(r, E!descriptor[error]) /\ UNCHANGED <<endpoint, audits>>
  BY DEF E!Refuse, SetsAnswered
<1> QED
  BY <1>1, CommandAnswered

LEMMA LostAnswer == E!descriptor["DatabaseUnavailableError"] = 503
  BY DEF E!descriptor, E!UnavailableProblems

LEMMA CommittedMoves ==
    ASSUME CommandsTyped, NEW r \in Requests, NEW status \in {200, 201}, NEW version,
           E!Committed(r, status, version)
    PROVE  /\ Moved(r) /\ command'[r].expected = command[r].expected
           /\ \/ command'[r].at = "committed" /\ command'[r].reply \in {200, 201}
              \/ command'[r].at = "answered" /\ command'[r].reply = 503
<1>1. CASE command' = [command EXCEPT ![r].at = "committed", ![r].reply = status, ![r].etag = version]
  <2>1. SetsCommitted(r, "committed", status, version)
    BY <1>1 DEF SetsCommitted
  <2> QED
    BY <2>1, CommandCommitted
<1>2. CASE command' = [command EXCEPT ![r].at = "answered",
                                      ![r].reply = E!descriptor["DatabaseUnavailableError"]]
  <2>1. SetsAnswered(r, 503)
    BY <1>2, LostAnswer DEF SetsAnswered
  <2> QED
    BY <2>1, CommandAnswered
<1> QED
  BY <1>1, <1>2 DEF E!Committed

\* A request whose command is over is none the worse for its own step.
LEMMA OverOK ==
    ASSUME NEW r \in Requests, auth'[r] # "new",
           command'[r].at = "committed" => auth'[r] = "admitted",
           \/ command'[r].at = "committed" /\ command'[r].reply \in {200, 201}
           \/ command'[r].at = "answered" /\ (command'[r].reply \in {200, 201, 503} \/ Unrecorded(r)')
    PROVE  CommandOK(r)'
<1>1. CASE command'[r].at = "committed" /\ command'[r].reply \in {200, 201}
  BY <1>1 DEF CommandOK, E!Named, KeyOf
<1>2. CASE command'[r].at = "answered" /\ Unrecorded(r)'
  BY <1>2 DEF CommandOK, E!Named, KeyOf
<1>3. CASE command'[r].at = "answered" /\ command'[r].reply \in {200, 201, 503}
  <2>1. command'[r].reply \notin 400..499
    BY <1>3
  <2> QED
    BY <1>3, <2>1 DEF CommandOK, E!Named, KeyOf
<1> QED
  BY <1>1, <1>2, <1>3

Record(r, k, a, e, v) == [request |-> r, key |-> k, action |-> a, endpoint |-> e, version |-> v]

\* Records of one request tell the version after the last one told.
LEMMA ToldGrows ==
    ASSUME NEW A, NEW B, B # {}, NEW e, NEW v \in Int, v >= -1, NEW c, Told(A, e, v, c),
           NEW r \in Requests, v = -1 \/ c[r].expected = v,
           \A b \in B : b.request = r /\ b.endpoint = e /\ b.version = v + 1
    PROVE  Told(A \cup B, e, v + 1, c)
<1>1. About(A \cup B, e) = About(A, e) \cup B
  BY DEF About
<1>2. \A a \in About(A, e) : a.version \in 0..v
  BY DEF Told
<1>3. {a.version : a \in About(A \cup B, e)} = 0..(v + 1)
  <2>1. {a.version : a \in About(A \cup B, e)} = (0..v) \cup {v + 1}
    BY <1>1 DEF Told
  <2>2. (0..v) \cup {v + 1} = 0..(v + 1)
    OBVIOUS
  <2> QED
    BY <2>1, <2>2
<1>4. ASSUME NEW n \in 1..v PROVE AuthorsOf(A \cup B, e, n) = AuthorsOf(A, e, n)
  <2>1. n # v + 1
    OBVIOUS
  <2>2. \A b \in B : b.version # n
    BY <2>1
  <2> QED
    BY <1>1, <2>2 DEF AuthorsOf
<1>5. AuthorsOf(A \cup B, e, v + 1) = {r}
  <2>1. \A a \in About(A, e) : a.version # v + 1
    BY <1>2
  <2>2. {a \in About(A \cup B, e) : a.version = v + 1} = B
    BY <1>1, <2>1
  <2> QED
    BY <2>2 DEF AuthorsOf
<1>6. ASSUME NEW n \in 1..(v + 1)
      PROVE  \E q \in Requests : AuthorsOf(A \cup B, e, n) = {q} /\ c[q].expected = n - 1
  <2>1. CASE n \in 1..v
    BY <2>1, <1>4 DEF Told
  <2>2. CASE n = v + 1
    <3>1. c[r].expected = n - 1
      BY <2>2
    <3> QED
      BY <2>2, <3>1, <1>5
  <2>3. n \in 1..v \/ n = v + 1
    OBVIOUS
  <2> QED
    BY <2>1, <2>2, <2>3
<1> QED
  BY <1>3, <1>6 DEF Told

\* Two actions make a secret, and nothing else comes with them.
SecretAdded(actions, before, after) ==
    \/ actions \cap {"created", "secret_rotated"} = {} /\ after = before
    \/ actions \in {{"created"}, {"secret_rotated"}} /\ after = before + 1

\* A step that makes the next version of one endpoint.
LEMMA ChangeStep ==
    ASSUME ControlInv, UNCHANGED accessVars, NEW r \in Requests, auth[r] = "admitted",
           NEW e, e = E!Named(r), keys[KeyOf(r)].merchant = e[1],
           Unrecorded(r), Moved(r), CommandOK(r)',
           endpoint[e].version = -1 \/ command'[r].expected = endpoint[e].version,
           NEW actions, actions # {},
           audits' = audits \cup {Record(r, KeyOf(r), a, e, endpoint[e].version + 1) : a \in actions},
           EndpointsTyped', \A x \in E!Endpoints \ {e} : endpoint'[x] = endpoint[x],
           endpoint'[e].version = endpoint[e].version + 1,
           SecretsOK(endpoint'[e].secrets),
           SecretAdded(actions, Len(endpoint[e].secrets), Len(endpoint'[e].secrets))
    PROVE  ControlInv'
<1> DEFINE made == {Record(r, KeyOf(r), a, e, endpoint[e].version + 1) : a \in actions}
<1>1. /\ e \in E!Endpoints /\ HistoryOK(e) /\ EndpointsTyped /\ CommandsTyped
      /\ endpoint[e].version \in Int /\ endpoint[e].version >= -1
      /\ Len(endpoint[e].secrets) \in Nat
  <2>1. e \in E!Endpoints /\ HistoryOK(e) /\ EndpointsTyped /\ CommandsTyped
    BY NamedTyped DEF ControlInv
  <2>2. endpoint[e].version \in Int /\ endpoint[e].secrets \in Seq(Secrets)
    BY <2>1 DEF EndpointsTyped
  <2> QED
    BY <2>1, <2>2 DEF HistoryOK
<1>2. /\ \A b \in made : /\ b.request = r /\ b.key = KeyOf(r) /\ b.endpoint = e
                         /\ b.version = endpoint[e].version + 1 /\ b.action \in actions
      /\ made # {}
  <2>1. \A b \in made : \E a \in actions : b = Record(r, KeyOf(r), a, e, endpoint[e].version + 1)
    OBVIOUS
  <2>2. \A a \in actions : Record(r, KeyOf(r), a, e, endpoint[e].version + 1) \in made
    OBVIOUS
  <2>3. made # {}
    BY <2>2
  <2> QED
    BY <2>1, <2>3 DEF Record
<1>3. AccessInv' /\ AccessKeeps
  <2>1. AccessInv /\ Len(keys) \in Nat
    BY DEF ControlInv, AccessInv, KeysOK
  <2>2. AccessInv'
    BY <2>1 DEF accessVars, AccessInv, KeysOK, Succeeded, AuthOK, Remembers, DerivationsOK, hasScopes, KeyOf
  <2> QED
    BY <2>1, <2>2 DEF AccessKeeps, accessVars
<1>4. \A a \in audits : a \notin made
  BY <1>2 DEF Unrecorded
<1>5. HistoryOK(e)'
  <2>1. Told(audits, e, endpoint[e].version, command')
    BY <1>1, ToldStays DEF HistoryOK
  <2>2. Told(audits \cup made, e, endpoint[e].version + 1, command')
    <3> HIDE DEF made
    <3> QED
      BY <1>1, <1>2, <2>1, ToldGrows
  <2>3. Told(audits, e, endpoint[e].version, command)'
    BY <2>2
  <2>4. /\ IsFiniteSet(SecretsMade(audits', e))
        /\ Cardinality(SecretsMade(audits', e)) = Len(endpoint'[e].secrets)
    <3>1. /\ IsFiniteSet(SecretsMade(audits, e))
          /\ Cardinality(SecretsMade(audits, e)) = Len(endpoint[e].secrets)
      BY <1>1 DEF HistoryOK
    <3>2. CASE actions \cap {"created", "secret_rotated"} = {}
      <4>1. SecretsMade(audits', e) = SecretsMade(audits, e)
        BY <1>2, <3>2 DEF SecretsMade, About
      <4>2. Len(endpoint'[e].secrets) = Len(endpoint[e].secrets)
        BY <3>2 DEF SecretAdded
      <4> QED
        BY <3>1, <4>1, <4>2
    <3>3. ASSUME NEW a \in {"created", "secret_rotated"}, actions = {a}
          PROVE  /\ IsFiniteSet(SecretsMade(audits', e))
                 /\ Cardinality(SecretsMade(audits', e)) = Len(endpoint'[e].secrets)
      <4> DEFINE b == Record(r, KeyOf(r), a, e, endpoint[e].version + 1)
      <4>1. made = {b}
        BY <3>3
      <4>2. SecretsMade(audits', e) = SecretsMade(audits, e) \cup {b}
        BY <3>3, <4>1, <1>2 DEF SecretsMade, About, Record
      <4>3. b \notin SecretsMade(audits, e)
        BY <1>4, <4>1 DEF SecretsMade, About
      <4>4. Len(endpoint'[e].secrets) = Len(endpoint[e].secrets) + 1
        BY <3>3 DEF SecretAdded
      <4>5. /\ IsFiniteSet(SecretsMade(audits, e) \cup {b})
            /\ Cardinality(SecretsMade(audits, e) \cup {b}) = Cardinality(SecretsMade(audits, e)) + 1
        <5> HIDE DEF b
        <5> QED
          BY <3>1, <4>3, FS_AddElement
      <4> HIDE DEF b
      <4> QED
        BY <3>1, <4>2, <4>4, <4>5
    <3> QED
      BY <3>2, <3>3 DEF SecretAdded
  <2> QED
    BY <1>1, <2>3, <2>4 DEF HistoryOK
<1>6. ASSUME NEW x \in E!Endpoints \ {e} PROVE HistoryOK(x)'
  <2>1. HistoryOK(x) /\ endpoint'[x] = endpoint[x]
    BY DEF ControlInv
  <2>2. Told(audits, x, endpoint[x].version, command')
    BY <2>1, ToldStays DEF HistoryOK
  <2>3. About(audits', x) = About(audits, x)
    BY <1>2 DEF About
  <2> QED
    BY <2>1, <2>2, <2>3 DEF HistoryOK, Told, AuthorsOf, SecretsMade
<1>7. AuditsOK'
  <2>1. /\ CredentialOf[r] = [key |-> KeyOf(r), genuine |-> TRUE]
        /\ KeyOf(r) \in DOMAIN keys /\ Needs[r] \subseteq keys[KeyOf(r)].scopes
    <3>1. CredentialOf[r].genuine /\ hasScopes(r) /\ KeyOf(r) \in DOMAIN keys
      BY DEF ControlInv, AccessInv, AuthOK
    <3> QED
      BY <3>1, AccessAssumption DEF hasScopes, KeyOf
  <2>2. \A b \in made : /\ CredentialOf[b.request] = [key |-> b.key, genuine |-> TRUE]
                        /\ b.key \in DOMAIN keys'
                        /\ keys'[b.key].merchant = b.endpoint[1]
                        /\ Needs[b.request] \subseteq keys'[b.key].scopes
    BY <1>2, <2>1 DEF accessVars
  <2> QED
    BY <1>3, <2>2, AuditsStay DEF AuditsOK
<1>8. ASSUME NEW q \in Requests \ {r} PROVE CommandOK(q)'
  <2>1. \A a \in audits' \ audits : a.request # q
    BY <1>2
  <2>2. \/ /\ endpoint'[E!Named(q)].version = endpoint[E!Named(q)].version
           /\ Len(endpoint'[E!Named(q)].secrets) = Len(endpoint[E!Named(q)].secrets)
        \/ endpoint'[E!Named(q)].version > endpoint[E!Named(q)].version
    BY <1>1, NamedTyped
  <2> QED
    BY <1>1, <1>3, <2>1, <2>2, NamedTyped, OthersStay DEF Moved
<1> QED
  BY <1>3, <1>5, <1>6, <1>7, <1>8 DEF ControlInv, Moved
LEMMA AccessSame == AccessInv /\ UNCHANGED accessVars => AccessInv' /\ AccessKeeps
<1> SUFFICES ASSUME AccessInv, UNCHANGED accessVars PROVE AccessInv' /\ AccessKeeps
  OBVIOUS
<1>1. Len(keys) \in Nat
  BY DEF AccessInv, KeysOK
<1>2. AccessInv'
  BY DEF accessVars, AccessInv, KeysOK, Succeeded, AuthOK, Remembers, DerivationsOK, hasScopes, KeyOf
<1> QED
  BY <1>1, <1>2 DEF AccessKeeps, accessVars

LEMMA HistorySame == ControlInv /\ UNCHANGED <<endpoint, audits>> => SameHistory
  BY DEF ControlInv, SameHistory, EndpointsTyped, HistoryOK

LEMMA EndpointSet ==
    ASSUME EndpointsTyped, NEW e \in E!Endpoints, NEW new,
           new \in [version : Int, status : {new.status}, subscriptions : {new.subscriptions},
                    secrets : Seq(Secrets)],
           endpoint' = [endpoint EXCEPT ![e] = new]
    PROVE  /\ EndpointsTyped' /\ endpoint'[e] = new
           /\ \A x \in E!Endpoints \ {e} : endpoint'[x] = endpoint[x]
<1>1. endpoint'[e] = new /\ \A x \in E!Endpoints \ {e} : endpoint'[x] = endpoint[x]
  BY DEF EndpointsTyped
<1>2. \A x \in E!Endpoints : endpoint'[x] \in
          [version : Int, status : {endpoint'[y].status : y \in E!Endpoints},
           subscriptions : {endpoint'[y].subscriptions : y \in E!Endpoints}, secrets : Seq(Secrets)]
  BY <1>1 DEF EndpointsTyped
<1> QED
  BY <1>1, <1>2 DEF EndpointsTyped

\* A rotation makes the current secret the previous one.
LEMMA RotateSound ==
    ASSUME NEW secrets \in Seq(Secrets), SecretsOK(secrets)
    PROVE  /\ E!rotateSecret(secrets, Len(secrets) + 1) \in Seq(Secrets)
           /\ Len(E!rotateSecret(secrets, Len(secrets) + 1)) = Len(secrets) + 1
           /\ SecretsOK(E!rotateSecret(secrets, Len(secrets) + 1))
<1> DEFINE older(i) == IF secrets[i].life = "current"
                       THEN [secrets[i] EXCEPT !.life = "previous", !.overlap = "open"]
                       ELSE [secrets[i] EXCEPT !.life = "retired"]
           kept == [i \in DOMAIN secrets |-> older(i)]
           new == [version |-> Len(secrets) + 1, life |-> "current", overlap |-> "none"]
<1>1. \A i \in DOMAIN secrets : secrets[i] \in Secrets
  OBVIOUS
<1>2. \A i \in DOMAIN secrets :
          /\ older(i) \in Secrets /\ older(i).version = secrets[i].version
          /\ older(i).life \in {"previous", "retired"}
          /\ (older(i).life = "previous") = (secrets[i].life = "current")
          /\ older(i).life = "previous" => older(i).overlap = "open"
  BY <1>1 DEF Secrets
<1>3. new \in Secrets /\ new.version = Len(secrets) + 1 /\ new.life = "current"
  BY DEF Secrets
<1> HIDE DEF older, new
<1>4. kept \in Seq(Secrets) /\ Len(kept) = Len(secrets) /\ \A i \in DOMAIN secrets : kept[i] = older(i)
  BY <1>2
<1> HIDE DEF kept
<1>5. /\ Append(kept, new) \in Seq(Secrets) /\ Len(Append(kept, new)) = Len(secrets) + 1
      /\ \A i \in DOMAIN secrets : Append(kept, new)[i] = older(i)
      /\ Append(kept, new)[Len(secrets) + 1] = new
      /\ DOMAIN Append(kept, new) = 1..(Len(secrets) + 1)
  BY <1>3, <1>4
<1>6. E!rotateSecret(secrets, Len(secrets) + 1) = Append(kept, new)
  BY DEF E!rotateSecret, kept, older, new
<1>7. ASSUME NEW i \in 1..(Len(secrets) + 1)
      PROVE  /\ Append(kept, new)[i].version = i
             /\ (Append(kept, new)[i].life = "current") = (i = Len(secrets) + 1)
             /\ (Append(kept, new)[i].life = "previous") = (i = Len(secrets))
             /\ Append(kept, new)[i].life = "previous" => Append(kept, new)[i].overlap \in {"open", "ended"}
  <2>1. CASE i = Len(secrets) + 1
    BY <1>3, <1>5, <2>1
  <2>2. CASE i # Len(secrets) + 1
    <3>1. i \in DOMAIN secrets /\ Append(kept, new)[i] = older(i)
      BY <1>5, <2>2
    <3> QED
      BY <1>2, <2>2, <3>1 DEF SecretsOK
  <2> QED
    BY <2>1, <2>2
<1> QED
  BY <1>5, <1>6, <1>7 DEF SecretsOK

(***************************************************************************)
(* The operations.                                                         *)
(***************************************************************************)
LEMMA RefusalStep ==
    ASSUME ControlInv, AccessInv', AccessKeeps, NEW r \in Requests, auth[r] # "new",
           command[r].at \in {"sent", "versionRead", "candidate"}, NEW error, E!Refuse(r, error)
    PROVE  ControlInv'
<1>1. Moved(r) /\ command'[r].at = "answered" /\ UNCHANGED <<endpoint, audits>>
  BY RefuseMoves DEF ControlInv
<1>2. Unrecorded(r)' /\ auth'[r] # "new"
  BY <1>1 DEF ControlInv, CommandOK, Unrecorded, AccessKeeps
<1> QED
  BY <1>1, <1>2, OverOK, HistorySame, QuietStep

\* The guard found the key's merchant, and the handler runs.
Served(r) == UNCHANGED accessVars /\ auth[r] = "admitted"

LEMMA ServedFacts ==
    ASSUME ControlInv, NEW r \in Requests, Served(r)
    PROVE  /\ AccessInv' /\ AccessKeeps /\ auth[r] = "admitted" /\ auth'[r] = "admitted"
           /\ EndpointsTyped /\ CommandsTyped /\ CommandOK(r) /\ UNCHANGED accessVars
           /\ E!Named(r) \in E!Endpoints /\ HistoryOK(E!Named(r))
           /\ endpoint[E!Named(r)].version \in Int /\ endpoint[E!Named(r)].version >= -1
           /\ endpoint[E!Named(r)].secrets \in Seq(Secrets)
<1>1. AccessInv /\ EndpointsTyped /\ CommandsTyped /\ CommandOK(r) /\ E!Named(r) \in E!Endpoints
  BY NamedTyped DEF ControlInv
<1>2. HistoryOK(E!Named(r))
  BY <1>1 DEF ControlInv
<1>3. endpoint[E!Named(r)].version \in Int /\ endpoint[E!Named(r)].secrets \in Seq(Secrets)
  BY <1>1 DEF EndpointsTyped
<1> QED
  BY <1>1, <1>2, <1>3, AccessSame DEF Served, accessVars, HistoryOK

LEMMA ChecksInv ==
    ASSUME ControlInv, NEW r \in Requests, Served(r), NEW m, E!Invalid(r) \/ E!NotFound(r, m) \/ E!Unavailable(r)
    PROVE  ControlInv'
<1>1. command[r].at \in {"sent", "versionRead", "candidate"} /\ \E error : E!Refuse(r, error)
  BY DEF E!Invalid, E!NotFound, E!Unavailable
<1> QED
  BY <1>1, ServedFacts, RefusalStep
LEMMA RegisterInv ==
    ASSUME ControlInv, NEW r \in Requests, Served(r),
           E!Register(r, keys[KeyOf(r)].merchant, KeyOf(r))
    PROVE  ControlInv'
<1> DEFINE e == E!Named(r)
           first == [version |-> 1, life |-> "current", overlap |-> "none"]
           actions == {"created"}
           new == [version |-> 0, status |-> "active",
                   subscriptions |-> CHOOSE s \in Command[r].subscriptions : TRUE, secrets |-> <<first>>]
<1>1. command[r].at = "sent" /\ keys[KeyOf(r)].merchant = e[1]
  BY DEF E!Register
<1>2. CASE E!Refuse(r, "WebhookEndpointUrlConflictError")
  BY <1>1, <1>2, ServedFacts, RefusalStep
<1>3. CASE /\ ~E!Exists(e) /\ endpoint' = [endpoint EXCEPT ![e] = new]
           /\ E!Audit(r, KeyOf(r), {"created"}, 0) /\ E!Committed(r, 201, 0)
  <2>1. /\ Moved(r) /\ command'[r].expected = command[r].expected
        /\ \/ command'[r].at = "committed" /\ command'[r].reply \in {200, 201}
           \/ command'[r].at = "answered" /\ command'[r].reply = 503
    BY <1>3, ServedFacts, CommittedMoves
  <2>2. CommandOK(r)'
    BY <2>1, ServedFacts, OverOK
  <2>3. Unrecorded(r)
    BY <1>1, ServedFacts DEF CommandOK
  <2>4. endpoint[e].version = -1 /\ Len(endpoint[e].secrets) = 0
    <3>1. endpoint[e].version = -1
      BY <1>3, ServedFacts DEF E!Exists
    <3>2. About(audits, e) = {}
      BY <3>1, ServedFacts DEF HistoryOK, Told
    <3>3. SecretsMade(audits, e) = {}
      BY <3>2 DEF SecretsMade
    <3> QED
      BY <3>1, <3>3, ServedFacts, FS_EmptySet DEF HistoryOK
  <2>5. /\ first \in Secrets /\ <<first>> \in Seq(Secrets) /\ Len(<<first>>) = 1
        /\ SecretsOK(<<first>>)
    BY DEF Secrets, SecretsOK
  <2>6. /\ new \in [version : Int, status : {new.status}, subscriptions : {new.subscriptions},
                    secrets : Seq(Secrets)]
        /\ new.version = 0 /\ new.secrets = <<first>>
    BY <2>5
  <2> HIDE DEF new, first
  <2>7. /\ EndpointsTyped' /\ endpoint'[e] = new
        /\ \A x \in E!Endpoints \ {e} : endpoint'[x] = endpoint[x]
    BY <1>3, <2>6, ServedFacts, EndpointSet
  <2>8. audits' = audits \cup {Record(r, KeyOf(r), a, e, endpoint[e].version + 1) : a \in actions}
    <3>1. endpoint[e].version + 1 = 0
      BY <2>4
    <3> QED
      BY <1>3, <3>1 DEF E!Audit, Record
  <2>9. /\ endpoint'[e].version = endpoint[e].version + 1 /\ SecretsOK(endpoint'[e].secrets)
        /\ Len(endpoint'[e].secrets) = Len(endpoint[e].secrets) + 1
    BY <2>4, <2>5, <2>6, <2>7
  <2>10. actions # {} /\ SecretAdded(actions, Len(endpoint[e].secrets), Len(endpoint'[e].secrets))
    BY <2>9 DEF SecretAdded
  <2>11. endpoint[e].version = -1 \/ command'[r].expected = endpoint[e].version
    BY <2>4
  <2> HIDE DEF e, actions
  <2> QED
    BY <1>1, <2>1, <2>2, <2>3, <2>7, <2>8, <2>9, <2>10, <2>11, ChangeStep DEF Served, e
<1> QED
  BY <1>2, <1>3 DEF E!Register

LEMMA GetInv ==
    ASSUME ControlInv, NEW r \in Requests, Served(r), NEW m, E!Get(r, m)
    PROVE  ControlInv'
<1>1. SetsCommitted(r, "answered", 200, endpoint[E!Named(r)].version) /\ UNCHANGED <<endpoint, audits>>
  BY DEF E!Get, SetsCommitted
<1>2. Moved(r) /\ command'[r].at = "answered" /\ command'[r].reply = 200
  BY <1>1, ServedFacts, CommandCommitted
<1> QED
  BY <1>1, <1>2, ServedFacts, OverOK, HistorySame, QuietStep

LEMMA PatchInv ==
    ASSUME ControlInv, NEW r \in Requests, Served(r),
           E!Patch(r, keys[KeyOf(r)].merchant, KeyOf(r))
    PROVE  ControlInv'
<1> DEFINE e == E!Named(r)
           current == endpoint[e]
           status == E!Chosen(Command[r].status, current.status)
           subscriptions == E!Chosen(Command[r].subscriptions, current.subscriptions)
           changes == (IF status # current.status THEN {"status_changed"} ELSE {}) \cup
                      (IF subscriptions # current.subscriptions THEN {"subscriptions_changed"} ELSE {})
           version == IF changes = {} THEN current.version ELSE current.version + 1
           new == [current EXCEPT !.version = version, !.status = status, !.subscriptions = subscriptions]
<1>1. command[r].at = "sent" /\ keys[KeyOf(r)].merchant = e[1]
  BY DEF E!Patch, E!Visible
<1>2. CASE E!Refuse(r, "WebhookEndpointPreconditionFailedError")
  BY <1>1, <1>2, ServedFacts, RefusalStep
<1>3. CASE /\ E!MatchesVersion(r) /\ endpoint' = [endpoint EXCEPT ![e] = new]
           /\ E!Audit(r, KeyOf(r), changes, version) /\ E!Committed(r, 200, version)
  <2>1. /\ Moved(r) /\ command'[r].expected = command[r].expected
        /\ \/ command'[r].at = "committed" /\ command'[r].reply \in {200, 201}
           \/ command'[r].at = "answered" /\ command'[r].reply = 503
    BY <1>3, ServedFacts, CommittedMoves
  <2>2. CommandOK(r)'
    BY <2>1, ServedFacts, OverOK
  <2>3. Unrecorded(r) /\ command[r].expected = current.version
    BY <1>1, <1>3, ServedFacts DEF CommandOK, E!MatchesVersion
  <2>4. changes \cap {"created", "secret_rotated"} = {} /\ version \in Int
    BY ServedFacts
  <2>5. /\ new \in [version : Int, status : {new.status}, subscriptions : {new.subscriptions},
                    secrets : Seq(Secrets)]
        /\ new.version = version /\ new.secrets = current.secrets
    <3>1. current \in [version : Int, status : {current.status},
                       subscriptions : {current.subscriptions}, secrets : Seq(Secrets)]
      BY ServedFacts DEF EndpointsTyped
    <3> HIDE DEF current, status, subscriptions, version
    <3> QED
      BY <2>4, <3>1
  <2>6. SecretsOK(current.secrets)
    BY ServedFacts DEF HistoryOK
  <2> HIDE DEF new
  <2>7. /\ EndpointsTyped' /\ endpoint'[e] = new
        /\ \A x \in E!Endpoints \ {e} : endpoint'[x] = endpoint[x]
    BY <1>3, <2>5, ServedFacts, EndpointSet
  <2>8. audits' = audits \cup {Record(r, KeyOf(r), a, e, version) : a \in changes}
    BY <1>3 DEF E!Audit, Record
  <2>9. endpoint'[e].version = version /\ endpoint'[e].secrets = current.secrets
    BY <2>5, <2>7
  <2>10. CASE changes = {}
    <3>1. audits' = audits /\ endpoint'[e].version = current.version
      BY <2>8, <2>9, <2>10
    <3>2. SameHistory
      <4>1. \A x \in E!Endpoints : SecretsOK(endpoint[x].secrets)
        BY DEF ControlInv, HistoryOK
      <4> QED
        BY <2>6, <2>7, <2>9, <3>1, <4>1 DEF SameHistory
    <3> QED
      BY <2>1, <2>2, <3>2, ServedFacts, QuietStep
  <2>11. CASE changes # {}
    <3>1. version = endpoint[e].version + 1
      BY <2>11
    <3> HIDE DEF changes, version
    <3>2. audits' = audits \cup {Record(r, KeyOf(r), a, e, endpoint[e].version + 1) : a \in changes}
      BY <2>8, <3>1
    <3>3. /\ endpoint'[e].version = endpoint[e].version + 1 /\ SecretsOK(endpoint'[e].secrets)
          /\ SecretAdded(changes, Len(endpoint[e].secrets), Len(endpoint'[e].secrets))
      BY <2>4, <2>6, <2>9, <3>1 DEF SecretAdded
    <3>4. command'[r].expected = endpoint[e].version
      BY <2>1, <2>3
    <3> HIDE DEF e
    <3> QED
      BY <1>1, <2>1, <2>2, <2>3, <2>4, <2>7, <2>11, <3>2, <3>3, <3>4, ChangeStep DEF Served, e
  <2> QED
    BY <2>10, <2>11
<1> QED
  BY <1>2, <1>3 DEF E!Patch
LEMMA RotationReadsInvariant ==
    ASSUME ControlInv, NEW r \in Requests, Served(r),
           \/ E!RotationReadsVersion(r, keys[KeyOf(r)].merchant)
           \/ E!RotationReadsSecretVersion(r)
    PROVE  ControlInv'
<1> DEFINE e == E!Named(r)
<1>1. CASE command[r].at = "sent" /\ E!Refuse(r, "WebhookEndpointPreconditionFailedError")
  BY <1>1, ServedFacts, RefusalStep
<1>2. CASE /\ command[r].at = "sent" /\ E!Visible(r, keys[KeyOf(r)].merchant) /\ E!MatchesVersion(r)
           /\ command' = [command EXCEPT ![r].at = "versionRead"]
           /\ UNCHANGED <<endpoint, audits>>
  <2> DEFINE new == [command[r] EXCEPT !.at = "versionRead"]
  <2>1. /\ new \in [at : {"sent", "versionRead", "candidate", "committed", "answered"}, expected : Int,
                   secretVersion : Nat, reply : {new.reply}, etag : {new.etag}]
        /\ new.at = "versionRead" /\ new.expected = command[r].expected
    BY ServedFacts DEF CommandsTyped
  <2>2. command' = [command EXCEPT ![r] = new]
    BY <1>2
  <2> HIDE DEF new
  <2>3. /\ CommandsTyped' /\ command'[r] = new
        /\ \A q \in Requests \ {r} : command'[q] = command[q]
    BY <2>1, <2>2, ServedFacts, CommandSet
  <2>4. Moved(r) /\ command'[r].at = "versionRead" /\ command'[r].expected = command[r].expected
    BY <2>1, <2>3 DEF Moved
  <2>5. /\ Unrecorded(r)' /\ auth'[r] = "admitted"
        /\ 0 <= command[r].expected /\ command[r].expected = endpoint[e].version
        /\ keys[KeyOf(r)].merchant = e[1] /\ keys' = keys /\ endpoint' = endpoint
    BY <1>2, ServedFacts DEF CommandOK, Unrecorded, E!Visible, E!Exists, E!MatchesVersion, accessVars
  <2>6. /\ 0 <= command'[r].expected /\ command'[r].expected <= endpoint'[e].version
        /\ keys'[KeyOf(r)].merchant = e[1]
    BY <2>4, <2>5, ServedFacts
  <2>7. CommandOK(r)'
    BY <2>4, <2>5, <2>6 DEF CommandOK, E!Named, KeyOf
  <2> QED
    BY <1>2, <2>4, <2>7, ServedFacts, HistorySame, QuietStep
<1>3. CASE E!RotationReadsSecretVersion(r)
  <2> DEFINE number == Len(endpoint[e].secrets) + 1
             new == [command[r] EXCEPT !.at = "candidate", !.secretVersion = number]
  <2>1. /\ new \in [at : {"sent", "versionRead", "candidate", "committed", "answered"}, expected : Int,
                   secretVersion : Nat, reply : {new.reply}, etag : {new.etag}]
        /\ new.at = "candidate" /\ new.expected = command[r].expected
        /\ new.secretVersion = number
    <3>1. command[r] \in [at : {"sent", "versionRead", "candidate", "committed", "answered"},
                          expected : Int, secretVersion : Nat, reply : {command[q].reply : q \in Requests},
                          etag : {command[q].etag : q \in Requests}]
      BY ServedFacts DEF CommandsTyped
    <3>2. number \in Nat
      BY ServedFacts
    <3> HIDE DEF number
    <3> QED
      BY <3>1, <3>2
  <2>2. command' = [command EXCEPT ![r] = new] /\ UNCHANGED <<endpoint, audits>>
        /\ command[r].at = "versionRead"
    BY <1>3, ServedFacts DEF E!RotationReadsSecretVersion, CommandsTyped
  <2> HIDE DEF new
  <2>3. /\ CommandsTyped' /\ command'[r] = new
        /\ \A q \in Requests \ {r} : command'[q] = command[q]
    BY <2>1, <2>2, ServedFacts, CommandSet
  <2>4. /\ Moved(r) /\ command'[r].at = "candidate" /\ command'[r].expected = command[r].expected
        /\ command'[r].secretVersion = Len(endpoint[e].secrets) + 1
    BY <2>1, <2>3 DEF Moved
  <2>5. /\ Unrecorded(r)' /\ auth'[r] = "admitted"
        /\ 0 <= command[r].expected /\ command[r].expected <= endpoint[e].version
        /\ keys[KeyOf(r)].merchant = e[1] /\ keys' = keys /\ endpoint' = endpoint
    BY <2>2, ServedFacts DEF CommandOK, Unrecorded, accessVars
  <2>6. /\ 0 <= command'[r].expected /\ command'[r].expected <= endpoint'[e].version
        /\ keys'[KeyOf(r)].merchant = e[1]
        /\ command'[r].secretVersion = Len(endpoint'[e].secrets) + 1
    BY <2>4, <2>5
  <2>7. CommandOK(r)'
    BY <2>4, <2>5, <2>6 DEF CommandOK, E!Named, KeyOf
  <2> QED
    BY <2>2, <2>4, <2>7, ServedFacts, HistorySame, QuietStep
<1> QED
  BY <1>1, <1>2, <1>3 DEF E!RotationReadsVersion

LEMMA RotateInvariant ==
    ASSUME ControlInv, NEW r \in Requests, Served(r), E!Rotate(r, KeyOf(r))
    PROVE  ControlInv'
<1> DEFINE e == E!Named(r)
           actions == {"secret_rotated"}
           rotated == E!rotateSecret(endpoint[e].secrets, command[r].secretVersion)
           new == [endpoint[e] EXCEPT !.version = endpoint[e].version + 1, !.secrets = rotated]
<1>1. command[r].at = "candidate" /\ Unrecorded(r) /\ keys[KeyOf(r)].merchant = e[1]
  BY ServedFacts DEF E!Rotate, CommandOK
<1>2. CASE \E error : E!Refuse(r, error)
  BY <1>1, <1>2, ServedFacts, RefusalStep
<1>3. CASE /\ E!MatchesVersion(r)
           /\ endpoint' = [endpoint EXCEPT ![e].version = endpoint[e].version + 1, ![e].secrets = rotated]
           /\ E!Audit(r, KeyOf(r), {"secret_rotated"}, endpoint[e].version + 1)
           /\ E!Committed(r, 200, endpoint[e].version + 1)
  <2>1. /\ Moved(r) /\ command'[r].expected = command[r].expected
        /\ \/ command'[r].at = "committed" /\ command'[r].reply \in {200, 201}
           \/ command'[r].at = "answered" /\ command'[r].reply = 503
    BY <1>3, ServedFacts, CommittedMoves
  <2>2. CommandOK(r)'
    BY <2>1, ServedFacts, OverOK
  <2>3. /\ command[r].expected = endpoint[e].version
        /\ command[r].secretVersion = Len(endpoint[e].secrets) + 1
    BY <1>1, <1>3, ServedFacts DEF CommandOK, E!MatchesVersion
  <2>4. /\ rotated \in Seq(Secrets) /\ Len(rotated) = Len(endpoint[e].secrets) + 1
        /\ SecretsOK(rotated)
    <3>1. SecretsOK(endpoint[e].secrets)
      BY ServedFacts DEF HistoryOK
    <3> QED
      BY <2>3, <3>1, ServedFacts, RotateSound
  <2> HIDE DEF rotated
  <2>5. /\ new \in [version : Int, status : {new.status}, subscriptions : {new.subscriptions},
                    secrets : Seq(Secrets)]
        /\ new.version = endpoint[e].version + 1 /\ new.secrets = rotated
    <3> DEFINE current == endpoint[e]
               version == current.version + 1
    <3>1. current \in [version : Int, status : {current.status},
                       subscriptions : {current.subscriptions}, secrets : Seq(Secrets)]
      BY ServedFacts DEF EndpointsTyped
    <3>2. version \in Int
      BY ServedFacts
    <3> HIDE DEF current, version
    <3>3. LET changed == [current EXCEPT !.version = version, !.secrets = rotated]
          IN  /\ changed \in [version : Int, status : {changed.status},
                               subscriptions : {changed.subscriptions}, secrets : Seq(Secrets)]
              /\ changed.version = version /\ changed.secrets = rotated
      BY <2>4, <3>1, <3>2
    <3> QED
      BY <3>3 DEF current, version
  <2>6. endpoint' = [endpoint EXCEPT ![e] = new]
    BY <1>3, ServedFacts DEF EndpointsTyped
  <2> HIDE DEF new
  <2>7. /\ EndpointsTyped' /\ endpoint'[e] = new
        /\ \A x \in E!Endpoints \ {e} : endpoint'[x] = endpoint[x]
    BY <2>5, <2>6, ServedFacts, EndpointSet
  <2>8. audits' = audits \cup {Record(r, KeyOf(r), a, e, endpoint[e].version + 1) : a \in actions}
    BY <1>3 DEF E!Audit, Record
  <2>9. /\ endpoint'[e].version = endpoint[e].version + 1 /\ SecretsOK(endpoint'[e].secrets)
        /\ Len(endpoint'[e].secrets) = Len(endpoint[e].secrets) + 1
    BY <2>4, <2>5, <2>7
  <2>10. actions # {} /\ SecretAdded(actions, Len(endpoint[e].secrets), Len(endpoint'[e].secrets))
    BY <2>9 DEF SecretAdded
  <2>11. command'[r].expected = endpoint[e].version
    BY <2>1, <2>3
  <2> HIDE DEF e, actions
  <2> QED
    BY <1>1, <2>1, <2>2, <2>7, <2>8, <2>9, <2>10, <2>11, ChangeStep DEF Served, e
<1> QED
  BY <1>2, <1>3 DEF E!Rotate

LEMMA HearInv ==
    ASSUME ControlInv, NEW r \in Requests, Served(r), E!Hear(r)
    PROVE  ControlInv'
<1> DEFINE new == [command[r] EXCEPT !.at = "answered"]
<1>1. /\ new \in [at : {"sent", "versionRead", "candidate", "committed", "answered"}, expected : Int,
                 secretVersion : Nat, reply : {new.reply}, etag : {new.etag}]
      /\ new.at = "answered" /\ new.expected = command[r].expected /\ new.reply = command[r].reply
  BY ServedFacts DEF CommandsTyped
<1>2. /\ command' = [command EXCEPT ![r] = new] /\ UNCHANGED <<endpoint, audits>>
      /\ command[r].at = "committed"
  BY DEF E!Hear
<1> HIDE DEF new
<1>3. /\ CommandsTyped' /\ command'[r] = new
      /\ \A q \in Requests \ {r} : command'[q] = command[q]
  BY <1>1, <1>2, ServedFacts, CommandSet
<1>4. /\ Moved(r) /\ command'[r].at = "answered"
      /\ command'[r].reply = command[r].reply
  BY <1>1, <1>3 DEF Moved
<1>5. command'[r].reply \in {200, 201}
  BY <1>2, <1>4, ServedFacts DEF CommandOK
<1> QED
  BY <1>2, <1>4, <1>5, ServedFacts, OverOK, HistorySame, QuietStep

LEMMA HandleInv == ASSUME ControlInv, NEW r \in Requests, Handle(r) PROVE ControlInv'
<1>1. Served(r)
  BY DEF Handle, Served
<1>2. E!Serve(r, keys[KeyOf(r)].merchant, KeyOf(r)) \/ E!Unavailable(r)
  BY DEF Handle
<1> QED
  BY <1>1, <1>2, ChecksInv, RegisterInv, GetInv, PatchInv, RotationReadsInvariant, RotateInvariant, HearInv
     DEF E!Serve
\* The first look-up of a request; its client has just read the ETag.
LEMMA ArriveInv == ASSUME ControlInv, NEW r \in Requests, Arrive(r) PROVE ControlInv'
<1> DEFINE new == [command[r] EXCEPT !.expected = endpoint[E!Named(r)].version]
<1>1. /\ auth[r] = "new" /\ findActiveApiKeyByPrefix(r) /\ UNCHANGED <<endpoint, audits>>
      /\ keys' = keys /\ command' = [command EXCEPT ![r] = new]
  BY DEF Arrive, findActiveApiKeyByPrefix, E!ReadEtag
<1>2. AccessInv /\ EndpointsTyped /\ CommandsTyped /\ CommandOK(r)
  BY DEF ControlInv
<1>3. AccessInv' /\ AccessKeeps
  <2>1. AccessInv' /\ \A q \in Requests : auth[q] # "new" => auth'[q] = auth[q]
    BY <1>1, <1>2, FindInv
  <2>2. Len(keys) \in Nat
    BY <1>2 DEF AccessInv, KeysOK
  <2> QED
    BY <1>1, <2>1, <2>2 DEF AccessKeeps
<1>4. command[r].at = "sent" /\ Unrecorded(r)
  BY <1>1, <1>2 DEF CommandOK
<1>5. /\ new \in [at : {"sent", "versionRead", "candidate", "committed", "answered"}, expected : Int,
                 secretVersion : Nat, reply : {new.reply}, etag : {new.etag}]
      /\ new.at = command[r].at
  <2> DEFINE version == endpoint[E!Named(r)].version
  <2>1. version \in Int
    BY <1>2, NamedTyped DEF EndpointsTyped
  <2> HIDE DEF version
  <2>2. LET changed == [command[r] EXCEPT !.expected = version]
        IN  /\ changed \in [at : {"sent", "versionRead", "candidate", "committed", "answered"},
                            expected : Int, secretVersion : Nat,
                            reply : {changed.reply}, etag : {changed.etag}]
            /\ changed.at = command[r].at
    BY <1>2, <2>1 DEF CommandsTyped
  <2> QED
    BY <2>2 DEF version
<1> HIDE DEF new
<1>6. /\ CommandsTyped' /\ command'[r] = new
      /\ \A q \in Requests \ {r} : command'[q] = command[q]
  BY <1>1, <1>2, <1>5, CommandSet
<1>7. Moved(r) /\ command'[r].at = "sent"
  BY <1>4, <1>5, <1>6 DEF Moved
<1>8. CommandOK(r)'
  <2>1. Unrecorded(r)'
    BY <1>1, <1>4 DEF Unrecorded
  <2> QED
    BY <1>7, <2>1 DEF CommandOK, E!Named, KeyOf
<1> QED
  BY <1>1, <1>3, <1>7, <1>8, HistorySame, QuietStep

\* Steps that no command takes: access changes, or an overlap ends.
LEMMA NoCommandStep ==
    ASSUME ControlInv, AccessInv', AccessKeeps, SameHistory, UNCHANGED command
    PROVE  ControlInv'
<1>1. EndpointsTyped' /\ CommandsTyped' /\ audits' = audits /\ EndpointsTyped
  BY DEF SameHistory, ControlInv, CommandsTyped
<1>2. \A e \in E!Endpoints : HistoryOK(e)'
  BY <1>1 DEF SameHistory, ControlInv, HistoryOK
<1>3. AuditsOK'
  BY <1>1, AuditsStay DEF AuditsOK
<1>4. ASSUME NEW q \in Requests PROVE CommandOK(q)'
  <2>1. /\ E!Named(q) \in E!Endpoints
        /\ endpoint'[E!Named(q)].version = endpoint[E!Named(q)].version
        /\ Len(endpoint'[E!Named(q)].secrets) = Len(endpoint[E!Named(q)].secrets)
    BY NamedTyped DEF SameHistory
  <2> QED
    BY <1>1, <2>1, OthersStay
<1> QED
  BY <1>1, <1>2, <1>3, <1>4 DEF ControlInv

LEMMA VerifyStepInv == ASSUME ControlInv, NEW r \in Requests, Verify(r) PROVE ControlInv'
<1>1. AccessInv' /\ AccessKeeps /\ UNCHANGED <<endpoint, audits, command>>
  BY AuthStepInv DEF Verify, endpointVars, ControlInv
<1> QED
  BY <1>1, HistorySame, NoCommandStep

LEMMA RejectInv == ASSUME ControlInv, NEW r \in Requests, Reject(r) PROVE ControlInv'
<1>1. auth[r] \in {"unauthorized", "forbidden", "failed"} /\ \E error : E!Refuse(r, error)
  BY DEF Reject, Rejection
<1>2. command[r].at = "sent"
  <2>1. command[r].at \in {"sent", "versionRead", "candidate", "committed", "answered"}
    BY DEF ControlInv, CommandsTyped
  <2>2. CommandOK(r) /\ command[r].at # "answered"
    BY DEF Reject, Answered, ControlInv
  <2> QED
    BY <1>1, <2>1, <2>2 DEF CommandOK
<1>3. AccessInv' /\ AccessKeeps
  BY AccessSame DEF Reject, ControlInv
<1> QED
  BY <1>1, <1>2, <1>3, RefusalStep

LEMMA OverlapEndsInv ==
    ASSUME ControlInv, NEW e \in E!Endpoints, E!OverlapEnds(e), UNCHANGED accessVars
    PROVE  ControlInv'
<1> DEFINE secrets == endpoint[e].secrets
<1>1. PICK i \in DOMAIN secrets :
          /\ secrets[i].life = "previous" /\ secrets[i].overlap = "open"
          /\ endpoint' = [endpoint EXCEPT ![e].secrets[i].overlap = "ended"]
  BY DEF E!OverlapEnds
<1> DEFINE ended == [secrets[i] EXCEPT !.overlap = "ended"]
           after == [secrets EXCEPT ![i] = ended]
           new == [endpoint[e] EXCEPT !.secrets = after]
<1>2. endpoint[e] \in [version : Int, status : {endpoint[x].status : x \in E!Endpoints},
                       subscriptions : {endpoint[x].subscriptions : x \in E!Endpoints},
                       secrets : Seq(Secrets)]
  BY DEF ControlInv, EndpointsTyped
<1>3. secrets[i] \in Secrets /\ \A n \in DOMAIN secrets : secrets[n] \in Secrets
  BY <1>2
<1>4. /\ ended \in Secrets /\ ended.version = secrets[i].version /\ ended.life = secrets[i].life
      /\ ended.overlap = "ended"
  BY <1>3 DEF Secrets
<1>5. endpoint' = [endpoint EXCEPT ![e] = new]
  BY <1>1 DEF ControlInv, EndpointsTyped
<1> HIDE DEF ended
<1>6. /\ after \in Seq(Secrets) /\ Len(after) = Len(secrets)
      /\ \A n \in DOMAIN secrets : after[n] = IF n = i THEN ended ELSE secrets[n]
  BY <1>2, <1>4
<1> HIDE DEF after
<1>7. SecretsOK(after)
  <2>1. SecretsOK(secrets) /\ DOMAIN after = DOMAIN secrets
    BY <1>2, <1>6 DEF ControlInv, HistoryOK
  <2> QED
    BY <1>4, <1>6, <2>1 DEF SecretsOK
<1>8. /\ new \in [version : Int, status : {new.status}, subscriptions : {new.subscriptions},
                  secrets : Seq(Secrets)]
      /\ new.version = endpoint[e].version /\ new.secrets = after
  <2> HIDE DEF secrets
  <2> QED
    BY <1>2, <1>6
<1> HIDE DEF new
<1>9. /\ EndpointsTyped' /\ endpoint'[e] = new
      /\ \A x \in E!Endpoints \ {e} : endpoint'[x] = endpoint[x]
  BY <1>5, <1>8, EndpointSet DEF ControlInv
<1>10. UNCHANGED <<audits, command>>
  BY DEF E!OverlapEnds
<1>11. SameHistory
  <2>1. \A x \in E!Endpoints : SecretsOK(endpoint[x].secrets)
    BY DEF ControlInv, HistoryOK
  <2> QED
    BY <1>6, <1>7, <1>8, <1>9, <1>10, <2>1 DEF SameHistory
<1>12. AccessInv' /\ AccessKeeps
  BY AccessSame DEF ControlInv
<1> QED
  BY <1>10, <1>11, <1>12, NoCommandStep

LEMMA ElsewhereInv == ControlInv /\ Elsewhere => ControlInv'
<1> SUFFICES ASSUME ControlInv, Elsewhere PROVE ControlInv'
  OBVIOUS
<1>1. CASE Operate /\ UNCHANGED endpointVars
  <2>1. AccessInv' /\ AccessKeeps /\ UNCHANGED <<endpoint, audits, command>>
    BY <1>1, OperateInv DEF ControlInv, endpointVars
  <2> QED
    BY <2>1, HistorySame, NoCommandStep
<1>2. ASSUME NEW i \in DOMAIN cache, EntryExpires(i), UNCHANGED endpointVars
      PROVE  ControlInv'
  <2>1. AccessInv' /\ UNCHANGED <<keys, auth, endpoint, audits, command>>
    BY <1>2, ExpiresInv DEF ControlInv, endpointVars
  <2>2. Len(keys) \in Nat
    BY DEF ControlInv, AccessInv, KeysOK
  <2>3. AccessKeeps
    BY <2>1, <2>2 DEF AccessKeeps
  <2> QED
    BY <2>1, <2>3, HistorySame, NoCommandStep
<1>3. ASSUME NEW e \in E!Endpoints, E!OverlapEnds(e), UNCHANGED accessVars
      PROVE  ControlInv'
  BY <1>3, OverlapEndsInv
<1> QED
  BY <1>1, <1>2, <1>3 DEF Elsewhere

LEMMA ControlNextInv == ControlInv /\ [ControlNext]_controlVars => ControlInv'
<1> SUFFICES ASSUME ControlInv, [ControlNext]_controlVars PROVE ControlInv'
  OBVIOUS
<1>1. ASSUME NEW r \in Requests, Arrive(r) \/ Verify(r) \/ Reject(r) \/ Handle(r)
      PROVE  ControlInv'
  BY <1>1, ArriveInv, VerifyStepInv, RejectInv, HandleInv
<1>2. CASE UNCHANGED controlVars
  <2>1. AccessInv' /\ AccessKeeps /\ UNCHANGED <<endpoint, audits, command>>
    BY <1>2, AccessSame DEF ControlInv, controlVars, endpointVars
  <2> QED
    BY <2>1, HistorySame, NoCommandStep
<1> QED
  BY <1>1, <1>2, ElsewhereInv DEF ControlNext
(***************************************************************************)
(* What follows.                                                           *)
(***************************************************************************)

\* The API keeps keys, remembered credentials, endpoints, their audit trail and
\* the commands in agreement, from the look-up of a key to the answer.
THEOREM ControlSpecInv == ControlSpec => []ControlInv
  BY ControlInitInv, ControlNextInv, PTL DEF ControlSpec

\* A key that operators rotate at the same time has one successor at most
\* (MerchantAccess, rotateApiKey).
THEOREM KeysAreReplacedOnce == ControlSpec => []RotationReplacesOnce
<1>1. ASSUME ControlInv PROVE RotationReplacesOnce
  <2>1. /\ Succeeded
        /\ \A n \in DOMAIN keys : n # 0
    BY <1>1 DEF ControlInv, AccessInv, KeysOK
  <2>2. ASSUME NEW k \in DOMAIN keys
        PROVE  LET successors == {n \in DOMAIN keys : keys[n].from = k} IN
               /\ Cardinality(successors) <= 1
               /\ \A n \in successors : /\ keys[k].status = "revoked"
                                        /\ keys[n].merchant = keys[k].merchant
    <3> DEFINE successors == {n \in DOMAIN keys : keys[n].from = k}
    <3>1. k # 0
      BY <2>1
    <3>2. \A n, m \in successors : n = m
      BY <2>1, <3>1 DEF Succeeded
    <3>3. \A n \in successors : keys[k].status = "revoked" /\ keys[n].merchant = keys[k].merchant
      BY <2>1, <3>1 DEF Succeeded
    <3>4. Cardinality(successors) <= 1
      <4>1. CASE successors = {}
        BY <4>1, FS_EmptySet
      <4>2. CASE successors # {}
        <5>1. PICK n \in successors : TRUE
          BY <4>2
        <5> HIDE DEF successors
        <5>2. successors = {n}
          BY <3>2, <5>1
        <5>3. Cardinality({n}) = 1
          BY FS_Singleton
        <5> QED
          BY <5>2, <5>3
      <4> QED
        BY <4>1, <4>2
    <3> QED
      BY <3>3, <3>4
  <2> QED
    BY <2>2 DEF RotationReplacesOnce
<1> QED
  BY <1>1, ControlSpecInv, PTL

\* One derivation serves all that wait for the same credential, and the
\* process remembers no more than it may (MerchantAccess, verify).
THEOREM DerivationsAreShared == ControlSpec => []VerificationIsShared
<1>1. ASSUME ControlInv PROVE VerificationIsShared
  <2> USE DEF verificationFingerprint
  <2>1. Remembers(cache) /\ DerivationsOK
    BY <1>1 DEF ControlInv, AccessInv
  <2>2. ASSUME NEW print \in inFlight
        PROVE  Cardinality({r \in Requests : auth[r] = "deriving" /\ CredentialOf[r] = print}) = 1
    <3>1. PICK r \in Requests : auth[r] = "deriving" /\ CredentialOf[r] = print
      BY <2>1 DEF DerivationsOK
    <3>2. {q \in Requests : auth[q] = "deriving" /\ CredentialOf[q] = print} = {r}
      BY <2>1, <3>1 DEF DerivationsOK
    <3>3. Cardinality({r}) = 1
      BY FS_Singleton
    <3> QED
      BY <3>2, <3>3
  <2>3. /\ Len(cache) <= CacheSize /\ Cardinality(inFlight) <= CacheSize
        /\ \A i \in DOMAIN cache : cache[i].print.genuine
        /\ \A i, j \in DOMAIN cache : cache[i].print = cache[j].print => i = j
        /\ \A r \in Requests : auth[r] \in {"deriving", "sharing"} => CredentialOf[r] \in inFlight
    BY <2>1 DEF Remembers, DerivationsOK
  <2> QED
    BY <2>2, <2>3 DEF VerificationIsShared
<1> QED
  BY <1>1, ControlSpecInv, PTL

\* Endpoints change by the hand of their own merchant, with a genuine
\* credential and the scopes the route needs (canActivate, authenticate).
THEOREM ChangesAreAuthorised == ControlSpec => []AccessIsAuthorised
<1>1. ControlInv => AccessIsAuthorised
  BY DEF ControlInv, AuditsOK, CommandOK, Unrecorded, AccessIsAuthorised, Answered
<1> QED
  BY <1>1, ControlSpecInv, PTL

\* No version of an endpoint is written over another one that was read at the
\* same time, and the secrets are numbered by the rotations (patch, rotate).
THEOREM VersionsAreWrittenOnce == ControlSpec => []VersionsHaveOneAuthor
<1>1. ASSUME ControlInv, NEW e \in E!Endpoints
      PROVE  LET about == {a \in audits : a.endpoint = e}
                 authors(v) == {a.request : a \in {b \in about : b.version = v}}
                 secrets == endpoint[e].secrets
             IN  /\ {a.version : a \in about} = 0..endpoint[e].version
                 /\ \A v \in 1..endpoint[e].version :
                       \E r \in Requests : authors(v) = {r} /\ command[r].expected = v - 1
                 /\ Len(secrets) = Cardinality({a \in about : a.action \in {"created", "secret_rotated"}})
                 /\ \A i \in DOMAIN secrets :
                       /\ secrets[i].version = i
                       /\ (secrets[i].life = "current") = (i = Len(secrets))
                       /\ secrets[i].life = "previous" => i = Len(secrets) - 1
  <2>1. HistoryOK(e)
    BY <1>1 DEF ControlInv
  <2>2. /\ {a.version : a \in About(audits, e)} = 0..endpoint[e].version
        /\ \A v \in 1..endpoint[e].version :
              \E r \in Requests : AuthorsOf(audits, e, v) = {r} /\ command[r].expected = v - 1
    BY <2>1 DEF HistoryOK, Told
  <2>3. Len(endpoint[e].secrets) = Cardinality(SecretsMade(audits, e))
    BY <2>1 DEF HistoryOK
  <2>4. \A i \in DOMAIN endpoint[e].secrets :
            /\ endpoint[e].secrets[i].version = i
            /\ (endpoint[e].secrets[i].life = "current") = (i = Len(endpoint[e].secrets))
            /\ endpoint[e].secrets[i].life = "previous" => i = Len(endpoint[e].secrets) - 1
    BY <2>1 DEF HistoryOK, SecretsOK
  <2> QED
    BY <2>2, <2>3, <2>4 DEF About, AuthorsOf, SecretsMade
<1>2. ControlInv => VersionsHaveOneAuthor
  BY <1>1 DEF VersionsHaveOneAuthor
<1> QED
  BY <1>2, ControlSpecInv, PTL

\* A receiver that missed the answer of one rotation can verify for 24 hours
\* more (docs/adr/0015-webhook-signing-secret-encryption-and-rotation.md:76).
THEOREM ReceiversKeepVerifying == ControlSpec => []ReceiverCanVerify
<1>1. ASSUME ControlInv, NEW e \in E!Endpoints, NEW v \in DOMAIN endpoint[e].secrets,
             v >= Len(endpoint[e].secrets) - 1, endpoint[e].secrets[v].overlap # "ended"
      PROVE  v \in E!SigningSecrets(e)
  <2> DEFINE secrets == endpoint[e].secrets
  <2>1. SecretsOK(secrets) /\ secrets \in Seq(Secrets)
    BY <1>1 DEF ControlInv, HistoryOK, EndpointsTyped
  <2>2. v \in 1..Len(secrets) /\ (v = Len(secrets) \/ v = Len(secrets) - 1)
    BY <1>1, <2>1
  <2>3. \/ secrets[v].life = "current"
        \/ secrets[v].life = "previous" /\ secrets[v].overlap = "open"
    BY <1>1, <2>1, <2>2 DEF SecretsOK
  <2> QED
    BY <2>3 DEF E!SigningSecrets
<1>2. ControlInv => ReceiverCanVerify
  BY <1>1 DEF ReceiverCanVerify
<1> QED
  BY <1>2, ControlSpecInv, PTL
=============================================================================
