--------------------------- MODULE MCControlPlane ---------------------------
(* Two rotations, a forged one and a patch race on one endpoint under one  *)
(* key; then come a read without its scope, registrations (by another      *)
(* merchant, of a taken URL and of an unresolvable one), a patch of        *)
(* another merchant's endpoint and a read, while operators change keys:    *)
(* two are replacing key 1 from the start.                                 *)
EXTENDS ControlPlane, MCApiRequests, TLC

CONSTANTS m1, m2, m3, u1, u2, u3, r1, r2, r3, r4, r5, r6, r7, r8, r9, r10, o1, o2, o3

Read == {"webhooks:read"}
Manage == {"webhooks:manage"}
MCGrants == <<Read \cup Manage, Manage, Read \cup Manage, Manage>>
MCRecipient == <<m1, m2, m1, m1>>
MCCredentialOf == [r \in Requests |-> [key |-> IF r \in {r5, r6, r7} THEN 2 ELSE 1,
                                       genuine |-> r # r3]]
MCRotating == o1 :> 1 @@ o2 :> 1 @@ o3 :> 0
MCNeeds == [r \in Requests |-> IF r \in {r5, r10} THEN Read ELSE Manage]
MCAfter ==
    r1 :> {} @@ r3 :> {} @@ r2 :> {r3} @@ r4 :> {r1} @@ r5 :> {r2, r4} @@ r6 :> {r5}
    @@ r7 :> {r6} @@ r8 :> {r7} @@ r9 :> {r8} @@ r10 :> {r9}

ACommand(kind, e, ifMatch, status, subscriptions) ==
    [kind |-> kind, endpoint |-> e, ifMatch |-> ifMatch, status |-> status,
     subscriptions |-> subscriptions]
Both == {"payment.created.v1", "payment.captured.v1"}
MCCommand ==
    [r \in {r1, r2, r3} |-> ACommand("rotate", <<m1, u1>>, "sent", {}, {})]
    @@ r4 :> ACommand("patch", <<m1, u1>>, "sent", {"inactive"}, {{"payment.created.v1"}})
    @@ r5 :> ACommand("get", <<m2, u1>>, "missing", {}, {})
    @@ r6 :> ACommand("create", <<m2, u1>>, "missing", {}, {Both})
    @@ r7 :> ACommand("patch", <<m1, u1>>, "sent", {"active"}, {})
    @@ r8 :> ACommand("create", <<m1, u1>>, "missing", {}, {Both})
    @@ r9 :> ACommand("create", <<m1, u3>>, "missing", {}, {Both})
    @@ r10 :> ACommand("get", <<m1, u1>>, "missing", {}, {})

Hosted(prohibited) == [addresses |-> {[prohibited |-> prohibited, name |-> "a"]}, failed |-> FALSE]
Nowhere == [addresses |-> {}, failed |-> FALSE]
AUrl(scheme, port, origin, ipv4) ==
    [wellFormed |-> TRUE, credentials |-> FALSE, scheme |-> scheme, port |-> port,
     origin |-> origin, ipv4 |-> ipv4, ipv6 |-> Nowhere]
MCRegistered == {<<m1, u1>>}
MCAnswers ==
    u1 :> AUrl("https", "default", "shop", Hosted(FALSE))
    @@ u2 :> AUrl("http", "9000", "development", Hosted(TRUE))
    @@ u3 :> AUrl("https", "default", "nowhere", Nowhere)
=============================================================================
