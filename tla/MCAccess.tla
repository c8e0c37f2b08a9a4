------------------------------- MODULE MCAccess -------------------------------
(* Two callbacks present one Google credential, two one CILogon state; a   *)
(* later credential of the first account reports the address of the second;*)
(* and two CILogon logins discover the provider at a time.                 *)
EXTENDS Access

CONSTANTS a1, a2, e1, e2, c1, c2, s1, s2, login1, login2, g1, g2, g3, k1, k2, q1

MCAccounts == {a1, a2}
MCCredentials == {c1, c2}
MCStates == {s1, s2}
MCExpiryOf == [c \in {c1, c2} |-> IF c = c1 THEN 2 ELSE 3]
MCAccountOf == [p \in {c1, c2, s1, s2} |-> IF p \in {s1, s2} THEN a2 ELSE a1]
MCEmailOf == [p \in {c1, c2, s1, s2} |-> IF p = c1 THEN e1 ELSE e2]
MCStarts == {login1, login2}
MCStateOf == [r \in {login1, login2} |-> IF r = login1 THEN s1 ELSE s2]
MCCallbacks == {g1, g2, g3, k1, k2}
MCProofOf == [l \in {g1, g2, g3, k1, k2} |->
               IF l = g3 THEN c2 ELSE IF l \in {g1, g2} THEN c1 ELSE s1]
MCVisits == {{g1, g2, g3}, {login1, k1, k2}, {g3, login1, k1}, {login1, login2}}
MCCalls == {q1}
MCCookieOf == [q \in {q1} |-> g3]
=============================================================================
