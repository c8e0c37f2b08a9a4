--------------------------- MODULE SessionProofs ----------------------------
(***************************************************************************)
(* Proofs about who may read and for how long: signing in (Access) and the *)
(* streams a session holds (EventHub).                                     *)
(***************************************************************************)
EXTENDS Access, EventHub, FiniteSetTheorems, TLAPS

-----------------------------------------------------------------------------
(***************************************************************************)
(* Proofs about signing in, for any accounts, credentials, states,         *)
(* requests and calls, any clock and any number of crashes: a proof of     *)
(* identity is used once while it lasts, and a call acts only for a        *)
(* session that is entitled to it.                                         *)
(***************************************************************************)

\* Only Google callbacks consume a credential.
PlacesOK == \A r \in Requests : pc[r] = "consume" => r \in Callbacks /\ ProofOf[r] \in Credentials

\* A credential that has signed in is remembered for as long as it is valid ...
CredentialOK(c) ==
  ExpiryOf[c] >= now => uses[c] <= 1 /\ (uses[c] = 1 => c \in spent)

\* ... and a state that has signed in has no row, nor will it get one again:
\* the login that drew it has answered.
StateOK(s) == uses[s] <= 1 /\ (uses[s] = 1 => transactions[s] = 0 /\ Known(s))

\* A session is issued once and only to a user with directories.
SessionOK(l) ==
  /\ sessions[l].status # "none" => pc[l] = "done"
  /\ pc[l] = "issue" \/ sessions[l].status = "live" => Account(l) \in roots

\* A late call comes after the end of a session, which does not come back.
CallOK(q) ==
  /\ q \in late => /\ call[q] \in {"csrf", "lookup"}
                   /\ pc[CookieOf[q]] = "done" /\ sessions[CookieOf[q]].status # "live"
  /\ call[q] = "acts" => Account(CookieOf[q]) \in roots

AInv ==
  /\ AccessTypeOK
  /\ now > 0
  /\ PlacesOK
  /\ \A c \in Credentials : CredentialOK(c)
  /\ \A s \in States : StateOK(s)
  /\ \A l \in Callbacks : SessionOK(l)
  /\ \A q \in Calls : CallOK(q)

-----------------------------------------------------------------------------

\* A step that leaves a call, and the end of its session, alone.
LEMMA CallKept ==
  ASSUME AInv, NEW q \in Calls, q \in late' <=> q \in late, call'[q] = call[q],
         roots \subseteq roots',
         pc[CookieOf[q]] = "done" => pc'[CookieOf[q]] = "done",
         pc[CookieOf[q]] = "done" /\ sessions'[CookieOf[q]].status = "live"
           => sessions[CookieOf[q]].status = "live"
  PROVE  CallOK(q)'
  BY DEF AInv, CallOK, Account

\* The invariant of logins and sessions holds at first.
LEMMA InitAInv ==
  ASSUME AccessInit
  PROVE  AInv
<1>1. \A r \in Requests : pc[r] \in {"off", "failed"}
  BY DEF AccessInit
<1>2. pc \in [Requests -> {"off", "failed"}]
  BY DEF AccessInit
<1>3. sessions \in [Callbacks -> [status : {"none", "live", "revoked"}, expires : Nat]]
      /\ \A l \in Callbacks : sessions[l].status = "none"
  BY DEF AccessInit, NoSession
<1>4. AccessTypeOK
  <2>1. MaxCrashes \in Nat
    BY BoundsOK
  <2>2. /\ users \in [Accounts -> {NoUser}] /\ transactions \in [States -> Nat]
        /\ call \in [Calls -> {"off"}] /\ uses \in [Proofs -> Nat]
    BY DEF AccessInit
  <2>3. \A a \in Accounts : users[a] = NoUser
    BY <2>2
  <2>4. /\ now \in Nat /\ roots = {} /\ spent = {} /\ late = {} /\ crashes = 0
        /\ fetching = {}
    BY DEF AccessInit
  <2>5. config \in BOOLEAN
    BY DEF AccessInit
  <2> QED
    BY <1>2, <1>3, <2>1, <2>2, <2>3, <2>4, <2>5 DEF AccessTypeOK
<1>5. PlacesOK /\ now > 0
  BY <1>1 DEF AccessInit, PlacesOK
<1>6. (\A c \in Credentials : CredentialOK(c)) /\ (\A s \in States : StateOK(s))
  BY DEF AccessInit, CredentialOK, StateOK, Proofs
<1>7. \A l \in Callbacks : SessionOK(l)
  BY <1>1, <1>3 DEF SessionOK, Requests
<1>8. \A q \in Calls : CallOK(q)
  BY DEF AccessInit, CallOK
<1> QED
  BY <1>4, <1>5, <1>6, <1>7, <1>8 DEF AInv

-----------------------------------------------------------------------------
(* Types.                                                                  *)

\* Every step keeps the types.
LEMMA TypeStep ==
  ASSUME AccessTypeOK, PlacesOK, [AccessNext]_accessVars
  PROVE  AccessTypeOK'
<1> USE DEF tables, discovery, history
<1>1. ASSUME NEW r \in Requests, Start(r)
       PROVE  AccessTypeOK'
  BY <1>1, ProofsOK, BoundsOK DEF Start, AccessTypeOK, PlacesOK, Go, Fails, CallAt, Requests, Proofs
<1>2. ASSUME NEW r \in Requests, Discover(r)
       PROVE  AccessTypeOK'
  BY <1>2, ProofsOK, BoundsOK DEF Discover, AccessTypeOK, PlacesOK, Go, Fails, CallAt, Requests, Proofs
<1>3. ASSUME NEW r \in Requests, Fetch(r)
       PROVE  AccessTypeOK'
  <2>1. config' \in BOOLEAN
    BY <1>3 DEF Fetch, AccessTypeOK
  <2>2. pc' \in [Requests -> {"off", "consume", "discover", "fetch", "discovered", "upsert",
                                "provision", "issue", "done", "failed"}]
    BY <1>3 DEF Fetch, AccessTypeOK, Go, Fails
  <2> QED
    BY <1>3, <2>1, <2>2 DEF Fetch, AccessTypeOK
<1>4. ASSUME NEW r \in Requests, CreateTransaction(r)
       PROVE  AccessTypeOK'
  BY <1>4, ProofsOK, BoundsOK DEF CreateTransaction, AccessTypeOK, PlacesOK, Go, Fails,
     CallAt, Requests, Proofs, Unexpired
<1>5. ASSUME NEW r \in Requests, Exchange(r)
       PROVE  AccessTypeOK'
  BY <1>5, ProofsOK, BoundsOK DEF Exchange, AccessTypeOK, PlacesOK, Go, Fails, CallAt, Requests, Proofs
<1>6. ASSUME NEW l \in Callbacks, VerifyGoogle(l)
       PROVE  AccessTypeOK'
  BY <1>6, ProofsOK, BoundsOK DEF VerifyGoogle, AccessTypeOK, PlacesOK, Go, Fails, CallAt, Requests, Proofs
<1>7. ASSUME NEW l \in Callbacks, ConsumeCredential(l)
       PROVE  AccessTypeOK'
  <2>1. l \in Requests /\ ProofOf[l] \in Credentials
    BY <1>7 DEF ConsumeCredential, PlacesOK, Requests
  <2>2. pc' \in [Requests -> {"off", "consume", "discover", "fetch", "discovered", "upsert",
                                "provision", "issue", "done", "failed"}]
    BY <1>7, <2>1 DEF ConsumeCredential, AccessTypeOK, Go, Fails
  <2>3. spent' \in SUBSET Credentials
    BY <1>7, <2>1 DEF ConsumeCredential, AccessTypeOK
  <2>4. uses' \in [Proofs -> Nat]
    <3>1. CASE uses' = uses
      BY <3>1 DEF AccessTypeOK
    <3>2. CASE uses' = [uses EXCEPT ![ProofOf[l]] = uses[ProofOf[l]] + 1]
      BY <2>1, <3>2 DEF AccessTypeOK, Proofs
    <3> QED
      BY <1>7, <3>1, <3>2 DEF ConsumeCredential, AccessTypeOK
  <2> QED
    BY <1>7, <2>2, <2>3, <2>4 DEF ConsumeCredential, AccessTypeOK
<1>8. ASSUME NEW l \in Callbacks, ConsumeState(l)
       PROVE  AccessTypeOK'
  <2>1. l \in Requests /\ ProofOf[l] \in States
    BY <1>8 DEF ConsumeState, Requests
  <2>2. pc' \in [Requests -> {"off", "consume", "discover", "fetch", "discovered", "upsert",
                                "provision", "issue", "done", "failed"}]
    BY <1>8, <2>1 DEF ConsumeState, AccessTypeOK, Go, Fails
  <2>3. transactions' \in [States -> Nat]
    BY <1>8 DEF ConsumeState, AccessTypeOK
  <2>4. uses' \in [Proofs -> Nat]
    <3>1. CASE uses' = uses
      BY <3>1 DEF AccessTypeOK
    <3>2. CASE uses' = [uses EXCEPT ![ProofOf[l]] = uses[ProofOf[l]] + 1]
      BY <2>1, <3>2 DEF AccessTypeOK, Proofs
    <3> QED
      BY <1>8, <3>1, <3>2 DEF ConsumeState
  <2> QED
    BY <1>8, <2>2, <2>3, <2>4 DEF ConsumeState, AccessTypeOK
<1>9. ASSUME NEW l \in Callbacks, Upsert(l)
       PROVE  AccessTypeOK'
  <2>1. l \in Requests /\ Account(l) \in Accounts /\ Email(l) \in Emails
    BY ProofsOK DEF Requests, Account, Email
  <2>2. pc' \in [Requests -> {"off", "consume", "discover", "fetch", "discovered", "upsert",
                                "provision", "issue", "done", "failed"}]
    BY <1>9, <2>1, SMTT(30) DEF Upsert, AccessTypeOK, Go, Fails
  <2>3. CASE users' = users
    BY <1>9, <2>2, <2>3 DEF Upsert, AccessTypeOK
  <2>4. CASE users' # users
    <3> DEFINE a == Account(l)
    <3>1. /\ \A b \in Accounts \ {a} : users[b] # NoUser => users[b].email # Email(l)
          /\ users' = [users EXCEPT ![a] = [email |-> Email(l),
                                            active |-> users[a] = NoUser \/ users[a].active]]
      BY <1>9, <2>4 DEF Upsert, EmailIsTaken
    <3>2. (users[a] = NoUser \/ users[a].active) \in BOOLEAN
      OBVIOUS
    <3>3. /\ users' \in [Accounts -> [email : Emails, active : BOOLEAN] \union {NoUser}]
          /\ users'[a].email = Email(l)
          /\ \A b \in Accounts \ {a} : users'[b] = users[b]
      BY <2>1, <3>1, <3>2 DEF AccessTypeOK
    <3>4. \A b, c \in Accounts :
            b # c /\ users'[b] # NoUser /\ users'[c] # NoUser => users'[b].email # users'[c].email
      BY <2>1, <3>1, <3>3 DEF AccessTypeOK
    <3> QED
      BY <1>9, <2>2, <3>3, <3>4 DEF Upsert, AccessTypeOK
  <2> QED
    BY <2>3, <2>4
<1>10. ASSUME NEW l \in Callbacks, Provision(l)
       PROVE  AccessTypeOK'
  <2>1. l \in Requests /\ Account(l) \in Accounts
    BY ProofsOK DEF Requests, Account
  <2>2. pc' \in [Requests -> {"off", "consume", "discover", "fetch", "discovered", "upsert",
                                "provision", "issue", "done", "failed"}]
    BY <1>10, <2>1 DEF Provision, AccessTypeOK, Go, Fails
  <2> QED
    BY <1>10, <2>1, <2>2 DEF Provision, AccessTypeOK
<1>11. ASSUME NEW l \in Callbacks, Issue(l)
       PROVE  AccessTypeOK'
  BY <1>11, ProofsOK, BoundsOK DEF Issue, AccessTypeOK, PlacesOK, Go, Fails, CallAt, Requests, Proofs
<1>12. ASSUME NEW l \in Callbacks, Revoke(l)
       PROVE  AccessTypeOK'
  BY <1>12, ProofsOK, BoundsOK DEF Revoke, AccessTypeOK, PlacesOK, Go, Fails, CallAt,
     Requests, Proofs, Account
<1>13. ASSUME NEW q \in Calls, Arrive(q)
       PROVE  AccessTypeOK'
  BY <1>13, ProofsOK, BoundsOK DEF Arrive, AccessTypeOK, PlacesOK, Go, Fails, CallAt, Requests, Proofs
<1>14. ASSUME NEW q \in Calls, ValidateCsrf(q)
       PROVE  AccessTypeOK'
  BY <1>14, ProofsOK, BoundsOK DEF ValidateCsrf, AccessTypeOK, PlacesOK, Go, Fails, CallAt, Requests, Proofs
<1>15. ASSUME NEW q \in Calls, CurrentPrincipal(q)
       PROVE  AccessTypeOK'
  BY <1>15, ProofsOK, BoundsOK DEF CurrentPrincipal, AccessTypeOK, PlacesOK, Go, Fails,
     CallAt, Requests, Proofs
<1>16. ASSUME NEW q \in Calls, Answered(q)
       PROVE  AccessTypeOK'
  BY <1>16, ProofsOK, BoundsOK DEF Answered, AccessTypeOK, PlacesOK, Go, Fails, CallAt, Requests, Proofs
<1>17. ASSUME NEW a \in Accounts, Deactivate(a)
       PROVE  AccessTypeOK'
  <2>1. users[a] \in [email : Emails, active : BOOLEAN]
    BY <1>17 DEF Deactivate, AccessTypeOK
  <2>2. /\ users' = [users EXCEPT ![a] = [users[a] EXCEPT !.active = FALSE]]
        /\ users'[a].email = users[a].email
        /\ \A b \in Accounts \ {a} : users'[b] = users[b]
    BY <1>17, <2>1 DEF Deactivate, AccessTypeOK
  <2>3. users' \in [Accounts -> [email : Emails, active : BOOLEAN] \union {NoUser}]
    BY <2>1, <2>2 DEF AccessTypeOK
  <2>4. \A b, c \in Accounts :
          b # c /\ users'[b] # NoUser /\ users'[c] # NoUser => users'[b].email # users'[c].email
    BY <1>17, <2>2 DEF Deactivate, AccessTypeOK
  <2> QED
    BY <1>17, <2>3, <2>4 DEF Deactivate, AccessTypeOK
<1>18. CASE CleanupExpired
  BY <1>18, BoundsOK DEF CleanupExpired, AccessTypeOK, NoSession
<1>19. CASE Tick
  BY <1>19, BoundsOK DEF Tick, AccessTypeOK, NoSession
<1>20. CASE Crash
  <2>1. pc' \in [Requests -> {"off", "consume", "discover", "fetch", "discovered", "upsert",
                                "provision", "issue", "done", "failed"}]
    BY <1>20 DEF Crash, AccessTypeOK
  <2>2. sessions' \in [Callbacks -> [status : {"none", "live", "revoked"}, expires : Nat]]
    BY <1>20 DEF Crash, AccessTypeOK, NoSession
  <2>3. crashes' \in 0..MaxCrashes /\ fetching' = {} /\ late' = {}
    BY <1>20, BoundsOK DEF Crash, AccessTypeOK
  <2>5. config' \in BOOLEAN
    BY <1>20 DEF Crash
  <2>4. call' \in [Calls -> {"off", "csrf", "lookup", "acts"}]
    BY <1>20 DEF Crash
  <2> QED
    BY <1>20, <2>1, <2>2, <2>3, <2>4, <2>5 DEF Crash, AccessTypeOK
<1>21. CASE UNCHANGED accessVars
  BY <1>21 DEF accessVars, AccessTypeOK
<1> QED
  BY <1>1, <1>2, <1>3, <1>4, <1>5, <1>6, <1>7, <1>8, <1>9, <1>10, <1>11, <1>12, <1>13,
     <1>14, <1>15, <1>16, <1>17, <1>18, <1>19, <1>20, <1>21 DEF AccessNext, Step, Requests

-----------------------------------------------------------------------------
(* The parts of the invariant.                                             *)

\* No request goes on after its end.
LEMMA DoneStays ==
  ASSUME AInv, [AccessNext]_accessVars
  PROVE  \A r \in Requests : pc[r] = "done" => pc'[r] = "done"
<1> USE DEF AInv, AccessTypeOK, Go, Fails
<1>1. CASE \E r \in Starts : Start(r)
  BY <1>1 DEF Start
<1>2. CASE \E l \in Callbacks : VerifyGoogle(l) \/ ConsumeState(l) \/ Revoke(l)
  BY <1>2 DEF VerifyGoogle, ConsumeState, Revoke
<1>3. CASE \E r \in Requests : Discover(r) \/ Fetch(r) \/ CreateTransaction(r) \/ Exchange(r)
  BY <1>3 DEF Discover, Fetch, CreateTransaction, Exchange
<1>4. CASE \E l \in Callbacks : ConsumeCredential(l) \/ Upsert(l) \/ Provision(l) \/ Issue(l)
  BY <1>4 DEF ConsumeCredential, Upsert, Provision, Issue
<1>5. CASE \E q \in Calls : Arrive(q) \/ ValidateCsrf(q) \/ CurrentPrincipal(q) \/ Answered(q)
  BY <1>5 DEF Arrive, ValidateCsrf, CurrentPrincipal, Answered, CallAt
<1>6. CASE (\E a \in Accounts : Deactivate(a)) \/ CleanupExpired \/ Tick \/ UNCHANGED accessVars
  BY <1>6 DEF Deactivate, CleanupExpired, Tick, accessVars
<1>7. CASE Crash
  BY <1>7 DEF Crash
<1> QED
  BY <1>1, <1>2, <1>3, <1>4, <1>5, <1>6, <1>7 DEF AccessNext, Step

\* Every step keeps what is said of each place of a request.
LEMMA PlacesStep ==
  ASSUME AInv, [AccessNext]_accessVars
  PROVE  PlacesOK'
<1> USE DEF AInv, AccessTypeOK, Go, Fails, PlacesOK
<1>1. CASE \E r \in Starts : Start(r)
  BY <1>1 DEF Start
<1>2. CASE \E l \in Callbacks : VerifyGoogle(l) \/ ConsumeState(l) \/ Revoke(l)
  BY <1>2 DEF VerifyGoogle, ConsumeState, Revoke
<1>3. CASE \E r \in Requests : Discover(r) \/ Fetch(r) \/ CreateTransaction(r) \/ Exchange(r)
  BY <1>3 DEF Discover, Fetch, CreateTransaction, Exchange
<1>4. CASE \E l \in Callbacks : ConsumeCredential(l) \/ Upsert(l) \/ Provision(l) \/ Issue(l)
  BY <1>4 DEF ConsumeCredential, Upsert, Provision, Issue
<1>5. CASE \E q \in Calls : Arrive(q) \/ ValidateCsrf(q) \/ CurrentPrincipal(q) \/ Answered(q)
  BY <1>5 DEF Arrive, ValidateCsrf, CurrentPrincipal, Answered, CallAt
<1>6. CASE (\E a \in Accounts : Deactivate(a)) \/ CleanupExpired \/ Tick \/ UNCHANGED accessVars
  BY <1>6 DEF Deactivate, CleanupExpired, Tick, accessVars
<1>7. CASE Crash
  BY <1>7 DEF Crash
<1> QED
  BY <1>1, <1>2, <1>3, <1>4, <1>5, <1>6, <1>7 DEF AccessNext, Step

\* A credential is forgotten only when verification refuses it as well.
LEMMA CredentialStep ==
  ASSUME AInv, [AccessNext]_accessVars, NEW c \in Credentials
  PROVE  CredentialOK(c)'
<1>0. /\ now \in Nat /\ ExpiryOf[c] \in Nat /\ CredentialOK(c)
      /\ uses \in [Proofs -> Nat] /\ c \in Proofs
  BY ProofsOK DEF AInv, AccessTypeOK, Proofs
<1>1. CASE \E l \in Callbacks : ConsumeCredential(l)
  <2>1. PICK l \in Callbacks : ConsumeCredential(l)
    BY <1>1
  <2> DEFINE d == ProofOf[l]
  <2>2. now' = now /\ d \in Credentials
    BY <2>1 DEF ConsumeCredential, AInv, PlacesOK, Requests
  <2>3. CASE c # d
    <3>1. uses'[c] = uses[c] /\ (c \in spent /\ now <= ExpiryOf[c] => c \in spent')
      BY <1>0, <2>1, <2>3 DEF ConsumeCredential, Remembered
    <3> QED
      BY <1>0, <2>2, <3>1 DEF CredentialOK
  <2>4. CASE c = d /\ c \in spent /\ now <= ExpiryOf[c]
    <3>1. uses'[c] = uses[c] /\ c \in spent'
      BY <2>1, <2>4 DEF ConsumeCredential, Remembered
    <3> QED
      BY <1>0, <2>2, <3>1 DEF CredentialOK
  <2>5. CASE c = d /\ ~(c \in spent /\ now <= ExpiryOf[c])
    <3>1. /\ c \in spent'
          /\ uses'[c] = uses[c] + 1
      BY <1>0, <2>1, <2>5 DEF ConsumeCredential, Remembered
    <3> QED
      BY <1>0, <2>2, <2>5, <3>1 DEF CredentialOK
  <2> QED
    BY <2>3, <2>4, <2>5
<1>2. CASE \E l \in Callbacks : ConsumeState(l)
  <2>1. PICK l \in Callbacks : ConsumeState(l)
    BY <1>2
  <2>2. ProofOf[l] # c /\ now' = now /\ spent' = spent
    BY <2>1, StatesAreFresh DEF ConsumeState
  <2>3. uses'[c] = uses[c]
    BY <1>0, <2>1, <2>2 DEF ConsumeState
  <2> QED
    BY <1>0, <2>2, <2>3 DEF CredentialOK
<1>3. CASE UNCHANGED <<uses, spent>> /\ now' \in {now, now + 1}
  BY <1>0, <1>3 DEF CredentialOK
<1>4. \/ \E l \in Callbacks : ConsumeCredential(l) \/ ConsumeState(l)
      \/ UNCHANGED <<uses, spent>> /\ now' \in {now, now + 1}
  BY DEF AccessNext, Step, accessVars, tables, discovery, history, Start, Discover, Fetch, CreateTransaction,
         Exchange, VerifyGoogle, Upsert, Provision, Issue, Revoke, Arrive, ValidateCsrf,
         CurrentPrincipal, Answered, CallAt, Deactivate, CleanupExpired, Tick, Crash
<1> QED
  BY <1>1, <1>2, <1>3, <1>4

\* The row of a state is gone before the login goes on, and nobody writes it
\* again.
LEMMA StateStep ==
  ASSUME AInv, [AccessNext]_accessVars, NEW s \in States
  PROVE  StateOK(s)'
<1>0. /\ now \in Nat /\ now > 0 /\ StateOK(s) /\ transactions \in [States -> Nat]
      /\ uses \in [Proofs -> Nat] /\ s \in Proofs
  BY DEF AInv, AccessTypeOK, Proofs
<1>d. \A r \in Starts : pc[r] = "done" => pc'[r] = "done"
  BY DoneStays DEF Requests
<1>k. ASSUME uses'[s] = uses[s], transactions'[s] \in {transactions[s], 0}
      PROVE  StateOK(s)'
  BY <1>0, <1>d, <1>k DEF StateOK, Known
<1>1. CASE \E l \in Callbacks : ConsumeCredential(l)
  <2>1. PICK l \in Callbacks : ConsumeCredential(l)
    BY <1>1
  <2>2. ProofOf[l] # s
    BY <2>1, StatesAreFresh DEF ConsumeCredential, AInv, PlacesOK, Requests
  <2>3. uses'[s] = uses[s] /\ transactions' = transactions
    BY <1>0, <2>1, <2>2 DEF ConsumeCredential
  <2> QED
    BY <1>k, <2>3
<1>2. CASE \E l \in Callbacks : ConsumeState(l)
  <2>1. PICK l \in Callbacks : ConsumeState(l)
    BY <1>2
  <2>2. transactions'[s] \in {transactions[s], 0} /\ (ProofOf[l] = s => transactions'[s] = 0)
    BY <2>1 DEF ConsumeState
  <2>3. CASE uses'[s] = uses[s]
    BY <1>k, <2>2, <2>3
  <2>4. CASE uses'[s] # uses[s]
    <3>1. ProofOf[l] = s /\ Unexpired(s) /\ uses'[s] = uses[s] + 1 /\ Known(s)
      BY <1>0, <2>1, <2>4 DEF ConsumeState
    <3>2. uses[s] = 0
      BY <1>0, <3>1 DEF Unexpired, StateOK
    <3> QED
      BY <1>d, <2>2, <3>1, <3>2 DEF StateOK, Known
  <2> QED
    BY <2>3, <2>4
<1>3. CASE \E r \in Requests : CreateTransaction(r)
  <2>1. PICK r \in Requests : CreateTransaction(r)
    BY <1>3
  <2>2. CASE s = StateOf[r] /\ uses[s] = 1
    <3>1. PICK t \in Starts : StateOf[t] = s /\ pc[t] = "done"
      BY <1>0, <2>2 DEF StateOK, Known
    <3> QED
      BY <2>1, <2>2, <3>1, StatesAreFresh DEF CreateTransaction
  <2>3. CASE s = StateOf[r] /\ uses[s] # 1
    BY <1>0, <2>1, <2>3 DEF CreateTransaction, history, StateOK
  <2>4. CASE s # StateOf[r]
    BY <1>k, <2>1, <2>4 DEF CreateTransaction, history
  <2> QED
    BY <2>2, <2>3, <2>4
<1>4. \/ \E l \in Callbacks : ConsumeCredential(l) \/ ConsumeState(l)
      \/ \E r \in Requests : CreateTransaction(r)
      \/ uses' = uses /\ transactions' = transactions
  BY DEF AccessNext, Step, accessVars, tables, discovery, history, Start, Discover, Fetch,
         Exchange, VerifyGoogle, Upsert, Provision, Issue, Revoke, Arrive, ValidateCsrf,
         CurrentPrincipal, Answered, CallAt, Deactivate, CleanupExpired, Tick, Crash
<1> QED
  BY <1>1, <1>2, <1>3, <1>4, <1>k

\* Sessions come from logins that have made the directories.
LEMMA SessionStep ==
  ASSUME AInv, [AccessNext]_accessVars, NEW l \in Callbacks
  PROVE  SessionOK(l)'
<1>0. l \in Requests /\ roots \subseteq roots' /\ (pc[l] = "done" => pc'[l] = "done")
  <2>1. l \in Requests
    BY DEF Requests
  <2>2. CASE \E k \in Callbacks : Provision(k)
    BY <2>1, <2>2, DoneStays DEF Provision
  <2>3. CASE roots' = roots
    BY <2>1, <2>3, DoneStays
  <2> QED
    BY <2>2, <2>3 DEF AccessNext, Step, accessVars, tables, discovery, history, Start, Discover, Fetch,
       CreateTransaction, Exchange, VerifyGoogle, ConsumeCredential, ConsumeState, Upsert, Issue,
       Revoke, Arrive, ValidateCsrf, CurrentPrincipal, Answered, CallAt, Deactivate,
       CleanupExpired, Tick, Crash
<1>t. /\ pc \in [Requests -> {"off", "consume", "discover", "fetch", "discovered", "upsert",
                              "provision", "issue", "done", "failed"}]
      /\ sessions \in [Callbacks -> [status : {"none", "live", "revoked"}, expires : Nat]]
      /\ SessionOK(l)
  BY DEF AInv, AccessTypeOK
<1>1. CASE \E k \in Callbacks : Provision(k)
  <2>1. PICK k \in Callbacks : Provision(k)
    BY <1>1
  <2>2. sessions' = sessions /\ k \in Requests
    BY <2>1 DEF Provision, tables, Requests
  <2>3. CASE k = l
    BY <1>0, <1>t, <2>1, <2>2, <2>3 DEF Provision, SessionOK, Account, Go, Fails
  <2>4. CASE k # l
    <3>1. pc'[l] = pc[l] /\ sessions'[l] = sessions[l]
      BY <1>0, <1>t, <2>1, <2>2, <2>4 DEF Provision, Go, Fails
    <3> QED
      BY <1>0, <1>t, <3>1 DEF SessionOK, Account
  <2> QED
    BY <2>3, <2>4
<1>2. CASE \E k \in Callbacks : Issue(k)
  <2>1. PICK k \in Callbacks : Issue(k)
    BY <1>2
  <2>2. k \in Requests /\ roots' = roots
    BY <2>1 DEF Issue, Requests
  <2>3. CASE k = l
    BY <1>0, <1>t, <2>1, <2>2, <2>3 DEF Issue, SessionOK, Account, Go
  <2>4. CASE k # l
    <3>1. pc'[l] = pc[l] /\ sessions'[l] = sessions[l]
      BY <1>0, <1>t, <2>1, <2>2, <2>4 DEF Issue, Go
    <3> QED
      BY <1>0, <1>t, <3>1 DEF SessionOK, Account
  <2> QED
    BY <2>3, <2>4
<1>3. CASE /\ sessions' = sessions \/ CleanupExpired \/ Crash \/ \E k \in Callbacks : Revoke(k)
           /\ pc'[l] = "issue" => pc[l] = "issue"
  <2>1. \/ sessions'[l] = sessions[l] \/ sessions'[l].status = "none"
        \/ sessions[l].status = "live" /\ sessions'[l].status = "revoked"
    BY <1>t, <1>3 DEF CleanupExpired, Crash, Revoke, NoSession
  <2>2. pc'[l] = "issue" => pc[l] = "issue"
    BY <1>3
  <2> QED
    BY <1>0, <1>t, <2>1, <2>2 DEF SessionOK, Account
<1>4. CASE \E r \in Requests : Discover(r) \/ Fetch(r) \/ CreateTransaction(r) \/ Exchange(r)
  <2>1. sessions' = sessions /\ (pc'[l] = "issue" => pc[l] = "issue")
    BY <1>0, <1>t, <1>4 DEF Discover, Fetch, CreateTransaction, Exchange, tables, Go, Fails
  <2> QED
    BY <1>3, <2>1
<1>5. CASE \/ \E r \in Starts : Start(r)
           \/ \E k \in Callbacks : VerifyGoogle(k) \/ ConsumeState(k) \/ Revoke(k)
  <2>1. pc'[l] = "issue" => pc[l] = "issue"
    BY <1>0, <1>t, <1>5 DEF Start, VerifyGoogle, ConsumeState, Revoke, Go, Fails
  <2>2. sessions' = sessions \/ \E k \in Callbacks : Revoke(k)
    BY <1>5 DEF Start, VerifyGoogle, ConsumeState, tables
  <2> QED
    BY <1>3, <2>1, <2>2
<1>6. CASE \E k \in Callbacks : ConsumeCredential(k) \/ Upsert(k)
  <2>1. sessions' = sessions /\ (pc'[l] = "issue" => pc[l] = "issue")
    BY <1>0, <1>t, <1>6 DEF ConsumeCredential, Upsert, Go, Fails
  <2> QED
    BY <1>3, <2>1
<1>7. CASE \E q \in Calls : Arrive(q) \/ ValidateCsrf(q) \/ CurrentPrincipal(q) \/ Answered(q)
  BY <1>3, <1>7 DEF Arrive, ValidateCsrf, CurrentPrincipal, Answered, CallAt, tables
<1>8. CASE (\E a \in Accounts : Deactivate(a)) \/ CleanupExpired \/ Tick \/ UNCHANGED accessVars
  BY <1>3, <1>8 DEF Deactivate, CleanupExpired, Tick, accessVars, tables
<1>9. CASE Crash
  BY <1>0, <1>t, <1>3, <1>9 DEF Crash
<1> QED
  BY <1>1, <1>2, <1>4, <1>5, <1>6, <1>7, <1>8, <1>9 DEF AccessNext, Step

\* A call that arrives after a logout finds no live row at either look-up.
LEMMA CallStep ==
  ASSUME AInv, [AccessNext]_accessVars, NEW q \in Calls
  PROVE  CallOK(q)'
<1> DEFINE l == CookieOf[q]
<1>0. /\ l \in Callbacks /\ l \in Requests /\ (pc[l] = "done" => pc'[l] = "done")
      /\ call \in [Calls -> {"off", "csrf", "lookup", "acts"}] /\ CallOK(q) /\ SessionOK(l)
      /\ sessions \in [Callbacks -> [status : {"none", "live", "revoked"}, expires : Nat]]
  BY ProofsOK, DoneStays DEF Requests, AInv, AccessTypeOK
<1>1. CASE \E p \in Calls : Arrive(p) \/ ValidateCsrf(p) \/ CurrentPrincipal(p) \/ Answered(p)
  <2>1. PICK p \in Calls : Arrive(p) \/ ValidateCsrf(p) \/ CurrentPrincipal(p) \/ Answered(p)
    BY <1>1
  <2>2. sessions' = sessions /\ roots' = roots /\ pc' = pc
    BY <2>1 DEF Arrive, ValidateCsrf, CurrentPrincipal, Answered, CallAt, tables
  <2>3. CASE p # q
    <3>1. call'[q] = call[q] /\ (q \in late' <=> q \in late)
      BY <1>0, <2>1, <2>3 DEF Arrive, ValidateCsrf, CurrentPrincipal, Answered, CallAt
    <3> QED
      BY <2>2, <3>1, CallKept
  <2>4. CASE p = q /\ (Arrive(q) \/ ValidateCsrf(q))
    BY <1>0, <2>2, <2>4 DEF Arrive, ValidateCsrf, CallAt, SignedOut, RowIsValid, CallOK
  <2>5. CASE p = q /\ CurrentPrincipal(q)
    BY <1>0, <2>2, <2>5 DEF CurrentPrincipal, CallAt, RowIsValid, CallOK, SessionOK, Account
  <2>6. CASE p = q /\ Answered(q)
    BY <1>0, <2>2, <2>6 DEF Answered, CallAt, CallOK
  <2> QED
    BY <2>1, <2>3, <2>4, <2>5, <2>6
<1>2. CASE \E k \in Callbacks : Issue(k)
  <2>1. PICK k \in Callbacks : Issue(k)
    BY <1>2
  <2>2. /\ call' = call /\ late' = late /\ roots' = roots
        /\ pc[l] = "done" => sessions'[l] = sessions[l]
    BY <1>0, <2>1 DEF Issue, history
  <2> QED
    BY <1>0, <2>2, CallKept
<1>3. CASE /\ call' = call /\ late' = late /\ roots \subseteq roots'
           /\ sessions' = sessions \/ CleanupExpired \/ \E k \in Callbacks : Revoke(k)
  <2>1. sessions'[l].status = "live" => sessions[l].status = "live"
    BY <1>0, <1>3 DEF CleanupExpired, Revoke, NoSession
  <2> QED
    BY <1>0, <1>3, <2>1, CallKept
<1>4. CASE Crash
  BY <1>4 DEF Crash, CallOK
<1>5. \/ \E p \in Calls : Arrive(p) \/ ValidateCsrf(p) \/ CurrentPrincipal(p) \/ Answered(p)
      \/ \E k \in Callbacks : Issue(k)
      \/ Crash
      \/ /\ call' = call /\ late' = late /\ roots \subseteq roots'
         /\ sessions' = sessions \/ CleanupExpired \/ \E k \in Callbacks : Revoke(k)
  BY DEF AccessNext, Step, accessVars, tables, discovery, history, Start, Discover, Fetch, CreateTransaction,
         Exchange, VerifyGoogle, ConsumeCredential, ConsumeState, Upsert, Provision, Revoke,
         Deactivate, CleanupExpired, Tick
<1> QED
  BY <1>1, <1>2, <1>3, <1>4, <1>5

\* Every step keeps the invariant.
LEMMA NextAInv ==
  ASSUME AInv, [AccessNext]_accessVars
  PROVE  AInv'
<1>1. AccessTypeOK'
  BY TypeStep DEF AInv
<1>2. now' > 0
  <2>1. now \in Nat /\ now > 0 /\ now' \in {now, now + 1}
    BY DEF AInv, AccessTypeOK, AccessNext, Step, accessVars, tables, discovery, history,
       Start, Discover, Fetch,
           CreateTransaction, Exchange, VerifyGoogle, ConsumeCredential, ConsumeState, Upsert,
           Provision, Issue, Revoke, Arrive, ValidateCsrf, CurrentPrincipal, Answered, CallAt,
           Deactivate, CleanupExpired, Tick, Crash
  <2> QED
    BY <2>1
<1> QED
  BY <1>1, <1>2, PlacesStep, CredentialStep, StateStep, SessionStep, CallStep DEF AInv

-----------------------------------------------------------------------------

\* The inductive invariant of signing in: what is spent stays spent for as long
\* as it could be presented, and sessions belong to provisioned users.
THEOREM AccessInvariance == AccessSpec => []AInv
<1>1. AccessInit => AInv
  BY InitAInv
<1>2. AInv /\ [AccessNext]_accessVars => AInv'
  BY NextAInv
<1> QED
  BY <1>1, <1>2, PTL DEF AccessSpec

\* A state token and an unexpired Google credential have signed in once at most,
\* whatever number of callbacks present them at a time and whenever the process
\* dies (Database.consume_google_credential, consume_oauth_transaction).
THEOREM ProofsSignInOnce == AccessSpec => []ProofsAreUsedOnce
<1>1. AInv => ProofsAreUsedOnce
  BY ProofsOK DEF AInv, AccessTypeOK, ProofsAreUsedOnce, Proofs, CredentialOK, StateOK
<1> QED
  BY <1>1, AccessInvariance, PTL

\* No call that arrives after the logout of its session acts, and whoever acts
\* has directories (SessionService.get_current_session, upsert_oidc_user).
THEOREM CallsActByRight == AccessSpec => []CallsAreEntitled
<1>1. AInv => CallsAreEntitled
  BY DEF AInv, CallsAreEntitled, CallOK
<1> QED
  BY <1>1, AccessInvariance, PTL

-----------------------------------------------------------------------------
(***************************************************************************)
(* What the event hub promises to any number of streams and sessions, with *)
(* queues of any size: no event is lost in silence, numbers only grow, and *)
(* a logout closes every stream of its session.                            *)
(***************************************************************************)

\* What waits in a queue is in the order of its numbers, and newer than what
\* the stream has yielded.
Ordered(s) ==
  /\ sending[s] <= seq
  /\ \A k \in 1..Len(queue[s]) :
       /\ queue[s][k].seq <= seq
       /\ queue[s][k].kind # "end" => queue[s][k].seq > sending[s]
  /\ \A j, k \in 1..Len(queue[s]) : j < k => queue[s][j].seq < queue[s][k].seq

\* A stream that has not registered yet has no subscription.
Fresh(s) == at[s] \in {"off", "register"} => ~closed[s] /\ s \notin subscribers

StreamOK(s) == Announced(s) /\ Wakes(s) /\ LoggedOut(s) /\ Ordered(s) /\ Fresh(s)

HInv ==
  /\ HubTypeOK
  /\ IsFiniteSet(subscribers)
  /\ \A s \in Streams : StreamOK(s)

\* The invariant of the hub holds at first.
LEMMA InitHInv ==
  ASSUME HubInit
  PROVE  HInv
<1>1. IsFiniteSet(subscribers)
  BY FS_EmptySet DEF HubInit
<1>2. HubTypeOK
  <2>1. /\ \A s \in Streams : queue[s] = <<>> /\ Len(queue[s]) = 0
        /\ queue \in [Streams -> Seq(Events)] /\ owed \in [Streams -> Seq(Nat)]
    BY DEF HubInit
  <2>2. \A s \in Streams : Len(queue[s]) <= QueueSize
    BY <2>1, QueueSizeIsPositive
  <2>3. /\ seq \in Nat /\ subscribers \in SUBSET Streams /\ hubClosed \in BOOLEAN
        /\ closed \in [Streams -> BOOLEAN] /\ sending \in [Streams -> Nat]
        /\ revoked \in SUBSET Sessions /\ closers \in SUBSET revoked
        /\ expired \in SUBSET Sessions
    BY DEF HubInit
  <2>4. at \in [Streams -> {"off", "register", "recheck", "top", "wait", "send", "sendLast",
                           "leave", "done"}]
    BY DEF HubInit
  <2> QED
    BY <2>1, <2>2, <2>3, <2>4 DEF HubTypeOK
<1>3. \A s \in Streams : StreamOK(s)
  BY DEF HubInit, StreamOK, Announced, Serving, Wakes, LoggedOut, Ordered, Fresh
<1> QED
  BY <1>1, <1>2, <1>3 DEF HInv

\* The events of a queue.
LEMMA Held ==
  ASSUME HubTypeOK, NEW s \in Streams
  PROVE  /\ queue[s] \in Seq(Events) /\ Len(queue[s]) \in Nat
         /\ \A k \in 1..Len(queue[s]) : queue[s][k] \in Events /\ queue[s][k].seq \in Nat
<1>1. queue[s] \in Seq(Events)
  BY DEF HubTypeOK
<1>2. \A k \in 1..Len(queue[s]) : queue[s][k] \in Events
  BY <1>1
<1>3. \A e \in Events : e.seq \in Nat
  BY DEF Events
<1> QED
  BY <1>1, <1>2, <1>3

\* A step that leaves a stream's own state alone keeps its invariant.
LEMMA Untouched ==
  ASSUME HInv, NEW s \in Streams,
         seq' \in Nat, seq' >= seq, s \in subscribers' <=> s \in subscribers,
         queue'[s] = queue[s], closed'[s] = closed[s], at'[s] = at[s],
         sending'[s] = sending[s], owed'[s] = owed[s],
         SessionOf[s] \in revoked' \ closers' => SessionOf[s] \in revoked \ closers
  PROVE  StreamOK(s)'
<1> USE DEF HInv, StreamOK
<1>1. Announced(s)'
  BY DEF Announced, Serving, Numbers
<1>2. Wakes(s)' /\ LoggedOut(s)' /\ Fresh(s)'
  BY DEF Wakes, LoggedOut, Fresh
<1>3. Ordered(s)'
  <2> DEFINE q == queue[s]
  <2>1. \A k \in 1..Len(q) : q[k].seq \in Nat
    BY Held
  <2>2. /\ sending[s] <= seq
        /\ \A k \in 1..Len(q) : q[k].seq <= seq /\ (q[k].kind # "end" => q[k].seq > sending[s])
        /\ \A j, k \in 1..Len(q) : j < k => q[j].seq < q[k].seq
    BY DEF Ordered
  <2>3. seq \in Nat /\ sending[s] \in Nat
    BY DEF HubTypeOK
  <2>4. queue'[s] = q /\ sending'[s] = sending[s] /\ seq' \in Nat /\ seq' >= seq
    OBVIOUS
  <2> HIDE DEF q, HInv, StreamOK
  <2>5. sending'[s] <= seq' /\ \A k \in 1..Len(q) : q[k].seq <= seq'
    BY <2>1, <2>2, <2>3, <2>4
  <2> QED
    BY <2>2, <2>4, <2>5 DEF Ordered
<1> QED
  BY <1>1, <1>2, <1>3

\* The streams that a logout, the end of a stream or the shutdown closes.
LEMMA ClosedOK ==
  ASSUME HInv, NEW S \in SUBSET Streams, CloseSubscriptions(S),
         subscribers' = subscribers \ S, NEW s \in S,
         at'[s] = at[s] \/ at'[s] = "done", seq' = seq, sending'[s] = sending[s],
         S \subseteq subscribers \/ at'[s] = "done"
  PROVE  StreamOK(s)'
<1> USE DEF HInv, StreamOK
<1>1. s \in Streams /\ closed'[s] /\ s \notin subscribers'
  BY DEF CloseSubscriptions, HubTypeOK
<1>2. queue'[s] = IF closed[s] THEN queue[s] ELSE <<End>>
  BY DEF CloseSubscriptions
<1>3. /\ End.kind = "end" /\ End.seq = 0
      /\ Len(<<End>>) = 1 /\ <<End>>[1] = End /\ <<End>> # <<>>
  BY DEF End, Event
<1>4. Announced(s)'
  BY <1>1, <1>2, <1>3 DEF Announced
<1>5. Wakes(s)'
  BY <1>1, <1>2, <1>3 DEF Wakes
<1>6. LoggedOut(s)'
  BY <1>1 DEF LoggedOut
<1>7. Ordered(s)'
  <2>1. seq \in Nat
    BY DEF HubTypeOK
  <2>2. CASE closed[s]
    BY <1>2, <2>2 DEF Ordered
  <2>3. CASE ~closed[s]
    <3>1. queue'[s] = <<End>>
      BY <1>2, <2>3
    <3> QED
      BY <1>3, <2>1, <3>1 DEF Ordered
  <2> QED
    BY <2>2, <2>3
<1>8. Fresh(s)'
  BY <1>1 DEF Fresh
<1> QED
  BY <1>4, <1>5, <1>6, <1>7, <1>8

\* Closing subscriptions keeps the queues within their bound.
LEMMA ClosedTypes ==
  ASSUME HubTypeOK, NEW S \in SUBSET Streams, CloseSubscriptions(S)
  PROVE  /\ queue' \in [Streams -> Seq(Events)]
         /\ \A s \in Streams : Len(queue'[s]) <= QueueSize
         /\ closed' \in [Streams -> BOOLEAN]
         /\ \A s \in Streams \ S : queue'[s] = queue[s] /\ closed'[s] = closed[s]
<1>1. End \in Events /\ <<End>> \in Seq(Events) /\ Len(<<End>>) = 1
  BY DEF End, Event, Events
<1>2. queue' \in [Streams -> Seq(Events)]
  BY <1>1 DEF CloseSubscriptions, HubTypeOK
<1>3. closed' \in [Streams -> BOOLEAN]
  BY DEF CloseSubscriptions, HubTypeOK
<1>4. \A s \in Streams : Len(queue'[s]) <= QueueSize
  BY <1>1, QueueSizeIsPositive DEF CloseSubscriptions, HubTypeOK
<1>5. \A s \in Streams \ S : queue'[s] = queue[s] /\ closed'[s] = closed[s]
  BY DEF CloseSubscriptions, HubTypeOK
<1> QED
  BY <1>2, <1>3, <1>4, <1>5

----------------------------------------------------------------------------
\* One lemma per step that changes more than a stream's place.

\* publish keeps it: a full queue is emptied and the loss is announced.
LEMMA PublishInv ==
  ASSUME HInv, NEW u \in Users, Publish(u)
  PROVE  HInv'
<1> DEFINE heard == {s \in subscribers : StreamUser(s) = u}
           full == {s \in heard : Len(queue[s]) >= QueueSize}
           Hint == Event("hint", seq + 1)
<1> USE DEF HInv
<1>1. PICK resync \in [full -> (seq + 2)..seq'] :
        queue' = [s \in Streams |->
                    IF s \in full THEN <<Event("resync", resync[s])>>
                    ELSE IF s \in heard THEN Append(queue[s], Hint)
                    ELSE queue[s]]
  BY DEF Publish
<1>2. /\ seq' = seq + 1 + Cardinality(full)
      /\ closed' = [s \in Streams |-> closed[s] \/ s \in full]
      /\ subscribers' = subscribers \ full
      /\ owed' = [s \in Streams |-> IF s \in heard THEN Append(owed[s], seq + 1) ELSE owed[s]]
      /\ UNCHANGED <<hubClosed, at, sending, revoked, closers, expired>>
  BY DEF Publish, sessionVars
<1>3. IsFiniteSet(full) /\ Cardinality(full) \in Nat
  <2>1. full \subseteq subscribers
    OBVIOUS
  <2> QED
    BY <2>1, FS_Subset, FS_CardinalityType
<1>4. /\ full \subseteq heard /\ heard \subseteq subscribers /\ subscribers \subseteq Streams
      /\ \A s \in heard \ full : Len(queue[s]) < QueueSize
  <2>1. \A s \in Streams : Len(queue[s]) \in Nat
    BY Held
  <2> QED
    BY <2>1, QueueSizeIsPositive DEF HubTypeOK
<1>5. /\ seq \in Nat /\ seq' \in Nat /\ seq' >= seq + 1
      /\ Hint \in Events /\ Hint.kind = "hint" /\ Hint.seq = seq + 1
  BY <1>2, <1>3 DEF HubTypeOK, Event, Events
<1>6. \A s \in full :
        LET e == Event("resync", resync[s])
        IN  /\ e \in Events /\ e.kind = "resync" /\ e.seq > seq /\ e.seq <= seq'
            /\ queue'[s] = <<e>>
  BY <1>1, <1>4, <1>5 DEF Event, Events
<1> HIDE DEF heard, full, Hint
<1>7. \A s \in heard \ full :
        /\ queue'[s] = Append(queue[s], Hint) /\ owed'[s] = Append(owed[s], seq + 1)
        /\ ~closed'[s] /\ s \in subscribers'
  <2>1. \A s \in heard \ full : ~closed[s]
    BY <1>4 DEF StreamOK, Announced
  <2> QED
    BY <1>1, <1>2, <1>4, <2>1
<1>8. \A s \in Streams \ heard :
        queue'[s] = queue[s] /\ owed'[s] = owed[s] /\ closed'[s] = closed[s]
        /\ (s \in subscribers' <=> s \in subscribers)
  BY <1>1, <1>2, <1>4 DEF HubTypeOK
<1>9. HubTypeOK'
  <2>1. \A s \in Streams : queue'[s] \in Seq(Events) /\ Len(queue'[s]) <= QueueSize
    <3> TAKE s \in Streams
    <3>1. CASE s \in full
      <4>1. PICK e \in Events : queue'[s] = <<e>>
        BY <1>6, <3>1
      <4>2. queue'[s] \in Seq(Events) /\ Len(queue'[s]) = 1
        BY <4>1
      <4> QED
        BY <4>2, QueueSizeIsPositive
    <3>2. CASE s \in heard \ full
      <4>1. queue[s] \in Seq(Events) /\ Len(queue[s]) \in Nat /\ Len(queue[s]) < QueueSize
        BY <1>4, <3>2, Held
      <4>2. queue'[s] = Append(queue[s], Hint)
        BY <1>7, <3>2
      <4>3. queue'[s] \in Seq(Events)
        BY <1>5, <4>1, <4>2
      <4>4. Len(queue'[s]) = Len(queue[s]) + 1
        BY <4>1, <4>2
      <4> QED
        BY <4>1, <4>3, <4>4, QueueSizeIsPositive
    <3>3. CASE s \notin heard
      BY <1>8, <3>3, Held DEF HubTypeOK
    <3> QED
      BY <3>1, <3>2, <3>3
  <2>2. queue' \in [Streams -> Seq(Events)]
    BY <1>1, <2>1
  <2>3. owed' \in [Streams -> Seq(Nat)]
    BY <1>2, <1>5 DEF HubTypeOK
  <2> QED
    BY <1>2, <1>4, <1>5, <2>1, <2>2, <2>3 DEF HubTypeOK
<1>10. IsFiniteSet(subscribers')
  BY <1>2, FS_Subset
<1>11. ASSUME NEW s \in Streams
       PROVE  StreamOK(s)'
  <2>1. CASE s \in full
    <3>1. closed'[s] /\ s \notin subscribers'
      BY <1>2, <2>1
    <3>2. PICK e \in Events : /\ e.kind = "resync" /\ e.seq > seq /\ e.seq <= seq'
                              /\ queue'[s] = <<e>>
      BY <1>6, <2>1
    <3>3. Len(queue'[s]) = 1 /\ queue'[s][1] = e /\ queue'[s] # <<>>
      BY <3>2
    <3>4. sending'[s] \in Nat /\ sending'[s] <= seq /\ e.seq \in Nat
      BY <1>2 DEF StreamOK, Ordered, HubTypeOK, Events
    <3>5. Announced(s)' /\ Wakes(s)' /\ LoggedOut(s)'
      BY <3>1, <3>2, <3>3 DEF Announced, Wakes, LoggedOut
    <3>6. Ordered(s)'
      BY <1>5, <3>2, <3>3, <3>4 DEF Ordered
    <3>7. at'[s] \notin {"off", "register"}
      BY <1>2, <1>4, <2>1 DEF StreamOK, Fresh
    <3> QED
      BY <3>5, <3>6, <3>7 DEF StreamOK, Fresh
  <2>2. CASE s \in heard \ full
    <3> DEFINE q == queue[s]
               n == Len(q)
    <3>1. /\ q \in Seq(Events) /\ n \in Nat
          /\ \A k \in 1..n : q[k].seq \in Nat
      BY Held
    <3>2. /\ queue'[s] = Append(q, Hint) /\ Len(queue'[s]) = n + 1
          /\ queue'[s][n + 1] = Hint
          /\ \A k \in 1..n : queue'[s][k] = q[k]
      BY <1>5, <1>7, <2>2, <3>1
    <3>3. ~closed'[s] /\ s \in subscribers' /\ at'[s] = at[s] /\ ~closed[s]
          /\ owed[s] \in Seq(Nat) /\ owed'[s] = Append(owed[s], seq + 1)
          /\ s \in subscribers
      BY <1>2, <1>4, <1>7, <2>2 DEF HubTypeOK, StreamOK, Announced
    <3> HIDE DEF q, n
    <3>4. Announced(s)'
      <4> SUFFICES ASSUME Serving(s)
                   PROVE  Numbers(queue'[s]) = owed'[s]
        BY <3>3 DEF Announced, Serving
      <4>1. owed[s] = [k \in 1..n |-> q[k].seq]
        BY <3>3 DEF StreamOK, Announced, Numbers, q, n
      <4>2. Len(owed[s]) = n /\ \A k \in 1..n : owed[s][k] = q[k].seq
        BY <3>1, <3>3, <4>1
      <4>3. owed'[s] = [k \in 1..(n + 1) |-> IF k = n + 1 THEN seq + 1 ELSE q[k].seq]
        BY <1>5, <3>1, <3>3, <4>2
      <4>4. \A k \in 1..(n + 1) :
              queue'[s][k].seq = IF k = n + 1 THEN seq + 1 ELSE q[k].seq
        BY <1>5, <3>1, <3>2
      <4> QED
        BY <3>2, <4>3, <4>4 DEF Numbers
    <3>5. Ordered(s)'
      <4>1. /\ sending'[s] = sending[s] /\ sending[s] \in Nat /\ sending[s] <= seq
            /\ \A k \in 1..n : q[k].seq <= seq /\ (q[k].kind # "end" => q[k].seq > sending[s])
            /\ \A j, k \in 1..n : j < k => q[j].seq < q[k].seq
        BY <1>2 DEF StreamOK, Ordered, HubTypeOK, q, n
      <4>2. \A k \in 1..(n + 1) : k \in 1..n \/ k = n + 1
        BY <3>1
      <4>3. ASSUME NEW k \in 1..(n + 1)
            PROVE  /\ queue'[s][k].seq <= seq'
                   /\ queue'[s][k].kind # "end" => queue'[s][k].seq > sending'[s]
        BY <1>5, <3>1, <3>2, <4>1, <4>2
      <4>4. ASSUME NEW j \in 1..(n + 1), NEW k \in 1..(n + 1), j < k
            PROVE  queue'[s][j].seq < queue'[s][k].seq
        <5>1. j \in 1..n
          BY <3>1, <4>4
        <5> QED
          BY <1>5, <3>1, <3>2, <4>1, <4>2, <4>4, <5>1
      <4> QED
        BY <1>5, <3>2, <4>1, <4>3, <4>4 DEF Ordered
    <3>6. Wakes(s)' /\ LoggedOut(s)' /\ Fresh(s)'
      BY <1>2, <3>3 DEF StreamOK, Wakes, LoggedOut, Fresh
    <3> QED
      BY <3>4, <3>5, <3>6 DEF StreamOK
  <2>3. CASE s \notin heard
    <3>1. at'[s] = at[s] /\ sending'[s] = sending[s] /\ seq' >= seq
      BY <1>2, <1>5
    <3> QED
      BY <1>2, <1>5, <1>8, <2>3, <3>1, Untouched
  <2> QED
    BY <2>1, <2>2, <2>3
<1> QED
  BY <1>9, <1>10, <1>11

\* Closing the hub keeps it.
LEMMA CloseHubInv ==
  ASSUME HInv, CloseHub
  PROVE  HInv'
<1> USE DEF HInv, CloseHub
<1>1. subscribers \in SUBSET Streams /\ subscribers' = subscribers \ subscribers
  BY DEF HubTypeOK
<1>2. HubTypeOK'
  BY <1>1, ClosedTypes DEF HubTypeOK, sessionVars
<1>3. ASSUME NEW s \in Streams
      PROVE  StreamOK(s)'
  <2>1. CASE s \in subscribers
    BY <1>1, <2>1, ClosedOK
  <2>2. CASE s \notin subscribers
    <3>1. queue'[s] = queue[s] /\ closed'[s] = closed[s]
      BY <1>1, <2>2, ClosedTypes
    <3> QED
      BY <1>1, <2>2, <3>1, Untouched DEF HubTypeOK, sessionVars
  <2> QED
    BY <2>1, <2>2
<1> QED
  BY <1>1, <1>2, <1>3, FS_EmptySet

\* After a logout a stream of the session is either closed, or was not
\* registered and will find the session revoked when it looks again.
LEMMA CloseSessionStreamsInv ==
  ASSUME HInv, NEW x \in Sessions, CloseSessionStreams(x)
  PROVE  HInv'
<1> DEFINE matches == {s \in subscribers : SessionOf[s] = x}
<1> USE DEF HInv
<1>1. /\ subscribers' = subscribers \ matches /\ CloseSubscriptions(matches)
      /\ matches \subseteq subscribers /\ matches \in SUBSET Streams
      /\ x \in closers /\ closers' = closers \ {x}
      /\ UNCHANGED <<seq, hubClosed, at, sending, revoked, expired, owed>>
  BY DEF CloseSessionStreams, HubTypeOK
<1>2. HubTypeOK'
  BY <1>1, ClosedTypes DEF HubTypeOK
<1>3. IsFiniteSet(subscribers')
  BY <1>1, FS_Subset
<1>4. ASSUME NEW s \in Streams
      PROVE  StreamOK(s)'
  <2>1. CASE s \in matches
    BY <1>1, <2>1, ClosedOK
  <2>2. CASE s \notin matches
    <3>1. queue'[s] = queue[s] /\ closed'[s] = closed[s]
      BY <1>1, <2>2, ClosedTypes
    <3>2. s \in subscribers' <=> s \in subscribers
      BY <1>1, <2>2
    <3>3. Announced(s)' /\ Wakes(s)' /\ Ordered(s)' /\ Fresh(s)'
      BY <1>1, <3>1, <3>2
         DEF StreamOK, Announced, Serving, Numbers, Wakes, Ordered, Fresh
    <3>4. LoggedOut(s)'
      <4>1. CASE SessionOf[s] = x
        <5>1. s \notin subscribers
          BY <2>2, <4>1
        <5>2. ~closed[s] => at[s] \notin {"top", "wait", "send"}
          BY <5>1 DEF StreamOK, Announced, Serving
        <5> QED
          BY <1>1, <3>1, <5>2 DEF LoggedOut
      <4>2. CASE SessionOf[s] # x
        BY <1>1, <3>1, <4>2 DEF StreamOK, LoggedOut
      <4> QED
        BY <4>1, <4>2
    <3> QED
      BY <3>3, <3>4 DEF StreamOK
  <2> QED
    BY <2>1, <2>2
<1> QED
  BY <1>2, <1>3, <1>4

\* A stream that leaves keeps it.
LEMMA LeaveInv ==
  ASSUME HInv, NEW s \in Streams, Leave(s)
  PROVE  HInv'
<1> USE DEF HInv
<1>1. /\ at' = [at EXCEPT ![s] = "done"] /\ subscribers' = subscribers \ {s}
      /\ {s} \in SUBSET Streams /\ CloseSubscriptions({s})
      /\ UNCHANGED <<seq, hubClosed, sending, revoked, closers, expired, owed>>
  BY DEF Leave, MoveTo, sessionVars
<1>2. HubTypeOK'
  BY <1>1, ClosedTypes DEF HubTypeOK
<1>3. IsFiniteSet(subscribers')
  BY <1>1, FS_Subset
<1>4. at'[s] = "done"
  BY <1>1 DEF HubTypeOK
<1>5. StreamOK(s)'
  BY <1>1, <1>4, ClosedOK
<1>6. ASSUME NEW t \in Streams \ {s}
      PROVE  StreamOK(t)'
  <2>1. queue'[t] = queue[t] /\ closed'[t] = closed[t]
    BY <1>1, ClosedTypes DEF HubTypeOK
  <2>2. at'[t] = at[t] /\ sending'[t] = sending[t] /\ owed'[t] = owed[t]
    BY <1>1 DEF HubTypeOK
  <2>3. seq' \in Nat /\ seq' >= seq /\ (t \in subscribers' <=> t \in subscribers)
    BY <1>1 DEF HubTypeOK
  <2> QED
    BY <1>1, <2>1, <2>2, <2>3, Untouched
<1> QED
  BY <1>2, <1>3, <1>5, <1>6

\* A registration keeps it.
LEMMA SubscribeInv ==
  ASSUME HInv, NEW s \in Streams, Subscribe(s), ~hubClosed
  PROVE  HInv'
<1> DEFINE e == Event("ready", seq + 1)
<1> USE DEF HInv
<1>1. /\ at[s] = "register" /\ at' = [at EXCEPT ![s] = "recheck"]
      /\ subscribers' = subscribers \union {s} /\ seq' = seq + 1
      /\ queue' = [queue EXCEPT ![s] = <<e>>] /\ owed' = [owed EXCEPT ![s] = <<seq + 1>>]
      /\ UNCHANGED <<closed, hubClosed, sending, revoked, closers, expired>>
  BY DEF Subscribe, MoveTo, sessionVars
<1>2. seq \in Nat /\ seq' \in Nat /\ e \in Events /\ e.seq = seq + 1 /\ e.kind = "ready"
  BY <1>1 DEF HubTypeOK, Event, Events
<1> HIDE DEF e
<1>3. /\ <<e>> \in Seq(Events) /\ Len(<<e>>) = 1 /\ <<e>>[1] = e
      /\ <<seq + 1>> \in Seq(Nat)
  BY <1>2
<1>4. queue'[s] = <<e>> /\ owed'[s] = <<seq + 1>> /\ at'[s] = "recheck"
  BY <1>1 DEF HubTypeOK
<1>5. HubTypeOK'
  <2>1. queue' \in [Streams -> Seq(Events)] /\ owed' \in [Streams -> Seq(Nat)]
    BY <1>1, <1>3 DEF HubTypeOK
  <2>2. \A t \in Streams : Len(queue'[t]) <= QueueSize
    BY <1>1, <1>3, QueueSizeIsPositive DEF HubTypeOK
  <2> QED
    BY <1>1, <1>2, <2>1, <2>2 DEF HubTypeOK
<1>6. IsFiniteSet(subscribers')
  BY <1>1, FS_AddElement
<1>7. StreamOK(s)'
  <2>1. ~closed'[s] /\ s \in subscribers'
    BY <1>1 DEF StreamOK, Fresh
  <2>2. Numbers(queue'[s]) = owed'[s]
    BY <1>2, <1>3, <1>4 DEF Numbers
  <2>3. Ordered(s)'
    <3>1. sending'[s] \in Nat /\ sending'[s] <= seq
      BY <1>1 DEF StreamOK, Ordered, HubTypeOK
    <3> QED
      BY <1>1, <1>2, <1>3, <1>4, <3>1 DEF Ordered
  <2> QED
    BY <1>4, <2>1, <2>2, <2>3 DEF StreamOK, Announced, Wakes, LoggedOut, Fresh
<1>8. ASSUME NEW t \in Streams \ {s}
      PROVE  StreamOK(t)'
  <2>1. queue'[t] = queue[t] /\ owed'[t] = owed[t] /\ at'[t] = at[t]
    BY <1>1 DEF HubTypeOK
  <2>2. closed'[t] = closed[t] /\ sending'[t] = sending[t]
    BY <1>1
  <2>3. seq' \in Nat /\ seq' >= seq /\ (t \in subscribers' <=> t \in subscribers)
    BY <1>1 DEF HubTypeOK
  <2> QED
    BY <1>1, <2>1, <2>2, <2>3, Untouched
<1> QED
  BY <1>5, <1>6, <1>7, <1>8

\* A stream that takes an event keeps it, and yields a greater number.
LEMMA TakeInv ==
  ASSUME HInv, NEW s \in Streams, Take(s)
  PROVE  HInv' /\ (sending'[s] # sending[s] => sending'[s] > sending[s])
             /\ \A t \in Streams \ {s} : sending'[t] = sending[t]
<1> DEFINE q == queue[s]
           e == Head(q)
           n == Len(q)
           place == CASE e.kind = "end" -> "leave"
                      [] e.kind = "resync" -> "sendLast"
                      [] OTHER -> "send"
<1> USE DEF HInv
<1>1. /\ at[s] = "wait" /\ q # <<>> /\ queue' = [queue EXCEPT ![s] = Tail(q)]
      /\ at' = [at EXCEPT ![s] = place]
      /\ sending' = [sending EXCEPT ![s] = IF e.kind = "end" THEN sending[s] ELSE e.seq]
      /\ owed' = [owed EXCEPT ![s] = IF e.kind \in {"ready", "hint"}
                                       THEN Tail(owed[s]) ELSE owed[s]]
      /\ UNCHANGED <<seq, subscribers, closed, hubClosed, revoked, closers, expired>>
  BY DEF Take, MoveTo, sessionVars
<1>2. /\ q \in Seq(Events) /\ n \in Nat /\ n > 0 /\ e = q[1] /\ e \in Events
      /\ Tail(q) \in Seq(Events) /\ Len(Tail(q)) = n - 1
      /\ \A k \in 1..(n - 1) : Tail(q)[k] = q[k + 1] /\ k + 1 \in 1..n
  BY <1>1, Held
<1>3. \A k \in 1..n : q[k] \in Events /\ q[k].seq \in Nat
  BY Held
<1> HIDE DEF q, e, n, place
<1>4. e.seq \in Nat /\ e.kind \in {"ready", "hint", "resync", "end"}
  BY <1>2 DEF Events
<1>5. place \in {"leave", "send", "sendLast"}
      /\ (place = "send" <=> e.kind \in {"ready", "hint"})
  BY <1>4 DEF place
<1>6. /\ queue'[s] = Tail(q) /\ at'[s] = place
      /\ sending'[s] = IF e.kind = "end" THEN sending[s] ELSE e.seq
      /\ owed'[s] = IF place = "send" THEN Tail(owed[s]) ELSE owed[s]
  BY <1>1, <1>5 DEF HubTypeOK
<1>7. \A t \in Streams \ {s} : /\ queue'[t] = queue[t] /\ at'[t] = at[t]
                               /\ sending'[t] = sending[t] /\ owed'[t] = owed[t]
  BY <1>1 DEF HubTypeOK
<1>8. /\ sending[s] \in Nat /\ sending[s] <= seq /\ seq \in Nat
      /\ \A k \in 1..n : q[k].seq <= seq /\ (q[k].kind # "end" => q[k].seq > sending[s])
      /\ \A j, k \in 1..n : j < k => q[j].seq < q[k].seq
  BY DEF StreamOK, Ordered, HubTypeOK, q, n
<1>9. sending'[s] # sending[s] => sending'[s] > sending[s]
  BY <1>2, <1>4, <1>6, <1>8
\* An open stream that is served is owed exactly what its queue holds.
<1>10. Serving(s)
  BY <1>1 DEF Serving
<1>11. ~closed[s] => s \in subscribers /\ owed[s] = [k \in 1..n |-> q[k].seq]
  BY <1>10 DEF StreamOK, Announced, Numbers, q, n
<1>12. place = "send" => ~closed[s]
  BY <1>2, <1>5 DEF StreamOK, Announced, q, n
<1>13. owed'[s] \in Seq(Nat)
  <2>1. owed[s] \in Seq(Nat)
    BY DEF HubTypeOK
  <2>2. CASE place = "send"
    <3>1. owed[s] # <<>>
      BY <1>2, <1>11, <1>12, <2>1, <2>2
    <3> QED
      BY <1>6, <2>1, <2>2, <3>1
  <2>3. CASE place # "send"
    BY <1>6, <2>1, <2>3
  <2> QED
    BY <2>2, <2>3
<1>14. HubTypeOK'
  <2>1. queue' \in [Streams -> Seq(Events)] /\ owed' \in [Streams -> Seq(Nat)]
        /\ sending' \in [Streams -> Nat]
    <3>1. /\ queue' \in [Streams -> Seq(Events)]
          /\ sending' \in [Streams -> Nat]
      BY <1>1, <1>2, <1>4, <1>8 DEF HubTypeOK
    <3>2. owed' = [owed EXCEPT ![s] = owed'[s]]
      BY <1>1 DEF HubTypeOK
    <3> QED
      BY <1>13, <3>1, <3>2 DEF HubTypeOK
  <2>2. \A t \in Streams : Len(queue'[t]) <= QueueSize
    <3>1. n <= QueueSize
      BY DEF HubTypeOK, q, n
    <3>2. Len(queue'[s]) <= QueueSize
      BY <1>2, <1>6, <3>1, QueueSizeIsPositive
    <3>3. \A t \in Streams \ {s} : Len(queue'[t]) <= QueueSize
      BY <1>7 DEF HubTypeOK
    <3> QED
      BY <3>2, <3>3
  <2>3. at' \in [Streams -> {"off", "register", "recheck", "top", "wait", "send", "sendLast",
                            "leave", "done"}]
    BY <1>1, <1>5 DEF HubTypeOK
  <2> QED
    BY <1>1, <2>1, <2>2, <2>3 DEF HubTypeOK
<1>15. Announced(s)'
  <2>1. CASE closed[s]
    <3>1. \A k \in 1..n : q[k].kind \notin {"ready", "hint"}
      BY <2>1 DEF StreamOK, Announced, q, n
    <3>2. \A k \in 1..Len(queue'[s]) : queue'[s][k].kind \notin {"ready", "hint"}
      BY <1>2, <1>6, <3>1
    <3> QED
      BY <1>1, <2>1, <3>2 DEF StreamOK, Announced
  <2>2. CASE ~closed[s]
    <3> SUFFICES ASSUME place = "send"
                 PROVE  Numbers(queue'[s]) = owed'[s]
      BY <1>1, <1>5, <1>6, <1>11, <2>2 DEF Announced, Serving
    <3>1. owed'[s] = Tail([k \in 1..n |-> q[k].seq])
      BY <1>6, <1>11, <2>2
    <3>2. owed'[s] = [k \in 1..(n - 1) |-> q[k + 1].seq]
      <4>1. Tail([k \in 1..n |-> q[k].seq]) = [k \in 1..(n - 1) |-> q[k + 1].seq]
        BY <1>2, <1>3
      <4> QED
        BY <3>1, <4>1
    <3>3. Len(queue'[s]) = n - 1 /\ \A k \in 1..(n - 1) : queue'[s][k] = q[k + 1]
      BY <1>2, <1>6
    <3>4. Numbers(queue'[s]) = [k \in 1..(n - 1) |-> queue'[s][k].seq]
      BY <3>3 DEF Numbers
    <3> QED
      BY <3>2, <3>3, <3>4
  <2> QED
    BY <2>1, <2>2
<1>16. Wakes(s)' /\ LoggedOut(s)' /\ Fresh(s)'
  BY <1>1, <1>5, <1>6 DEF StreamOK, Wakes, LoggedOut, Fresh
<1>17. Ordered(s)'
  <2>1. sending'[s] \in Nat /\ sending'[s] <= seq
        /\ \A k \in 1..(n - 1) : q[k + 1].kind # "end" => q[k + 1].seq > sending'[s]
    <3>1. CASE e.kind = "end"
      <4>1. sending'[s] = sending[s]
        BY <1>6, <3>1
      <4> QED
        BY <1>2, <1>8, <4>1
    <3>2. CASE e.kind # "end"
      <4>1. sending'[s] = q[1].seq /\ 1 \in 1..n
        BY <1>2, <1>6, <3>2
      <4>2. \A k \in 1..(n - 1) : k + 1 \in 1..n /\ 1 < k + 1
        BY <1>2
      <4>3. sending'[s] \in Nat /\ sending'[s] <= seq
        BY <1>3, <1>8, <4>1
      <4>4. \A k \in 1..(n - 1) : q[k + 1].seq > sending'[s]
        BY <1>3, <1>8, <4>1, <4>2
      <4> QED
        BY <4>3, <4>4
    <3> QED
      BY <3>1, <3>2
  <2>2. ASSUME NEW k \in 1..(n - 1)
        PROVE  queue'[s][k].seq <= seq /\ queue'[s][k] = q[k + 1]
    BY <1>2, <1>6, <1>8
  <2>3. ASSUME NEW j \in 1..(n - 1), NEW k \in 1..(n - 1), j < k
        PROVE  queue'[s][j].seq < queue'[s][k].seq
    <3>1. j + 1 \in 1..n /\ k + 1 \in 1..n /\ j + 1 < k + 1
      BY <1>2, <2>3
    <3> QED
      BY <1>8, <2>2, <3>1
  <2> QED
    BY <1>1, <1>2, <1>6, <2>1, <2>2, <2>3 DEF Ordered
<1>18. ASSUME NEW t \in Streams \ {s}
       PROVE  StreamOK(t)'
  <2>1. seq' \in Nat /\ seq' >= seq /\ subscribers' = subscribers /\ closed' = closed
    BY <1>1, <1>8
  <2> QED
    BY <1>1, <1>7, <2>1, Untouched
<1> QED
  BY <1>1, <1>7, <1>9, <1>14, <1>15, <1>16, <1>17, <1>18 DEF StreamOK

\* The steps that only move one stream to another place.
LEMMA MoveInv ==
  ASSUME HInv, NEW s \in Streams,
         \/ Connect(s) \/ Recheck(s) \/ LoopTop(s) \/ TimesOut(s) \/ Sent(s)
         \/ Disconnect(s) \/ (Subscribe(s) /\ hubClosed)
  PROVE  HInv' /\ sending' = sending
<1> USE DEF HInv
<1>1. PICK place \in {"register", "recheck", "top", "wait", "leave", "done"} :
        at' = [at EXCEPT ![s] = place]
  BY DEF Connect, Recheck, LoopTop, TimesOut, Sent, Disconnect, Subscribe, MoveTo
<1>2. UNCHANGED <<seq, subscribers, queue, closed, hubClosed, sending, revoked, closers,
                  expired, owed>>
  BY DEF Connect, Recheck, LoopTop, TimesOut, Sent, Disconnect, Subscribe, hubVars, sessionVars
<1>3. at'[s] = place /\ \A t \in Streams \ {s} : at'[t] = at[t]
  BY <1>1 DEF HubTypeOK
<1>4. HubTypeOK'
  BY <1>1, <1>2 DEF HubTypeOK
\* A stream enters the part where it is served, and the part where its session
\* has been looked up, only by these steps.
<1>5. /\ place = "register" => at[s] = "off"
      /\ place = "recheck" => FALSE
      /\ place \in {"top", "wait"} => Serving(s)
      /\ place = "top" /\ at[s] = "recheck" => SessionOf[s] \notin revoked
      /\ place = "wait" => at[s] = "top" /\ ~(closed[s] /\ queue[s] = <<>>)
  BY <1>3 DEF Connect, Recheck, LoopTop, TimesOut, Sent, Disconnect, Subscribe, MoveTo, HubTypeOK,
              Serving, IsCurrent
<1>6. StreamOK(s)'
  <2>1. Announced(s)' /\ Ordered(s)'
    BY <1>2, <1>3, <1>5 DEF StreamOK, Announced, Serving, Numbers, Ordered
  <2>2. Wakes(s)'
    BY <1>2, <1>3, <1>5 DEF Wakes
  <2>3. LoggedOut(s)'
    BY <1>2, <1>3, <1>5 DEF StreamOK, LoggedOut, Serving
  <2>4. Fresh(s)'
    BY <1>2, <1>3, <1>5 DEF StreamOK, Fresh
  <2> QED
    BY <2>1, <2>2, <2>3, <2>4 DEF StreamOK
<1>7. ASSUME NEW t \in Streams \ {s}
      PROVE  StreamOK(t)'
  <2>1. seq' \in Nat /\ seq' >= seq
    BY <1>2 DEF HubTypeOK
  <2> QED
    BY <1>2, <1>3, <2>1, Untouched
<1> QED
  BY <1>2, <1>4, <1>6, <1>7

\* The steps that only end a session; a revoked one still has its streams to
\* close.
LEMMA SessionInv ==
  ASSUME HInv, NEW x \in Sessions, RevokeSession(x) \/ Expire(x)
  PROVE  HInv' /\ sending' = sending
<1> USE DEF HInv
<1>1. /\ UNCHANGED <<seq, subscribers, queue, closed, hubClosed, at, sending, owed>>
      /\ revoked' \ closers' \subseteq revoked \ closers
  BY DEF RevokeSession, Expire, hubVars
<1>2. HubTypeOK'
  BY <1>1 DEF HubTypeOK, RevokeSession, Expire
<1>3. ASSUME NEW s \in Streams
      PROVE  StreamOK(s)'
  <2>1. seq' \in Nat /\ seq' >= seq
    BY <1>1 DEF HubTypeOK
  <2> QED
    BY <1>1, <2>1, Untouched
<1> QED
  BY <1>1, <1>2, <1>3

----------------------------------------------------------------------------

\* What a step may change of the numbers a stream has yielded.
Later == \A s \in Streams : sending'[s] # sending[s] => sending'[s] > sending[s]

\* Every step keeps it, and numbers grow.
LEMMA NextHInv ==
  ASSUME HInv, [HubNext]_eventVars
  PROVE  HInv' /\ Later
<1>1. CASE \E u \in Users : Publish(u)
  BY <1>1, PublishInv DEF Publish, Later
<1>2. CASE CloseHub
  BY <1>2, CloseHubInv DEF CloseHub, Later
<1>3. ASSUME NEW x \in Sessions, RevokeSession(x) \/ CloseSessionStreams(x) \/ Expire(x)
      PROVE  HInv' /\ Later
  <2>1. CASE RevokeSession(x) \/ Expire(x)
    BY <2>1, SessionInv DEF Later
  <2>2. CASE CloseSessionStreams(x)
    BY <2>2, CloseSessionStreamsInv DEF CloseSessionStreams, Later
  <2> QED
    BY <1>3, <2>1, <2>2
<1>4. ASSUME NEW s \in Streams, Connect(s) \/ Stream(s) \/ TimesOut(s) \/ Disconnect(s)
      PROVE  HInv' /\ Later
  <2>1. CASE Take(s)
    BY <2>1, TakeInv DEF Later
  <2>2. CASE Leave(s)
    BY <2>2, LeaveInv DEF Leave, Later
  <2>3. CASE Subscribe(s) /\ ~hubClosed
    BY <2>3, SubscribeInv DEF Subscribe, Later
  <2>4. CASE \/ Connect(s) \/ Recheck(s) \/ LoopTop(s) \/ TimesOut(s) \/ Sent(s)
             \/ Disconnect(s) \/ (Subscribe(s) /\ hubClosed)
    BY <2>4, MoveInv DEF Later
  <2> QED
    BY <1>4, <2>1, <2>2, <2>3, <2>4 DEF Stream
<1>5. CASE UNCHANGED eventVars
  <2>1. UNCHANGED <<seq, subscribers, queue, closed, hubClosed, at, sending, revoked, closers,
                    expired, owed>>
    BY <1>5 DEF eventVars, hubVars, sessionVars
  <2> QED
    BY <2>1 DEF HInv, HubTypeOK, StreamOK, Announced, Serving, Numbers, Wakes, LoggedOut, Ordered,
                Fresh, Later
<1> QED
  BY <1>1, <1>2, <1>3, <1>4, <1>5 DEF HubNext

\* The inductive invariant of the hub and its streams.
THEOREM HubInvariance == HubSpec => []HInv
<1>1. HubInit => HInv
  BY InitHInv
<1>2. HInv /\ [HubNext]_eventVars => HInv'
  BY NextHInv
<1> QED
  BY <1>1, <1>2, PTL DEF HubSpec

\* The hub's state keeps its types, and no queue ever holds more than its size.
THEOREM HubTypes == HubSpec => []HubTypeOK
<1>1. HInv => HubTypeOK
  BY DEF HInv
<1> QED
  BY <1>1, HubInvariance, PTL

\* No event of a stream's user is lost in silence (publish, _close_subscription).
THEOREM NoSilentLoss == HubSpec => []LossesAreAnnounced
<1>1. HInv => LossesAreAnnounced
  BY DEF HInv, StreamOK, LossesAreAnnounced
<1> QED
  BY <1>1, HubInvariance, PTL

\* A stream that waits on a closed subscription has an event to wake it.
THEOREM ClosingWakes == HubSpec => []ClosedStreamsWake
<1>1. HInv => ClosedStreamsWake
  BY DEF HInv, StreamOK, ClosedStreamsWake
<1> QED
  BY <1>1, HubInvariance, PTL

\* A finished logout leaves no served stream of its session open, however it
\* fell into a registration (api/events.py: _events).
THEOREM LogoutIsRaceFree == HubSpec => []LoggedOutStreamsAreClosed
<1>1. HInv => LoggedOutStreamsAreClosed
  BY DEF HInv, StreamOK, LoggedOutStreamsAreClosed
<1> QED
  BY <1>1, HubInvariance, PTL

\* The numbers a client sees only grow (_next_event, receive).
THEOREM YieldsInOrder == HubSpec => YieldedInOrder
<1>1. HInv /\ [HubNext]_eventVars
        => [\A s \in Streams : sending'[s] # sending[s] => sending'[s] > sending[s]]_eventVars
  BY NextHInv DEF Later
<1> QED
  BY <1>1, HubInvariance, PTL DEF HubSpec, YieldedInOrder

=============================================================================
