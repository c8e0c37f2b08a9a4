-------------------------------- MODULE Access --------------------------------
(***************************************************************************)
(* Signing in, staying signed in and signing out in a hosted deployment:   *)
(* SessionService (services/sessions.py), OAuthService (services/oauth.py) *)
(* and the tables of infrastructure/database.py, driven by the routes of   *)
(* api/auth.py and the request checks of api/security.py.                  *)
(*                                                                         *)
(* The database serialises writers (BEGIN IMMEDIATE), so every transaction *)
(* is one step; a request may be overtaken between two of its              *)
(* transactions, and while it waits for a provider or a worker thread.  A  *)
(* user is named by the provider account it was created for, a session by  *)
(* the login that issued it.  The database and the user directories        *)
(* survive a crash, the discovery cache and the requests do not.           *)
(***************************************************************************)
EXTENDS Naturals, FiniteSets

CONSTANTS
  Accounts,      \* (issuer, subject) pairs
  Emails,
  Credentials,   \* ID credentials Google has signed
  States,        \* state tokens of CILogon logins
  ExpiryOf,      \* credential -> its exp claim
  AccountOf,     \* credential or state -> the account that signs in with it
  EmailOf,       \* credential or state -> the e-mail address that account reports
  Starts,        \* state -> GET /auth/cilogon/login; here a set of requests
  StateOf,       \* start -> the state token it draws
  Callbacks,     \* requests of both callback routes
  ProofOf,       \* callback -> the credential or state it presents
  Calls,         \* unsafe API requests
  CookieOf,      \* call -> the callback whose cookie it presents
  SessionHours,  \* session_ttl_hours
  StateMinutes,  \* the ten minutes of a login transaction
  Visits,        \* bound: the sets of requests that are considered together
  MaxNow,        \* bound: the clock
  MaxCrashes,    \* bound
  NoUser

Proofs == Credentials \union States
Requests == Starts \union Callbacks

ASSUME ProofsOK ==
  /\ AccountOf \in [Proofs -> Accounts] /\ EmailOf \in [Proofs -> Emails]
  /\ StateOf \in [Starts -> States] /\ ProofOf \in [Callbacks -> Proofs]
  /\ CookieOf \in [Calls -> Callbacks] /\ ExpiryOf \in [Credentials -> Nat]
\* A state token is drawn at random for every login.
ASSUME StatesAreFresh ==
  /\ Credentials \intersect States = {} /\ Starts \intersect Callbacks = {}
  /\ \A r, t \in Starts : StateOf[r] = StateOf[t] => r = t
ASSUME BoundsOK == Visits \subseteq SUBSET Requests /\ {SessionHours, StateMinutes, MaxNow, MaxCrashes} \subseteq Nat

VARIABLES
  now,
  users,        \* users and user_identities: account -> e-mail and is_active
  roots,        \* users whose files and imports directories exist
  sessions,     \* user_sessions: callback -> its row
  spent,        \* google_login_credentials
  transactions, \* oauth_transactions: state -> expires_at, or 0 for no row
  config,       \* whether _cilogon_config is cached
  fetching,     \* the requests that hold _discovery_lock
  pc,           \* request -> where it is
  call,         \* call -> where it is
  uses,         \* history: proof -> logins that went on with it
  late,         \* history: calls that arrived after the logout of their session
  crashes

tables == <<users, sessions, spent, transactions>>
discovery == <<config, fetching>>
history == <<uses, late>>
accessVars == <<now, tables, roots, discovery, pc, call, history, crashes>>

NoSession == [status |-> "none", expires |-> 0]

AccessInit ==
  /\ now = 1
  /\ users = [a \in Accounts |-> NoUser]
  /\ roots = {}
  /\ sessions = [l \in Callbacks |-> NoSession]
  /\ spent = {}
  /\ transactions = [s \in States |-> 0]
  /\ config = FALSE /\ fetching = {}
  /\ \E V \in Visits : pc = [r \in Requests |-> IF r \in V THEN "off" ELSE "failed"]
  /\ call = [q \in Calls |-> "off"]
  /\ uses = [p \in Proofs |-> 0]
  /\ late = {}
  /\ crashes = 0

Go(r, place) == pc' = [pc EXCEPT ![r] = place]
Fails(r) == Go(r, "failed")
Account(l) == AccountOf[ProofOf[l]]
Email(l) == EmailOf[ProofOf[l]]

----------------------------------------------------------------------------
\* Google

\* verify_google up to the claims: the verification runs in a worker thread
\* and accepts a credential until its expiry.  Google may be out of reach.
VerifyGoogle(l) ==
  /\ pc[l] = "off" /\ ProofOf[l] \in Credentials
  /\ \/ now <= ExpiryOf[ProofOf[l]] /\ Go(l, "consume")
     \/ Fails(l)
  /\ UNCHANGED <<now, tables, roots, discovery, call, history, crashes>>

\* Mutant of Remembered: a credential is forgotten in the second it expires.
RememberedTooBriefly(c) == now < ExpiryOf[c]

\* The rows that DELETE ... WHERE expires_at < unixepoch() keeps.
Remembered(c) == now <= ExpiryOf[c]

\* consume_google_credential: delete what expired, then INSERT OR IGNORE.
ConsumeCredential(l) ==
  /\ pc[l] = "consume"
  /\ LET c == ProofOf[l]
         kept == {d \in spent : Remembered(d)}
     IN  /\ spent' = kept \union {c}
         /\ IF c \in kept THEN Fails(l) /\ UNCHANGED uses
            ELSE Go(l, "upsert") /\ uses' = [uses EXCEPT ![c] = @ + 1]
  /\ UNCHANGED <<now, users, sessions, transactions, roots, discovery, call, late, crashes>>

----------------------------------------------------------------------------
\* CILogon

Start(r) ==
  /\ r \in Starts /\ pc[r] = "off"
  /\ Go(r, "discover")
  /\ UNCHANGED <<now, tables, roots, discovery, call, history, crashes>>

\* cilogon_config: the cached document, or the lock, under which the cache is
\* looked at again ...
Discover(r) ==
  /\ pc[r] = "discover"
  /\ \/ config /\ Go(r, "discovered") /\ UNCHANGED fetching
     \/ ~config /\ fetching = {} /\ Go(r, "fetch") /\ fetching' = {r}
  /\ UNCHANGED <<now, tables, roots, config, call, history, crashes>>

\* Mutant of Fetch: a discovery that fails leaves the lock held.
FetchKeepsLock(r) ==
  /\ pc[r] = "fetch"
  /\ \/ config' = TRUE /\ Go(r, "discovered") /\ fetching' = {}
     \/ Fails(r) /\ UNCHANGED <<config, fetching>>
  /\ UNCHANGED <<now, tables, roots, call, history, crashes>>

\* ... and the document is fetched and validated.  Only a valid one is kept.
Fetch(r) ==
  /\ pc[r] = "fetch"
  /\ \/ config' = TRUE /\ Go(r, "discovered")
     \/ Fails(r) /\ UNCHANGED config
  /\ fetching' = {}
  /\ UNCHANGED <<now, tables, roots, call, history, crashes>>

Unexpired(s) == transactions[s] >= now

\* create_oauth_transaction, after which the browser is sent to the provider.
CreateTransaction(r) ==
  /\ r \in Starts /\ pc[r] = "discovered"
  /\ Go(r, "done")
  /\ transactions' = [s \in States |-> IF s = StateOf[r] THEN now + StateMinutes
                                       ELSE IF Unexpired(s) THEN transactions[s] ELSE 0]
  /\ UNCHANGED <<now, users, sessions, spent, roots, discovery, call, history, crashes>>

\* A state token is drawn at random: nobody presents it before the login that
\* draws it has answered.
Known(s) == \E r \in Starts : StateOf[r] = s /\ pc[r] = "done"

\* cilogon_callback begins with consume_oauth_transaction: the row goes, even
\* when the provider reports an error and the login stops there.
ConsumeState(l) ==
  /\ pc[l] = "off" /\ ProofOf[l] \in States /\ Known(ProofOf[l])
  /\ LET p == ProofOf[l]
     IN  /\ transactions' = [s \in States |-> IF s # p /\ Unexpired(s) THEN transactions[s] ELSE 0]
         /\ IF Unexpired(p)
              THEN /\ Go(l, "discover") \/ Fails(l)
                   /\ uses' = [uses EXCEPT ![p] = @ + 1]
              ELSE Fails(l) /\ UNCHANGED uses
  /\ UNCHANGED <<now, users, sessions, spent, roots, discovery, call, late, crashes>>

\* complete_cilogon: the code for a token, the token for verified claims.
Exchange(l) ==
  /\ l \in Callbacks /\ pc[l] = "discovered"
  /\ Go(l, "upsert") \/ Fails(l)
  /\ UNCHANGED <<now, tables, roots, discovery, call, history, crashes>>

----------------------------------------------------------------------------
\* The user and the session

EmailIsTaken(l) ==
  \E a \in Accounts \ {Account(l)} : users[a] # NoUser /\ users[a].email = Email(l)

\* Mutant of Upsert: only a new user gets directories.
UpsertProvisionsOnce(l) ==
  /\ pc[l] = "upsert"
  /\ IF EmailIsTaken(l) THEN Fails(l) /\ UNCHANGED users
     ELSE LET u == users[Account(l)]
          IN  /\ users' = [users EXCEPT ![Account(l)] =
                             [email |-> Email(l), active |-> u = NoUser \/ u.active]]
              /\ Go(l, IF u = NoUser THEN "provision" ELSE "issue")
  /\ UNCHANGED <<now, sessions, spent, transactions, roots, discovery, call, history, crashes>>

\* upsert_oidc_user, in one transaction: an account is never joined to
\* another account's user by its e-mail address.  A user an operator has
\* deactivated stays so.
Upsert(l) ==
  /\ pc[l] = "upsert"
  /\ IF EmailIsTaken(l) THEN Fails(l) /\ UNCHANGED users
     ELSE LET u == users[Account(l)]
          IN  /\ users' = [users EXCEPT ![Account(l)] =
                             [email |-> Email(l), active |-> u = NoUser \/ u.active]]
              /\ Go(l, "provision")
  /\ UNCHANGED <<now, sessions, spent, transactions, roots, discovery, call, history, crashes>>

\* _provision_user_root, after the commit; the disk may refuse.
Provision(l) ==
  /\ pc[l] = "provision"
  /\ \/ roots' = roots \union {Account(l)} /\ Go(l, "issue")
     \/ Fails(l) /\ UNCHANGED roots
  /\ UNCHANGED <<now, tables, discovery, call, history, crashes>>

Issue(l) ==
  /\ pc[l] = "issue"
  /\ Go(l, "done")
  /\ sessions' = [sessions EXCEPT ![l] = [status |-> "live", expires |-> now + SessionHours]]
  /\ UNCHANGED <<now, users, spent, transactions, roots, discovery, call, history, crashes>>

\* delete_session: exactly the presented session is revoked.
Revoke(l) ==
  /\ sessions[l].status = "live" /\ sessions[l].expires > now
  /\ users[Account(l)].active
  /\ sessions' = [sessions EXCEPT ![l].status = "revoked"]
  /\ UNCHANGED <<now, users, spent, transactions, roots, discovery, pc, call, history, crashes>>

Dead(l) ==
  \/ sessions[l].status = "revoked"
  \/ sessions[l].status = "live" /\ sessions[l].expires <= now

\* cleanup_expired, which the maintenance loop runs every hour.
CleanupExpired ==
  /\ \E l \in Callbacks : Dead(l)
  /\ sessions' = [l \in Callbacks |-> IF Dead(l) THEN NoSession ELSE sessions[l]]
  /\ UNCHANGED <<now, users, spent, transactions, roots, discovery, pc, call, history, crashes>>

----------------------------------------------------------------------------
\* Calls

SignedOut(l) == pc[l] = "done" /\ sessions[l].status # "live"

CallAt(q, place) ==
  /\ call' = [call EXCEPT ![q] = place]
  /\ UNCHANGED <<now, tables, roots, discovery, pc, uses, crashes>>

Arrive(q) ==
  /\ call[q] = "off" /\ pc[CookieOf[q]] = "done"
  /\ CallAt(q, "csrf")
  /\ late' = IF SignedOut(CookieOf[q]) THEN late \union {q} ELSE late

\* What both look-ups ask of the row.
RowIsValid(l) == sessions[l].status = "live" /\ sessions[l].expires > now

\* CsrfOriginMiddleware and validate_csrf.
ValidateCsrf(q) ==
  /\ call[q] = "csrf"
  /\ CallAt(q, IF RowIsValid(CookieOf[q]) THEN "lookup" ELSE "off")
  /\ late' = IF RowIsValid(CookieOf[q]) THEN late ELSE late \ {q}

\* get_current_session: current_principal also asks for an active user.
CurrentPrincipal(q) ==
  /\ call[q] = "lookup"
  /\ LET current == RowIsValid(CookieOf[q]) /\ users[Account(CookieOf[q])].active
     IN  /\ CallAt(q, IF current THEN "acts" ELSE "off")
         /\ late' = IF current THEN late ELSE late \ {q}

Answered(q) ==
  /\ call[q] = "acts"
  /\ CallAt(q, "off")
  /\ late' = late \ {q}

----------------------------------------------------------------------------
\* The surroundings

Tick ==
  /\ now < MaxNow
  /\ now' = now + 1
  /\ UNCHANGED <<tables, roots, discovery, pc, call, history, crashes>>

\* An operator deactivates a user.
Deactivate(a) ==
  /\ users[a] # NoUser /\ users[a].active
  /\ users' = [users EXCEPT ![a].active = FALSE]
  /\ UNCHANGED <<now, sessions, spent, transactions, roots, discovery, pc, call, history, crashes>>

\* The process dies and starts again: requests are gone, and initialize
\* cleans up the sessions.
Crash ==
  /\ crashes < MaxCrashes
  /\ crashes' = crashes + 1
  /\ pc' = [r \in Requests |-> IF pc[r] \in {"off", "done"} THEN pc[r] ELSE "failed"]
  /\ call' = [q \in Calls |-> "off"]
  /\ late' = {}
  /\ config' = FALSE /\ fetching' = {}
  /\ sessions' = [l \in Callbacks |-> IF Dead(l) THEN NoSession ELSE sessions[l]]
  /\ UNCHANGED <<now, users, spent, transactions, roots, uses>>

----------------------------------------------------------------------------

Step(r) ==
  \/ Discover(r) \/ Fetch(r) \/ CreateTransaction(r) \/ Exchange(r)
  \/ r \in Callbacks /\ (ConsumeCredential(r) \/ Upsert(r) \/ Provision(r) \/ Issue(r))

AccessNext ==
  \/ \E r \in Starts : Start(r)
  \/ \E l \in Callbacks : VerifyGoogle(l) \/ ConsumeState(l) \/ Revoke(l)
  \/ \E r \in Requests : Step(r)
  \/ \E q \in Calls : Arrive(q) \/ ValidateCsrf(q) \/ CurrentPrincipal(q) \/ Answered(q)
  \/ \E a \in Accounts : Deactivate(a)
  \/ CleanupExpired \/ Tick \/ Crash

AccessSpec == AccessInit /\ [][AccessNext]_accessVars

\* Requests to a provider time out and transactions end; the maintenance loop
\* comes round.
AccessFairSpec ==
  /\ AccessSpec
  /\ \A r \in Requests : WF_accessVars(Step(r))
  /\ WF_accessVars(CleanupExpired)

----------------------------------------------------------------------------
\* Properties

AccessTypeOK ==
  /\ now \in Nat
  /\ users \in [Accounts -> [email : Emails, active : BOOLEAN] \union {NoUser}]
  /\ roots \in SUBSET Accounts
  /\ sessions \in [Callbacks -> [status : {"none", "live", "revoked"}, expires : Nat]]
  /\ spent \in SUBSET Credentials
  /\ transactions \in [States -> Nat]
  /\ config \in BOOLEAN
  /\ fetching \in SUBSET Requests
  /\ pc \in [Requests -> {"off", "consume", "discover", "fetch", "discovered", "upsert",
                          "provision", "issue", "done", "failed"}]
  /\ call \in [Calls -> {"off", "csrf", "lookup", "acts"}]
  /\ uses \in [Proofs -> Nat]
  /\ late \in SUBSET Calls
  /\ crashes \in 0..MaxCrashes
  /\ \A a, b \in Accounts :
       a # b /\ users[a] # NoUser /\ users[b] # NoUser => users[a].email # users[b].email

\* A call that acts belongs to a session whose logout had not been answered
\* when it arrived, whether or not the row has been cleaned up by then; and its
\* user's directories exist, although they are made after the user's rows are
\* committed and a failure or a crash may fall in between: the next login makes
\* them (sessions.py:306-308).
CallsAreEntitled ==
  /\ AccessTypeOK
  /\ \A q \in Calls : call[q] = "acts" => q \notin late /\ Account(CookieOf[q]) \in roots

\* A state token signs in at most once, and so does an ID credential until it
\* has expired, however many callbacks present it at a time (database.py:
\* 182-209, 243-276).  After that the row that remembers it may be deleted: a
\* callback that had it verified in its last second, and consumes it later,
\* signs in with a credential that has been used.
ProofsAreUsedOnce ==
  \A p \in Proofs : uses[p] <= 1 \/ (p \in Credentials /\ ExpiryOf[p] < now)

\* Every login ends and no ended session stays in the table: a discovery that
\* fails blocks nobody (oauth.py:113-118).
LoginsEndAndDeadSessionsGo ==
  /\ \A r \in Requests : []<>(pc[r] \in {"off", "done", "failed"})
  /\ \A l \in Callbacks : []<>~Dead(l)

=============================================================================
