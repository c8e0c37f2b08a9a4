-------------------------------- MODULE Server --------------------------------
(***************************************************************************)
(* The life of one backend process: the launcher (server_launcher.py), the *)
(* composition root with its exit stack and task group (runtime.py), the   *)
(* maintenance loop (services/maintenance.py), the event streams that are  *)
(* open while it stops, and the desktop watchdog                           *)
(* (infrastructure/process_watchdog.py).                                   *)
(*                                                                         *)
(* Start-up is a sequence of awaits; a step of the model is the code from  *)
(* one await to the next.  Uvicorn is external: it runs the lifespan's     *)
(* start-up, serves, waits for its connections when it is told to exit,    *)
(* and then runs the lifespan's shutdown, unless it is forced.             *)
(***************************************************************************)
EXTENDS Naturals, Sequences

CONSTANTS
  Clients,   \* browsers that may hold GET /events open
  Threshold, \* failure_threshold of the watchdog
  MaxFaults  \* bound: steps that fail

ASSUME ThresholdOK == Threshold \in Nat \ {0}
ASSUME MaxFaultsOK == MaxFaults \in Nat

VARIABLES
  profile,   \* "cli" for run_server, "caller" for start_async_server
  lifespan,  \* "off", "starting", "up", "closing", "joining", "unwinding" or "down"
  step,      \* start-up steps done
  resources, \* what the exit stack resources will close, oldest first
  owned,     \* the task group is open and its owner on the stack
  tasks,     \* background tasks that run in the task group
  admitting, \* services that admit new work
  draining,  \* execution owners that are being shut down
  stopEvent, \* _stop of the maintenance loop
  uvicorn,   \* "bound", "starting", "serving", "waiting", "ending" or "exited"
  started,   \* server.started
  exit,      \* server.should_exit
  force,     \* server.force_exit
  listener,  \* whether the socket is open
  streams,   \* clients whose stream is open
  serve,     \* _serve_bound: "polling", "serving", "ended" or "failed"
  record,    \* the startup file: "none", "ready" or "failed"
  caller,    \* "starting", "holding", "closing", "closed" or "gone"
  parent,    \* the desktop process: "alive" or "gone"
  misses,    \* consecutive_misses
  wrong,     \* history: wrong answers about a living parent since the last right one
  dead,      \* the watchdog has killed the process
  schema,    \* the database file: "absent", "current" or "other"
  faults

taskVars == <<tasks, admitting, draining, stopEvent>>
stackVars == <<lifespan, step, resources, owned, taskVars, schema>>
webVars == <<uvicorn, started, exit, force, listener, streams>>
launchVars == <<serve, record, caller>>
watchVars == <<parent, misses, wrong, dead>>
serverVars == <<profile, stackVars, webVars, launchVars, watchVars, faults>>

\* The awaits of runtime_context, in order.
Startup == <<"storage", "database", "task group", "quota", "snapshots", "transient",
             "sessions", "interrupted", "imports", "files", "queries">>

\* What follows an await: the closers it puts on the stack resources, the
\* task it starts.
Opens == [s \in {"snapshots", "sessions", "interrupted"} |->
            CASE s = "snapshots" -> <<"hub", "workspaces">>
              [] s = "sessions" -> <<"oauth", "quotation">>
              [] s = "interrupted" -> <<"samples", "portal">>]
Starts == [s \in {"interrupted", "imports", "queries"} |->
             CASE s = "interrupted" -> "analyses"
               [] s = "imports" -> "imports"
               [] s = "queries" -> "maintenance"]

Tasks == {"analyses", "imports", "maintenance"}
Executions == {"analyses", "imports"}
Resources == {"hub", "workspaces", "oauth", "quotation", "samples", "portal"}

\* What a task calls while it runs.
Uses == [t \in Tasks |-> CASE t = "analyses" -> {"hub", "workspaces"}
                           [] t = "imports" -> {"hub", "samples", "portal"}
                           [] t = "maintenance" -> {}]

Open == {resources[k] : k \in 1..Len(resources)}
MayFail == faults < MaxFaults
Fault == MayFail /\ faults' = faults + 1

ServerInit ==
  /\ profile \in {"cli", "caller"}
  /\ lifespan = "off" /\ step = 0 /\ resources = <<>> /\ owned = FALSE
  /\ tasks = {} /\ admitting = {} /\ draining = {} /\ stopEvent = FALSE
  /\ uvicorn = "bound" /\ started = FALSE /\ exit = FALSE /\ force = FALSE
  /\ listener = TRUE /\ streams = {}
  /\ serve = "polling" /\ record = "none" /\ caller = "starting"
  /\ parent = "alive" /\ misses = 0 /\ wrong = 0 /\ dead = FALSE
  /\ schema \in {"absent", "current", "other"}
  /\ faults = 0

----------------------------------------------------------------------------
\* runtime_context

\* Database.initialize, in one transaction: tables are created in an empty
\* file, a file of this layout is validated, and any other is refused and left
\* as it is.
DatabaseInitialized(s) ==
  IF s = "database" THEN schema # "other" /\ schema' = "current" ELSE UNCHANGED schema

StepDone ==
  /\ lifespan = "starting" /\ step < Len(Startup)
  /\ LET s == Startup[step + 1]
     IN  /\ DatabaseInitialized(s)
         /\ step' = step + 1
         /\ owned' = (owned \/ s = "task group")
         /\ resources' = IF s \in DOMAIN Opens THEN resources \o Opens[s] ELSE resources
         /\ tasks' = IF s \in DOMAIN Starts THEN tasks \union {Starts[s]} ELSE tasks
         /\ admitting' = tasks' \intersect Executions
         /\ lifespan' = IF step' = Len(Startup) THEN "up" ELSE "starting"
  /\ UNCHANGED <<profile, draining, stopEvent, webVars, launchVars, watchVars, faults>>

\* The exit stack is left, whatever the reason: first the task group's owner,
\* if it is on it, closes (readiness, admission, the maintenance loop's stop
\* event, then the execution owners side by side).
Unwind ==
  /\ lifespan' = IF owned THEN "closing" ELSE "unwinding"
  /\ admitting' = {}
  /\ stopEvent' = owned
  /\ draining' = tasks \intersect Executions

StepFails ==
  /\ lifespan = "starting" /\ Startup[step + 1] # "task group" /\ Fault
  /\ Unwind
  /\ UNCHANGED <<profile, step, resources, owned, tasks, schema, webVars, launchVars, watchVars>>

DatabaseRefused ==
  /\ lifespan = "starting" /\ Startup[step + 1] = "database" /\ schema = "other"
  /\ Unwind
  /\ UNCHANGED <<profile, step, resources, owned, tasks, schema, webVars, launchVars, watchVars,
                 faults>>

\* The maintenance loop wakes and returns.
MaintenanceStops ==
  /\ stopEvent /\ "maintenance" \in tasks
  /\ tasks' = tasks \ {"maintenance"}
  /\ UNCHANGED <<profile, lifespan, step, resources, owned, admitting, draining, stopEvent, schema,
                 webVars, launchVars, watchVars, faults>>

\* An execution owner has stopped its work, or its shutdown has raised, which
\* is logged, or is cut off at the deadline: then its work still runs.
ExecutionCloses(t) ==
  /\ lifespan = "closing" /\ t \in draining
  /\ draining' = draining \ {t}
  /\ \/ tasks' = tasks \ {t} /\ UNCHANGED faults
     \/ Fault /\ UNCHANGED tasks
  /\ UNCHANGED <<profile, lifespan, step, resources, owned, admitting, stopEvent, schema, webVars,
                 launchVars, watchVars>>

CancelGroup ==
  /\ lifespan = "closing" /\ draining = {}
  /\ lifespan' = "joining"
  /\ UNCHANGED <<profile, step, resources, owned, taskVars, schema,
                 webVars, launchVars, watchVars, faults>>

\* Mutant of TaskEnds: an execution task swallows its cancellation.
OnlyMaintenanceEnds(t) ==
  /\ lifespan = "joining" /\ t \in tasks \ Executions
  /\ tasks' = tasks \ {t}
  /\ UNCHANGED <<profile, lifespan, step, resources, owned, admitting, draining, stopEvent, schema,
                 webVars, launchVars, watchVars, faults>>

\* A cancelled task ends when its cleanup is through.
TaskEnds(t) ==
  /\ lifespan = "joining" /\ t \in tasks
  /\ tasks' = tasks \ {t}
  /\ UNCHANGED <<profile, lifespan, step, resources, owned, admitting, draining, stopEvent, schema,
                 webVars, launchVars, watchVars, faults>>

\* Mutant of Joined: the task group is not waited for.
JoinedAtOnce ==
  /\ lifespan = "joining"
  /\ lifespan' = "unwinding" /\ owned' = FALSE
  /\ UNCHANGED <<profile, step, resources, taskVars, schema, webVars,
                 launchVars, watchVars, faults>>

Joined ==
  /\ lifespan = "joining" /\ tasks = {}
  /\ lifespan' = "unwinding" /\ owned' = FALSE
  /\ UNCHANGED <<profile, step, resources, taskVars, schema, webVars,
                 launchVars, watchVars, faults>>

\* The stack resources closes what was opened last; one that raises does not
\* keep the others open.
CloseResource ==
  /\ lifespan = "unwinding"
  /\ IF resources = <<>> THEN lifespan' = "down" /\ UNCHANGED <<resources, streams>>
     ELSE /\ resources' = SubSeq(resources, 1, Len(resources) - 1)
          /\ streams' = IF resources[Len(resources)] = "hub" THEN {} ELSE streams
          /\ UNCHANGED lifespan
  /\ UNCHANGED <<profile, step, owned, taskVars, schema, uvicorn,
                 started, exit, force, listener, launchVars, watchVars, faults>>

----------------------------------------------------------------------------
\* Uvicorn

StartUvicorn ==
  /\ uvicorn = "bound" /\ serve = "polling"
  /\ uvicorn' = "starting" /\ lifespan' = "starting"
  /\ UNCHANGED <<profile, step, resources, owned, taskVars, schema,
                 started, exit, force, listener, streams, launchVars, watchVars, faults>>

\* A lifespan that fails to start ends the server; a signal that came during
\* start-up is acted on in the main loop.
StartupEnds ==
  /\ uvicorn = "starting"
  /\ \/ lifespan = "up" /\ uvicorn' = "serving" /\ started' = TRUE
     \/ lifespan = "down" /\ uvicorn' = "exited" /\ UNCHANGED started
  /\ UNCHANGED <<profile, stackVars, exit, force, listener, streams, launchVars, watchVars,
                 faults>>

Connect(c) ==
  /\ uvicorn = "serving" /\ c \notin streams
  /\ streams' = streams \union {c}
  /\ UNCHANGED <<profile, stackVars, uvicorn, started, exit, force, listener, launchVars,
                 watchVars, faults>>

Leave(c) ==
  /\ c \in streams
  /\ streams' = streams \ {c}
  /\ UNCHANGED <<profile, stackVars, uvicorn, started, exit, force, listener, launchVars,
                 watchVars, faults>>

\* A signal: the first asks, the second forces.
Signal ==
  /\ profile = "cli" /\ uvicorn \in {"starting", "serving", "waiting"}
  /\ exit' = TRUE /\ force' = exit
  /\ <<exit', force'>> # <<exit, force>>
  /\ UNCHANGED <<profile, stackVars, uvicorn, started, listener, streams, launchVars,
                 watchVars, faults>>

StopServing ==
  /\ uvicorn = "serving" /\ exit
  /\ uvicorn' = "waiting" /\ listener' = FALSE
  /\ UNCHANGED <<profile, stackVars, started, exit, force, streams, launchVars, watchVars,
                 faults>>

\* The lifespan is told to shut down when every connection is gone; a forced
\* exit does not tell it.
ConnectionsGone ==
  /\ uvicorn = "waiting"
  /\ \/ force /\ uvicorn' = "exited" /\ UNCHANGED <<stackVars>>
     \/ /\ ~force /\ streams = {}
        /\ uvicorn' = "ending"
        /\ Unwind
        /\ UNCHANGED <<step, resources, owned, tasks, schema>>
  /\ UNCHANGED <<profile, started, exit, force, listener, streams, launchVars, watchVars,
                 faults>>

LifespanEnded ==
  /\ uvicorn = "ending" /\ lifespan = "down"
  /\ uvicorn' = "exited"
  /\ UNCHANGED <<profile, stackVars, started, exit, force, listener, streams, launchVars,
                 watchVars, faults>>

\* run_server's event loop ends with the launcher and cancels what is left: a
\* lifespan that was not told leaves its exit stack by the cancellation.
LoopEnds ==
  /\ profile = "cli" /\ serve \in {"ended", "failed"} /\ lifespan \in {"starting", "up"}
  /\ Unwind
  /\ UNCHANGED <<profile, step, resources, owned, tasks, schema, webVars, launchVars,
                 watchVars, faults>>

----------------------------------------------------------------------------
\* The launcher

\* The polling loop sees server.started: the record is written, and the caller
\* is told.
PublishReady ==
  /\ serve = "polling" /\ started
  /\ serve' = "serving" /\ record' = "ready"
  /\ caller' = IF caller = "starting" THEN "holding" ELSE caller
  /\ UNCHANGED <<profile, stackVars, webVars, watchVars, faults>>

\* Writing the record fails: no failure is published, since the server has
\* started, and the serving task is cancelled wherever it is.
PublishFails ==
  /\ serve = "polling" /\ started /\ Fault
  /\ serve' = "failed" /\ uvicorn' = "exited" /\ listener' = FALSE /\ streams' = {}
  /\ caller' = "gone"
  /\ UNCHANGED <<profile, stackVars, started, exit, force, record, watchVars>>

\* Mutant of ServeFails: the socket stays open.
ServeFailsBound ==
  /\ serve = "polling" /\ ~started /\ uvicorn = "exited"
  /\ serve' = "failed" /\ record' = "failed" /\ caller' = "gone"
  /\ UNCHANGED <<profile, stackVars, webVars, watchVars, faults>>

\* The serving task is done before server.started.
ServeFails ==
  /\ serve = "polling" /\ ~started /\ uvicorn = "exited"
  /\ serve' = "failed" /\ record' = "failed" /\ listener' = FALSE /\ caller' = "gone"
  /\ UNCHANGED <<profile, stackVars, uvicorn, started, exit, force, streams, watchVars,
                 faults>>

ServeEnds ==
  /\ serve = "serving" /\ uvicorn = "exited"
  /\ serve' = "ended" /\ listener' = FALSE
  /\ caller' = "closed"
  /\ UNCHANGED <<profile, stackVars, uvicorn, started, exit, force, streams, record,
                 watchVars, faults>>

\* ServerHandle.close ...
Close ==
  /\ profile = "caller" /\ caller = "holding"
  /\ caller' = "closing" /\ exit' = TRUE
  /\ UNCHANGED <<profile, stackVars, uvicorn, started, force, listener, streams, serve,
                 record, watchVars, faults>>

\* ... waits for the task with a bound; then it cancels it.  A lifespan that is
\* shutting down goes on, one that was not told stays as it is.
CloseTimesOut ==
  /\ caller = "closing"
  /\ caller' = "gone" /\ force' = TRUE
  /\ serve' = "ended" /\ uvicorn' = "exited" /\ listener' = FALSE
  /\ UNCHANGED <<profile, stackVars, started, exit, streams, record, watchVars, faults>>

----------------------------------------------------------------------------
\* The watchdog thread

ParentDies ==
  /\ parent = "alive"
  /\ parent' = "gone"
  /\ UNCHANGED <<profile, stackVars, webVars, launchVars, misses, wrong, dead, faults>>

\* An inconclusive probe changes nothing; Threshold misses in a row kill the
\* children and the process.
ProbeSays(answer) ==
  /\ misses' = CASE answer = "missing" -> misses + 1
                 [] answer = "alive" -> 0
                 [] answer = "unknown" -> misses
  /\ dead' = (misses' >= Threshold)

\* A probe of a living parent may be wrong, but not Threshold times in a row.
Probe(answer) ==
  /\ parent = "gone" => answer # "alive"
  /\ parent = "alive" /\ answer = "missing" => wrong < Threshold - 1
  /\ ProbeSays(answer)
  /\ wrong' = IF parent = "gone" \/ answer = "unknown" THEN wrong
              ELSE IF answer = "missing" THEN wrong + 1 ELSE 0
  /\ UNCHANGED <<profile, stackVars, webVars, launchVars, parent, faults>>

----------------------------------------------------------------------------

Runtime ==
  \/ StepDone \/ DatabaseRefused \/ MaintenanceStops \/ CancelGroup \/ Joined \/ CloseResource
  \/ \E t \in Tasks : ExecutionCloses(t) \/ TaskEnds(t)

Web == StartUvicorn \/ StartupEnds \/ StopServing \/ ConnectionsGone \/ LifespanEnded

Launcher == PublishReady \/ ServeFails \/ ServeEnds

ServerNext ==
  /\ ~dead
  /\ \/ Runtime \/ Web \/ Launcher \/ StepFails \/ LoopEnds \/ PublishFails
     \/ Signal \/ Close \/ CloseTimesOut \/ ParentDies
     \/ \E c \in Clients : Connect(c) \/ Leave(c)
     \/ \E answer \in {"alive", "missing", "unknown"} : Probe(answer)

ServerSpec == ServerInit /\ [][ServerNext]_serverVars

\* The event loop runs what is ready, execution owners and cancelled tasks end,
\* and the watchdog's probes of a dead parent are not inconclusive for ever.
ServerFairSpec ==
  /\ ServerSpec
  /\ WF_serverVars(~dead /\ Runtime) /\ WF_serverVars(~dead /\ Web)
  /\ WF_serverVars(~dead /\ Launcher)
  /\ WF_serverVars(~dead /\ LoopEnds) /\ WF_serverVars(~dead /\ CloseTimesOut)
  /\ WF_serverVars(~dead /\ parent = "gone" /\ Probe("missing"))

----------------------------------------------------------------------------
\* Properties

ServerTypeOK ==
  /\ profile \in {"cli", "caller"}
  /\ lifespan \in {"off", "starting", "up", "closing", "joining", "unwinding", "down"}
  /\ step \in 0..Len(Startup)
  /\ resources \in Seq(Resources)
  /\ owned \in BOOLEAN
  /\ tasks \in SUBSET Tasks /\ admitting \in SUBSET Executions
  /\ draining \in SUBSET Executions
  /\ stopEvent \in BOOLEAN
  /\ uvicorn \in {"bound", "starting", "serving", "waiting", "ending", "exited"}
  /\ {started, exit, force, listener, dead} \subseteq BOOLEAN
  /\ streams \in SUBSET Clients
  /\ serve \in {"polling", "serving", "ended", "failed"}
  /\ record \in {"none", "ready", "failed"}
  /\ caller \in {"starting", "holding", "closing", "closed", "gone"}
  /\ parent \in {"alive", "gone"}
  /\ misses \in 0..Threshold /\ wrong \in 0..(Threshold - 1)
  /\ schema \in {"absent", "current", "other"}
  /\ faults \in 0..MaxFaults

\* No background task runs on after something it calls was closed, however far
\* start-up came and whatever failed on the way down (runtime.py:288-314).
NothingOutlivesWhatItUses ==
  ServerTypeOK /\ \A t \in tasks : Uses[t] \subseteq Open

\* A server that was not forced leaves nothing open, also when its start-up
\* failed half-way; the startup file tells a start from a failure; and a living
\* parent whose probes are wrong fewer than Threshold times in a row costs no
\* backend its life (process_watchdog.py:11-16).
Unforced == ~force /\ ~(serve = "failed" /\ started)

ExitIsClean ==
  /\ serve \in {"ended", "failed"} /\ Unforced =>
       lifespan = "down" /\ tasks = {} /\ resources = <<>> /\ ~listener
  /\ serve = "failed" /\ ~started <=> record = "failed"
  /\ dead => parent = "gone"

\* A server that is asked to exit ends, once its clients have gone; and a
\* backend whose desktop process died does not outlive it.
ShutdownEnds ==
  /\ <>[](streams = {}) => (exit ~> serve \in {"ended", "failed"} \/ dead)
  /\ parent = "gone" ~> dead

=============================================================================
