---------------------------- MODULE Automations ----------------------------
(***************************************************************************)
(* Automations (app/services/automations.py, app/routers/automations.py):  *)
(* rows in the database, and a scheduler in the memory of every worker     *)
(* process that is told of a change by the worker that served the request. *)
(*                                                                         *)
(* A request reads its row, changes the scheduler of its own worker, and   *)
(* commits at its end (app/database.py): between the two it may fail, or   *)
(* its worker may end.  A run reads the row, then the connectors of the    *)
(* owner, then posts.  Connectors come from an OAuth flow whose state is   *)
(* in Redis.  Statuses, error texts and tokens are left out.               *)
(***************************************************************************)
EXTENDS Naturals, FiniteSets

CONSTANTS
    Automations, Owner,   \* automations and the user each belongs to
    Users, Providers,     \* users, and the providers with OAuth
    Prompts,              \* prompts with what a template or the user adds
    Crons, BadCrons,      \* schedules CronTrigger accepts, and others
    Workers,
    MaxRequests, MaxRuns, MaxCrashes,   \* bounds on what is begun
    Older,                \* the sets of connectors there may be at the start
    MaxInFlight,          \* bound on the requests that overlap
    None

ASSUME ConstantsAssumption ==
    /\ Owner \in [Automations -> Users]
    /\ Crons \cap BadCrons = {} /\ None \notin Crons \cup BadCrons
    /\ MaxRequests \in Nat /\ MaxRuns \in Nat /\ MaxCrashes \in Nat
    /\ MaxInFlight \in Nat
    /\ Older \subseteq SUBSET (Users \X Providers)
    /\ Automations \cap (Users \X Providers) = {}

VARIABLES
    row,        \* the committed automation rows
    conn,       \* the committed connector rows: "none", "on" or "off"
    states,     \* the OAuth states in Redis
    up, jobs,   \* the workers that serve, and what their schedulers hold
    loaded,     \* the rows a worker that starts has loaded
    reqs,       \* requests that have not ended
    runs,       \* runs that have not ended
    requests, started, crashes,   \* requests, runs and crashes so far
    touched,    \* the last request to begin a change of an automation
    agreed,     \* what a worker has loaded, or changed with no other request
    onAt, offAt,  \* the last request to begin switching on, to have switched off
    flows       \* the OAuth flows each user has started

rows == <<row, conn>>
history == <<touched, agreed, onAt, offAt, flows>>
runVars == <<runs, started>>
vars == <<rows, states, up, jobs, loaded, reqs, requests, crashes, runVars, history>>

-----------------------------------------------------------------------------
(* What a prompt says: words it contains, whether it names a repository,   *)
(* and the connectors of the template or of the request.                   *)

KeywordProvider ==
    [github |-> "github", repo |-> "github", issue |-> "github", pr |-> "github",
     slack |-> "slack", notion |-> "notion"]

InferConfig(prompt) ==
    LET connectors == {KeywordProvider[k] : k \in prompt.words} \cup prompt.extra
    IN  [required |-> connectors,
         repo |-> prompt.repo,
         kind |-> IF /\ {"github", "slack"} \subseteq connectors
                     /\ prompt.words \cap {"issue", "pr"} # {}
                  THEN "github_repo_to_slack" ELSE "generic"]

Row == [enabled : BOOLEAN, cron : Crons \cup BadCrons,
        config : {InferConfig(p) : p \in Prompts}]

ASSUME NoneAssumption == None \notin Row \cup [Automations -> Row \cup {None}]

\* Faulty: adds the job without building a trigger from the schedule.
Schedule_Unchecked(r) == IF r # None /\ r.enabled THEN r.cron ELSE None

\* What the scheduler holds for a row after upsert_automation_job.
Schedule(r) == IF r # None /\ r.enabled /\ r.cron \in Crons THEN r.cron ELSE None

Connectors == Users \X Providers
Switches == Automations \cup Connectors

Change == [op : {"create", "update", "delete"}, id : Nat, at : Workers, s : Automations,
           seen : Row \cup {None}, new : Row \cup {None},
           on : BOOLEAN, alone : BOOLEAN, quiet : BOOLEAN]
Toggle == [op : {"toggle"}, id : Nat, at : Workers, s : Connectors,
           seen : {"on", "off"}, on : BOOLEAN, quiet : BOOLEAN]
State == [token : Nat, user : Users, provider : Providers]
Callback == [op : {"callback"}, id : Nat, at : Workers, s : Connectors, state : State,
             step : {"got", "exchange", "write"}, seen : {"none", "on", "off"},
             on : {TRUE}]
Run == [id : Nat, at : Workers, a : Automations, trigger : {"cron", "manual"},
        config : {InferConfig(p) : p \in Prompts},
        step : {"started", "ready", "posted", "ended"}, off : SUBSET Switches]

TypeOK ==
    /\ row \in [Automations -> Row \cup {None}]
    /\ conn \in [Connectors -> {"none", "on", "off"}]
    /\ states \subseteq State /\ reqs \subseteq Change \cup Toggle \cup Callback
    /\ up \in [Workers -> BOOLEAN]
    /\ jobs \in [Workers -> [Automations -> Crons \cup {None}]]
    /\ loaded \in [Workers -> {None} \cup [Automations -> Row \cup {None}]]
    /\ runs \subseteq Run
    /\ requests \in 0..MaxRequests /\ crashes \in 0..MaxCrashes
    /\ started \in 0..MaxRuns
    /\ touched \in [Automations -> 0..requests]
    /\ agreed \in [Workers -> SUBSET Automations]
    /\ onAt \in [Switches -> 0..requests] /\ offAt \in [Switches -> 0..requests]
    /\ flows \subseteq Connectors

\* The workers have just started; some automations and connectors are older.
Init ==
    /\ row \in [Automations -> {None} \cup {r \in Row : r.enabled /\ r.cron \in Crons}]
    /\ flows \in Older
    /\ conn = [c \in Connectors |-> IF c \in flows THEN "on" ELSE "none"]
    /\ states = {} /\ reqs = {} /\ runs = {}
    /\ up = [w \in Workers |-> TRUE]
    /\ jobs = [w \in Workers |-> [a \in Automations |-> Schedule(row[a])]]
    /\ loaded = [w \in Workers |-> None]
    /\ requests = 0 /\ started = 0 /\ crashes = 0
    /\ touched = [a \in Automations |-> 0]
    /\ agreed = [w \in Workers |-> Automations]
    /\ onAt = [s \in Switches |-> 0] /\ offAt = [s \in Switches |-> 0]

-----------------------------------------------------------------------------
(* Changes of automations *)

Arrives(w) ==
    /\ up[w]
    /\ requests < MaxRequests /\ Cardinality(reqs) < MaxInFlight
    /\ requests' = requests + 1

On(s) == {r \in reqs : r.s = s}
SwitchingOn(s) == {r \in On(s) : r.on}

\* Faulty: updates the scheduler before the row is changed.
Told_Early(seen, new) == IF new = None \/ seen = None THEN new ELSE seen

\* The row that a request shows to its worker's scheduler.
Told(seen, new) == new

\* The worker's scheduler follows the row at once, before the commit; with a
\* schedule CronTrigger refuses, the job is gone and the request fails.
BeginChange(w, op, a, seen, new, on) ==
    /\ Arrives(w)
    /\ jobs' = [jobs EXCEPT ![w][a] = Schedule(Told(seen, new))]
    /\ reqs' = IF new # None /\ new.enabled /\ new.cron \notin Crons THEN reqs
               ELSE reqs \cup {[op |-> op, id |-> requests + 1, at |-> w, s |-> a,
                               seen |-> seen, new |-> new, on |-> on,
                               alone |-> On(a) = {}, quiet |-> SwitchingOn(a) = {}]}
    /\ touched' = [touched EXCEPT ![a] = requests + 1]
    /\ agreed' = [v \in Workers |-> agreed[v] \ {a}]
    /\ onAt' = IF on THEN [onAt EXCEPT ![a] = requests + 1] ELSE onAt
    /\ UNCHANGED <<rows, states, up, loaded, crashes, runVars, offAt, flows>>

Create(w, a, prompt, cron) ==
    /\ row[a] = None /\ touched[a] = 0
    /\ BeginChange(w, "create", a, None,
                   [enabled |-> TRUE, cron |-> cron, config |-> InferConfig(prompt)], TRUE)

\* enabled and cron are None where the request does not give them.
Update(w, a, enabled, cron) ==
    /\ row[a] # None
    /\ BeginChange(w, "update", a, row[a],
                   [row[a] EXCEPT !.enabled = IF enabled = None THEN @ ELSE enabled,
                                  !.cron = IF cron = None THEN @ ELSE cron],
                   enabled = TRUE)

Delete(w, a) ==
    /\ row[a] # None
    /\ BeginChange(w, "delete", a, row[a], None, FALSE)

\* Faulty: writes every column, not only those the request changed.
Merged_AllColumns(r) == r.new

\* The columns that differ from what the request read.
Merged(r) == [row[r.s] EXCEPT
                !.enabled = IF r.new.enabled = r.seen.enabled THEN @ ELSE r.new.enabled,
                !.cron = IF r.new.cron = r.seen.cron THEN @ ELSE r.new.cron]

SwitchedOff(r) ==
    IF r.quiet /\ onAt[r.s] < r.id THEN [offAt EXCEPT ![r.s] = r.id] ELSE offAt

\* The log row of a run in progress refers to its automation and holds it.  No
\* create commits: building its response raises a TypeError every time.
CommitChange(r) ==
    /\ r \in reqs /\ r.op \in {"update", "delete"}
    /\ r.op = "update" => row[r.s] # None
    /\ r.op = "delete" => ~ \E u \in runs : u.a = r.s
    /\ reqs' = reqs \ {r}
    /\ row' = [row EXCEPT ![r.s] = IF r.op = "update" THEN Merged(r) ELSE r.new]
    /\ agreed' = IF r.alone /\ touched[r.s] = r.id
                 THEN [agreed EXCEPT ![r.at] = @ \cup {r.s}] ELSE agreed
    /\ offAt' = IF r.new = None \/ ~r.new.enabled THEN SwitchedOff(r) ELSE offAt
    /\ UNCHANGED <<conn, states, up, loaded, jobs, requests, crashes, runVars, touched, onAt, flows>>

\* An exception, the loss of the row among them: the request is rolled back,
\* and its worker's scheduler keeps what it was told.
Fail(r) ==
    /\ r \in reqs
    /\ reqs' = reqs \ {r}
    /\ UNCHANGED <<rows, states, up, loaded, jobs, requests, crashes, runVars, history>>

-----------------------------------------------------------------------------
(* Workers *)

Crash(w) ==
    /\ up[w] \/ loaded[w] # None
    /\ crashes < MaxCrashes
    /\ up' = [up EXCEPT ![w] = FALSE]
    /\ loaded' = [loaded EXCEPT ![w] = None]
    /\ crashes' = crashes + 1
    /\ jobs' = [jobs EXCEPT ![w] = [a \in Automations |-> None]]
    /\ reqs' = {r \in reqs : r.at # w}
    /\ runs' = {u \in runs : u.at # w}
    /\ agreed' = [agreed EXCEPT ![w] = {}]
    /\ UNCHANGED <<rows, states, requests, started, touched, onAt, offAt, flows>>

\* restore_automation_jobs selects the rows; requests to other workers go on.
Restart(w) ==
    /\ ~up[w] /\ loaded[w] = None
    /\ loaded' = [loaded EXCEPT ![w] = row]
    /\ agreed' = [agreed EXCEPT ![w] = {a \in Automations : On(a) = {}}]
    /\ UNCHANGED <<rows, states, up, jobs, reqs, requests, crashes, runVars,
                   touched, onAt, offAt, flows>>

\* It schedules what it selected, passing over a row whose schedule is refused,
\* and the worker begins to serve.
Restore(w) ==
    /\ loaded[w] # None
    /\ jobs' = [jobs EXCEPT ![w] = [a \in Automations |-> Schedule(loaded[w][a])]]
    /\ up' = [up EXCEPT ![w] = TRUE]
    /\ loaded' = [loaded EXCEPT ![w] = None]
    /\ UNCHANGED <<rows, states, reqs, requests, crashes, runVars, history>>

-----------------------------------------------------------------------------
(* Connectors *)

ToggleBegin(w, c, on) ==
    /\ conn[c] # "none"
    /\ Arrives(w)
    /\ reqs' = reqs \cup {[op |-> "toggle", id |-> requests + 1, at |-> w, s |-> c,
                           seen |-> conn[c], on |-> on, quiet |-> SwitchingOn(c) = {}]}
    /\ onAt' = IF on THEN [onAt EXCEPT ![c] = requests + 1] ELSE onAt
    /\ UNCHANGED <<rows, states, up, loaded, jobs, crashes, runVars, touched, agreed, offAt, flows>>

ToggleCommit(r) ==
    /\ r \in reqs /\ r.op = "toggle"
    /\ reqs' = reqs \ {r}
    /\ LET want == IF r.on THEN "on" ELSE "off"
       IN  conn' = [conn EXCEPT ![r.s] = IF want = r.seen THEN @ ELSE want]
    /\ offAt' = IF r.on THEN offAt ELSE SwitchedOff(r)
    /\ UNCHANGED <<row, states, up, loaded, jobs, requests, crashes, runVars,
                   touched, agreed, onAt, flows>>

StartOAuth(w, c) ==
    /\ Arrives(w)
    /\ states' = states \cup {[token |-> requests + 1, user |-> c[1], provider |-> c[2]]}
    /\ flows' = flows \cup {c}
    /\ UNCHANGED <<rows, up, loaded, jobs, reqs, crashes, runVars, touched, agreed, onAt, offAt>>

\* Ten minutes have passed.
StateExpires(t) ==
    /\ t \in states
    /\ states' = states \ {t}
    /\ UNCHANGED <<rows, up, loaded, jobs, reqs, requests, crashes, runVars, history>>

\* The callback of provider p reads the state.
CallbackGet(w, p, t) ==
    /\ t \in states
    /\ Arrives(w)
    /\ reqs' = reqs \cup {[op |-> "callback", id |-> requests + 1, at |-> w,
                           s |-> <<t.user, p>>, state |-> t, step |-> "got",
                           seen |-> "none", on |-> TRUE]}
    /\ onAt' = [onAt EXCEPT ![<<t.user, p>>] = requests + 1]
    /\ UNCHANGED <<rows, states, up, loaded, jobs, crashes, runVars, touched, agreed, offAt, flows>>

\* Faulty: does not compare the provider of the state with the callback's.
CallbackDelete_AnyProvider(r) ==
    /\ r \in reqs /\ r.op = "callback" /\ r.step = "got"
    /\ states' = states \ {r.state}
    /\ reqs' = (reqs \ {r}) \cup {[r EXCEPT !.step = "exchange"]}
    /\ UNCHANGED <<rows, up, loaded, jobs, requests, crashes, runVars, history>>

CallbackDelete(r) ==
    /\ r \in reqs /\ r.op = "callback" /\ r.step = "got"
    /\ states' = states \ {r.state}
    /\ reqs' = (reqs \ {r}) \cup
               (IF r.state.provider # r.s[2] THEN {} ELSE {[r EXCEPT !.step = "exchange"]})
    /\ UNCHANGED <<rows, up, loaded, jobs, requests, crashes, runVars, history>>

\* The provider has answered; the connector is looked up.
CallbackRead(r) ==
    /\ r \in reqs /\ r.op = "callback" /\ r.step = "exchange"
    /\ reqs' = (reqs \ {r}) \cup {[r EXCEPT !.step = "write", !.seen = conn[r.s]]}
    /\ UNCHANGED <<rows, states, up, loaded, jobs, requests, crashes, runVars, history>>

\* (user, provider) is unique in the table: a second insert fails.
CallbackCommit(r) ==
    /\ r \in reqs /\ r.op = "callback" /\ r.step = "write"
    /\ r.seen = "none" => conn[r.s] = "none"
    /\ reqs' = reqs \ {r}
    /\ conn' = [conn EXCEPT ![r.s] = IF r.seen = "on" THEN @ ELSE "on"]
    /\ UNCHANGED <<row, states, up, loaded, jobs, requests, crashes, runVars, history>>

-----------------------------------------------------------------------------
(* Runs *)

\* Those of ss that were switched off, with no request since to switch them on.
Off(ss) == {s \in ss : offAt[s] > onAt[s]}

StartRun(w, a, trigger) ==
    /\ started < MaxRuns
    /\ row[a] # None /\ row[a].enabled
    /\ started' = started + 1
    /\ runs' = runs \cup {[id |-> started + 1, at |-> w, a |-> a, trigger |-> trigger,
                           config |-> row[a].config, step |-> "started",
                           off |-> Off({a})]}
    /\ UNCHANGED <<rows, states, up, loaded, jobs, reqs, requests, crashes, history>>

\* max_instances is 1: a job whose last run goes on is skipped.
FireJob(w, a) ==
    /\ up[w] /\ jobs[w][a] # None
    /\ ~ \E u \in runs : u.at = w /\ u.a = a /\ u.trigger = "cron"
    /\ StartRun(w, a, "cron")

RunNow(w, a) == up[w] /\ StartRun(w, a, "manual")

\* A run goes on, having read the rows of ss.
Moves(u, from, to, ss) ==
    /\ u \in runs /\ u.step = from
    /\ runs' = (runs \ {u}) \cup {[u EXCEPT !.step = to, !.off = @ \cup Off(ss)]}
    /\ UNCHANGED <<rows, states, up, loaded, jobs, reqs, requests, started, crashes, history>>

\* Every provider the configuration names has an enabled connector now.
Connected(u) == \A p \in u.config.required :
                    p \in Providers /\ conn[<<Owner[u.a], p>>] = "on"

\* Only one kind of configuration does anything, and it needs a repository.
ReadConnectors(u) ==
    LET acts == Connected(u) /\ u.config.kind = "github_repo_to_slack" /\ u.config.repo
    IN  Moves(u, "started", IF acts THEN "ready" ELSE "ended",
              {<<Owner[u.a], p>> : p \in u.config.required \cap Providers})

Post(u) == Moves(u, "ready", "posted", {})

\* GitHub or Slack refuses, or does not answer.
PostFails(u) == Moves(u, "ready", "ended", {})

\* The session of the run is closed, and as nothing commits it, the log of the
\* run and the automation's last status go with it.
EndRun(u) ==
    /\ u \in runs /\ u.step \in {"posted", "ended"}
    /\ runs' = runs \ {u}
    /\ UNCHANGED <<rows, states, up, loaded, jobs, reqs, requests, crashes, started, history>>

-----------------------------------------------------------------------------

Next ==
    \/ \E w \in Workers, a \in Automations :
        \/ \E prompt \in Prompts, cron \in Crons \cup BadCrons : Create(w, a, prompt, cron)
        \/ \E enabled \in BOOLEAN \cup {None}, cron \in Crons \cup BadCrons \cup {None} :
               Update(w, a, enabled, cron)
        \/ Delete(w, a)
        \/ FireJob(w, a) \/ RunNow(w, a)
    \/ \E w \in Workers, c \in Connectors :
        StartOAuth(w, c) \/ \E on \in BOOLEAN : ToggleBegin(w, c, on)
    \/ \E w \in Workers, p \in Providers, t \in states : CallbackGet(w, p, t)
    \/ \E r \in reqs :
        \/ CommitChange(r) \/ ToggleCommit(r) \/ Fail(r)
        \/ CallbackDelete(r) \/ CallbackRead(r) \/ CallbackCommit(r)
    \/ \E w \in Workers : Crash(w) \/ Restart(w) \/ Restore(w)
    \/ \E t \in states : StateExpires(t)
    \/ \E u \in runs : ReadConnectors(u) \/ Post(u) \/ PostFails(u) \/ EndRun(u)

Spec == Init /\ [][Next]_vars

-----------------------------------------------------------------------------

\* What a worker selected at its start while no change of the automation was in
\* flight, or changed in a request that no other change overlapped, its scheduler
\* holds as the committed row says, until the next change begins.  A change that
\* another worker serves, also between the selection and the scheduling, and one
\* that is rolled back leave it behind the row
\* (upsert_automation_job, restore_automation_jobs).
SchedulerAgrees ==
    \A w \in Workers : up[w] => \A a \in agreed[w] : jobs[w][a] = Schedule(row[a])

\* Nothing is posted by a run that read its automation after it was paused or
\* deleted, or a connector after it was switched off, and before any request began
\* to switch it on again, whatever the schedulers of the other workers still hold
\* and whatever else is changed at the same time (run_automation_job).
QuietWhenOff == \A u \in runs : u.step = "posted" => u.off = {}

\* A user has a connector of a provider only after starting its OAuth flow, with
\* states that expire, are used twice or arrive at the callback of another
\* provider (connector_oauth_callback).
ConnectorWasAskedFor == \A c \in Connectors : conn[c] # "none" => c \in flows

=============================================================================
