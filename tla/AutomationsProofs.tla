------------------------- MODULE AutomationsProofs -------------------------
(***************************************************************************)
(* Proofs about automations, for every number of users, automations,       *)
(* workers, requests, runs and crashes.  A request changes nothing that is *)
(* committed before its end, so the invariant says of each request in      *)
(* flight what its commit relies on; three arguments share the facts of    *)
(* Numbered and Shaped and are otherwise independent.                      *)
(***************************************************************************)
EXTENDS Automations, TLAPS

Changes == {r \in reqs : r.op \in {"create", "update", "delete"}}
Toggles == {r \in reqs : r.op = "toggle"}
Callbacks == {r \in reqs : r.op = "callback"}

IsOn(x) == x # None /\ x.enabled
SwitchedOn(s) == \/ s \in Automations /\ IsOn(row[s])
                 \/ s \in Connectors /\ conn[s] = "on"

-----------------------------------------------------------------------------
(* The invariant *)

\* Requests are numbered as they arrive, and end with their worker.
Numbered ==
    /\ \A r \in reqs : r.id <= requests /\ up[r.at]
    /\ \A r, q \in reqs : r.id = q.id => r = q

\* What each kind of change has read and will write.
Shaped ==
    \A r \in Changes :
        /\ r.op = "create" => r.seen = None /\ r.new # None
        /\ r.op = "update" => r.seen # None /\ r.new # None
                              /\ r.new.config = r.seen.config
        /\ r.op = "delete" => r.new = None
        /\ IsOn(r.new) => r.on \/ IsOn(r.seen)

Basics == TypeOK /\ Numbered /\ Shaped

\* A request that met no other when it began has only later ones beside it.
Alone == \A r \in Changes, q \in reqs : r.alone /\ q.s = r.s => r.id <= q.id

Noted == \A r \in Changes : r.id <= touched[r.s]

\* If none has begun since, the row is as it was read, and the scheduler holds
\* what the request will write.
Follows ==
    \A r \in Changes :
        r.alone /\ touched[r.s] = r.id =>
            row[r.s] = r.seen /\ jobs[r.at][r.s] = Schedule(r.new)

Unagreed == \A r \in Changes, w \in Workers : r.s \notin agreed[w]

\* What a scheduler holds, or is about to.
Holds(w, a) == IF loaded[w] = None THEN jobs[w][a] ELSE Schedule(loaded[w][a])

Agrees == \A w \in Workers : \A a \in agreed[w] : Holds(w, a) = Schedule(row[a])

Settled == \A w \in Workers : up[w] => loaded[w] = None

Agreement == Alone /\ Noted /\ Follows /\ Unagreed /\ Agrees /\ Settled

OnNoted == \A r \in reqs : r.on => r.id <= onAt[r.s]

\* Beside a request that met none that switches on, and was followed by none,
\* there is none.
QuietHolds ==
    \A r \in Changes \cup Toggles, q \in reqs :
        r.quiet /\ onAt[r.s] < r.id /\ q.s = r.s => ~q.on

\* What such a request found off is off.
FoundOff(r) == IF r.op = "toggle" THEN r.seen = "off" ELSE ~IsOn(r.seen)

SeenOff ==
    \A r \in Changes \cup Toggles :
        r.quiet /\ onAt[r.s] < r.id /\ FoundOff(r) => ~SwitchedOn(r.s)

\* What was switched off is off, and no request is about to switch it on.
OffHolds ==
    \A s \in Switches :
        offAt[s] > onAt[s] => ~SwitchedOn(s) /\ \A q \in reqs : q.s = s => ~q.on

RunsQuiet == \A u \in runs : u.step # "ended" => u.off = {}

Peace == OnNoted /\ QuietHolds /\ SeenOff /\ OffHolds
Silence == Peace /\ RunsQuiet

StatesAsked == \A t \in states : <<t.user, t.provider>> \in flows

\* A callback past the comparison is for the provider of its state.
CallbacksAsked ==
    \A r \in Callbacks :
        /\ <<r.state.user, r.state.provider>> \in flows
        /\ r.s[1] = r.state.user
        /\ r.step # "got" => r.s[2] = r.state.provider

TogglesExist == \A r \in Toggles : conn[r.s] # "none"

Consent == StatesAsked /\ CallbacksAsked /\ TogglesExist /\ ConnectorWasAskedFor

IInv == Basics /\ Agreement /\ Silence /\ Consent

-----------------------------------------------------------------------------
(* What the actions do *)

LEMMA Kinds ==
  ASSUME TypeOK, NEW r \in reqs
  PROVE  /\ r.op \in {"create", "update", "delete"} <=> r \in Change
         /\ r.op = "toggle" <=> r \in Toggle
         /\ r.op = "callback" <=> r \in Callback
         /\ r \in Change \/ r \in Toggle \/ r \in Callback
  BY DEF TypeOK, Change, Toggle, Callback

LEMMA RequestType ==
  ASSUME TypeOK, NEW r \in reqs
  PROVE  /\ r.id \in Nat /\ r.at \in Workers /\ r.s \in Switches
         /\ r.on \in BOOLEAN
         /\ r \in Change => r.s \in Automations /\ r.s \notin Connectors
         /\ r \in Toggle \cup Callback => r.s \in Connectors /\ r.s \notin Automations
  <1>1. CASE r \in Change
    <2>1. r.s \in Automations /\ r.id \in Nat /\ r.at \in Workers /\ r.on \in BOOLEAN
      BY <1>1 DEF Change
    <2>2. r \notin Toggle /\ r \notin Callback
      BY <1>1 DEF Change, Toggle, Callback
    <2> QED
      BY <2>1, <2>2, ConstantsAssumption DEF Switches, Connectors
  <1>2. CASE r \in Toggle
    <2>1. r.s \in Connectors /\ r.id \in Nat /\ r.at \in Workers /\ r.on \in BOOLEAN
      BY <1>2 DEF Toggle
    <2>2. r \notin Change
      BY <1>2 DEF Change, Toggle
    <2> QED
      BY <2>1, <2>2, ConstantsAssumption DEF Switches, Connectors
  <1>3. CASE r \in Callback
    <2>1. r.s \in Connectors /\ r.id \in Nat /\ r.at \in Workers /\ r.on \in BOOLEAN
      BY <1>3 DEF Callback
    <2>2. r \notin Change
      BY <1>3 DEF Change, Callback
    <2> QED
      BY <2>1, <2>2, ConstantsAssumption DEF Switches, Connectors
  <1> QED
    BY <1>1, <1>2, <1>3, Kinds

LEMMA ScheduleType ==
  ASSUME NEW x \in Row \cup {None}
  PROVE  Schedule(x) \in Crons \cup {None}
  BY DEF Schedule

\* A change of a, which is to write new, was begun on w.
Entry(w, op, a, new, on) ==
    [op |-> op, id |-> requests + 1, at |-> w, s |-> a, seen |-> row[a], new |-> new,
     on |-> on, alone |-> On(a) = {}, quiet |-> SwitchingOn(a) = {}]

Begun(w, op, a, new, on) ==
    /\ BeginChange(w, op, a, row[a], new, on)
    /\ op \in {"create", "update", "delete"}
    /\ new \in Row \cup {None} /\ on \in BOOLEAN
    /\ op = "create" => row[a] = None /\ new # None
    /\ op = "update" => row[a] # None /\ new # None /\ new.config = row[a].config
    /\ op = "delete" => new = None
    /\ IsOn(new) => on \/ IsOn(row[a])

LEMMA ChangeBegins ==
  ASSUME TypeOK, NEW w \in Workers, NEW a \in Automations,
         \/ \E prompt \in Prompts, cron \in Crons \cup BadCrons : Create(w, a, prompt, cron)
         \/ \E enabled \in BOOLEAN \cup {None}, cron \in Crons \cup BadCrons \cup {None} :
                Update(w, a, enabled, cron)
         \/ Delete(w, a)
  PROVE  \E op, new, on : Begun(w, op, a, new, on)
  <1>1. ASSUME NEW prompt \in Prompts, NEW cron \in Crons \cup BadCrons,
               Create(w, a, prompt, cron)
        PROVE  \E op, new, on : Begun(w, op, a, new, on)
    <2> DEFINE new == [enabled |-> TRUE, cron |-> cron, config |-> InferConfig(prompt)]
    <2>1. new \in Row
      BY DEF Row
    <2>2. row[a] = None /\ BeginChange(w, "create", a, row[a], new, TRUE)
      BY <1>1 DEF Create
    <2> HIDE DEF new
    <2>3. Begun(w, "create", a, new, TRUE)
      BY <2>1, <2>2, NoneAssumption DEF Begun
    <2> QED
      BY <2>3
  <1>2. ASSUME NEW enabled \in BOOLEAN \cup {None},
               NEW cron \in Crons \cup BadCrons \cup {None}, Update(w, a, enabled, cron)
        PROVE  \E op, new, on : Begun(w, op, a, new, on)
    <2> DEFINE new == [row[a] EXCEPT !.enabled = IF enabled = None THEN @ ELSE enabled,
                                     !.cron = IF cron = None THEN @ ELSE cron]
    <2>1. row[a] # None /\ row[a] \in Row
      BY <1>2 DEF Update, TypeOK
    <2>2. BeginChange(w, "update", a, row[a], new, enabled = TRUE)
      BY <1>2 DEF Update
    <2>3. /\ new \in Row /\ new.config = row[a].config
          /\ new.enabled = IF enabled = None THEN row[a].enabled ELSE enabled
      BY <2>1 DEF Row
    <2> HIDE DEF new
    <2>4. IsOn(new) => enabled = TRUE \/ IsOn(row[a])
      BY <2>1, <2>3 DEF IsOn
    <2> DEFINE on == enabled = TRUE
    <2>5. on \in BOOLEAN
      OBVIOUS
    <2>6. BeginChange(w, "update", a, row[a], new, on) /\ (IsOn(new) => on \/ IsOn(row[a]))
      BY <2>2, <2>4
    <2> HIDE DEF on
    <2>7. Begun(w, "update", a, new, on)
      BY <2>1, <2>3, <2>5, <2>6, NoneAssumption DEF Begun
    <2> QED
      BY <2>7
  <1>3. ASSUME Delete(w, a)
        PROVE  \E op, new, on : Begun(w, op, a, new, on)
    <2>1. Begun(w, "delete", a, None, FALSE)
      BY <1>3 DEF Delete, Begun, IsOn
    <2> QED
      BY <2>1
  <1> QED
    BY <1>1, <1>2, <1>3

LEMMA EntryType ==
  ASSUME TypeOK, NEW w \in Workers, NEW a \in Automations, NEW op, NEW new, NEW on,
         Begun(w, op, a, new, on)
  PROVE  /\ Entry(w, op, a, new, on) \in Change
         /\ reqs' \subseteq reqs \cup {Entry(w, op, a, new, on)}
         /\ up[w] /\ requests < MaxRequests /\ requests' = requests + 1
  <1>1. row[a] \in Row \cup {None} /\ requests \in Nat
    BY DEF TypeOK
  <1> DEFINE alone == On(a) = {}
             quiet == SwitchingOn(a) = {}
  <1>2. alone \in BOOLEAN /\ quiet \in BOOLEAN
    OBVIOUS
  <1>3. Entry(w, op, a, new, on) =
          [op |-> op, id |-> requests + 1, at |-> w, s |-> a, seen |-> row[a], new |-> new,
           on |-> on, alone |-> alone, quiet |-> quiet]
    BY DEF Entry
  <1>4. reqs' \subseteq reqs \cup {Entry(w, op, a, new, on)}
    BY DEF Begun, BeginChange, Entry
  <1> HIDE DEF alone, quiet
  <1>5. Entry(w, op, a, new, on) \in Change
    BY <1>1, <1>2, <1>3 DEF Begun, Change
  <1> QED
    BY <1>4, <1>5 DEF Begun, BeginChange, Arrives

\* A step of a callback before its commit replaces the request's record.
Moved(r, n) ==
    /\ r \in Callback /\ n \in Callback
    /\ n.id = r.id /\ n.at = r.at /\ n.s = r.s /\ n.on = r.on /\ n.state = r.state
    /\ n.op = r.op
    /\ n.step # "got" => r.step # "got" \/ r.state.provider = r.s[2]
    /\ reqs' \subseteq (reqs \ {r}) \cup {n}

LEMMA CallbackMoves ==
  ASSUME TypeOK, NEW r \in reqs, CallbackDelete(r) \/ CallbackRead(r)
  PROVE  \E n : Moved(r, n)
  <1>1. r \in Callback
    BY Kinds DEF CallbackDelete, CallbackRead
  <1>2. ASSUME CallbackDelete(r) PROVE \E n : Moved(r, n)
    <2> DEFINE n == [r EXCEPT !.step = "exchange"]
    <2>1. CASE r.state.provider # r.s[2]
      <3>1. reqs' \subseteq (reqs \ {r}) \cup {r}
        BY <1>2, <2>1 DEF CallbackDelete
      <3>2. Moved(r, r)
        BY <1>1, <3>1 DEF Moved
      <3> QED
        BY <3>2
    <2>2. CASE r.state.provider = r.s[2]
      <3>1. reqs' = (reqs \ {r}) \cup {n}
        BY <1>2, <2>2 DEF CallbackDelete
      <3>2. /\ n \in Callback /\ n.id = r.id /\ n.at = r.at /\ n.s = r.s /\ n.on = r.on
            /\ n.state = r.state /\ n.op = r.op
        BY <1>1 DEF Callback
      <3> HIDE DEF n
      <3>3. Moved(r, n)
        BY <1>1, <2>2, <3>1, <3>2 DEF Moved
      <3> QED
        BY <3>3
    <2> QED
      BY <2>1, <2>2
  <1>3. ASSUME CallbackRead(r) PROVE \E n : Moved(r, n)
    <2> DEFINE n == [r EXCEPT !.step = "write", !.seen = conn[r.s]]
    <2>1. reqs' = (reqs \ {r}) \cup {n} /\ r.step = "exchange"
      BY <1>3 DEF CallbackRead
    <2>2. conn[r.s] \in {"none", "on", "off"}
      BY <1>1 DEF TypeOK, Callback
    <2>3. /\ n \in Callback /\ n.id = r.id /\ n.at = r.at /\ n.s = r.s /\ n.on = r.on
          /\ n.state = r.state /\ n.op = r.op
      BY <1>1, <2>2 DEF Callback
    <2> HIDE DEF n
    <2>4. Moved(r, n)
      BY <1>1, <2>1, <2>3 DEF Moved
    <2> QED
      BY <2>4
  <1> QED
    BY <1>2, <1>3


-----------------------------------------------------------------------------
(* Types *)

LEMMA Grow ==
  ASSUME NEW S, NEW m \in Nat, NEW f \in [S -> 0..m]
  PROVE  f \in [S -> 0..(m + 1)]
  <1>1. 0..m \subseteq 0..(m + 1)
    OBVIOUS
  <1> QED
    BY <1>1

LEMMA ChangeTypes ==
  ASSUME TypeOK, NEW w \in Workers, NEW a \in Automations, NEW op, NEW new, NEW on,
         Begun(w, op, a, new, on)
  PROVE  TypeOK'
  <1>1. /\ requests \in Nat /\ requests' = requests + 1 /\ requests' \in 0..MaxRequests
        /\ requests' \in 0..requests'
        /\ reqs' \subseteq Change \cup Toggle \cup Callback
    BY EntryType, ConstantsAssumption DEF TypeOK
  <1>2. jobs' \in [Workers -> [Automations -> Crons \cup {None}]]
    <2>1. Schedule(new) \in Crons \cup {None}
      BY ScheduleType DEF Begun
    <2>2. jobs' = [jobs EXCEPT ![w][a] = Schedule(new)]
      BY DEF Begun, BeginChange, Told
    <2> QED
      BY <2>1, <2>2 DEF TypeOK
  <1>3. touched' \in [Automations -> 0..requests']
    <2>1. touched \in [Automations -> 0..requests']
      BY <1>1, Grow DEF TypeOK
    <2> QED
      BY <1>1, <2>1 DEF Begun, BeginChange
  <1>4. onAt' \in [Switches -> 0..requests'] /\ offAt' \in [Switches -> 0..requests']
    <2>1. onAt \in [Switches -> 0..requests'] /\ offAt \in [Switches -> 0..requests']
      BY <1>1, Grow DEF TypeOK
    <2> QED
      BY <1>1, <2>1 DEF Begun, BeginChange
  <1>5. agreed' \in [Workers -> SUBSET Automations]
    BY DEF Begun, BeginChange, TypeOK
  <1> QED
    BY <1>1, <1>2, <1>3, <1>4, <1>5 DEF TypeOK, Begun, BeginChange, rows, runVars

LEMMA MergedType ==
  ASSUME TypeOK, Shaped, NEW r \in reqs, r.op = "update", row[r.s] # None
  PROVE  /\ Merged(r) \in Row
         /\ Merged(r).config = row[r.s].config
         /\ r \in Change /\ row[r.s] \in Row
  <1>1. r \in Change
    BY Kinds
  <1>2. row[r.s] \in Row
    BY <1>1 DEF TypeOK, Change
  <1>3. r.new \in Row /\ r.seen \in Row
    BY <1>1 DEF Change, Shaped, Changes
  <1> DEFINE e == IF r.new.enabled = r.seen.enabled THEN row[r.s].enabled ELSE r.new.enabled
             c == IF r.new.cron = r.seen.cron THEN row[r.s].cron ELSE r.new.cron
  <1>4. Merged(r) = [row[r.s] EXCEPT !.enabled = e, !.cron = c]
    BY DEF Merged
  <1>5. e \in BOOLEAN /\ c \in Crons \cup BadCrons
    BY <1>2, <1>3 DEF Row
  <1> HIDE DEF e, c
  <1> QED
    BY <1>1, <1>2, <1>4, <1>5 DEF Row

LEMMA SwitchedOffType ==
  ASSUME TypeOK, Numbered, NEW r \in reqs
  PROVE  SwitchedOff(r) \in [Switches -> 0..requests]
  <1>1. r.id \in 0..requests
    BY RequestType DEF Numbered, TypeOK
  <1> QED
    BY <1>1 DEF SwitchedOff, TypeOK

LEMMA CommitTypes ==
  ASSUME Basics, NEW r \in reqs, CommitChange(r)
  PROVE  TypeOK'
  <1> USE DEF Basics
  <1>1. r \in Change
    BY Kinds DEF CommitChange
  <1>2. r.s \in Automations /\ r.at \in Workers /\ r.new \in Row \cup {None}
    BY <1>1 DEF Change
  <1>3. row' \in [Automations -> Row \cup {None}]
    <2>1. r.op = "update" => Merged(r) \in Row
      BY MergedType DEF CommitChange
    <2> QED
      BY <1>2, <2>1 DEF CommitChange, TypeOK
  <1>4. agreed' \in [Workers -> SUBSET Automations]
    BY <1>2 DEF CommitChange, TypeOK
  <1>5. offAt' \in [Switches -> 0..requests]
    BY SwitchedOffType DEF CommitChange, TypeOK
  <1>6. reqs' \subseteq reqs
    BY DEF CommitChange
  <1> QED
    BY <1>3, <1>4, <1>5, <1>6 DEF CommitChange, TypeOK, runVars

\* A request that is no change of an automation has arrived for s.
LEMMA ArrivalTypes ==
  ASSUME TypeOK, NEW w \in Workers, Arrives(w), NEW q \in Toggle \cup Callback,
         NEW on \in BOOLEAN,
         reqs' \subseteq reqs \cup {q},
         onAt' = IF on THEN [onAt EXCEPT ![q.s] = requests + 1] ELSE onAt,
         states' \subseteq State, flows' \subseteq Connectors,
         UNCHANGED <<rows, up, loaded, jobs, crashes, runVars, touched, agreed, offAt>>
  PROVE  TypeOK'
  <1>1. /\ requests \in Nat /\ requests' = requests + 1 /\ requests' \in 0..MaxRequests
        /\ requests' \in 0..requests'
    BY ConstantsAssumption DEF Arrives, TypeOK
  <1>2. /\ onAt \in [Switches -> 0..requests'] /\ offAt \in [Switches -> 0..requests']
        /\ touched \in [Automations -> 0..requests']
    BY <1>1, Grow DEF TypeOK
  <1>3. onAt' \in [Switches -> 0..requests']
    BY <1>1, <1>2
  <1>4. reqs' \subseteq Change \cup Toggle \cup Callback
    BY DEF TypeOK
  <1> QED
    BY <1>1, <1>2, <1>3, <1>4 DEF TypeOK, rows, runVars

LEMMA ToggleArrives ==
  ASSUME TypeOK, NEW w \in Workers, NEW c \in Connectors, NEW on \in BOOLEAN,
         ToggleBegin(w, c, on)
  PROVE  \E q \in Toggle :
            /\ q.op = "toggle" /\ q.id = requests + 1 /\ q.at = w /\ q.s = c
            /\ q.on = on /\ q.seen = conn[c] /\ q.quiet = (SwitchingOn(c) = {})
            /\ reqs' = reqs \cup {q}
  <1> DEFINE quiet == SwitchingOn(c) = {}
             q == [op |-> "toggle", id |-> requests + 1, at |-> w, s |-> c,
                   seen |-> conn[c], on |-> on, quiet |-> quiet]
  <1>1. quiet \in BOOLEAN
    OBVIOUS
  <1>2. reqs' = reqs \cup {q}
    BY DEF ToggleBegin
  <1>3. conn[c] \in {"on", "off"} /\ requests + 1 \in Nat
    BY DEF ToggleBegin, TypeOK
  <1>4. q.quiet = (SwitchingOn(c) = {})
    OBVIOUS
  <1> HIDE DEF quiet
  <1>5. q \in Toggle
    BY <1>1, <1>3 DEF Toggle
  <1> QED
    BY <1>2, <1>4, <1>5

LEMMA CallbackArrives ==
  ASSUME TypeOK, NEW w \in Workers, NEW p \in Providers, NEW t \in states,
         CallbackGet(w, p, t)
  PROVE  \E q \in Callback :
            /\ q.op = "callback" /\ q.id = requests + 1 /\ q.at = w
            /\ q.s = <<t.user, p>> /\ q.state = t /\ q.step = "got" /\ q.on
            /\ reqs' = reqs \cup {q}
  <1> DEFINE q == [op |-> "callback", id |-> requests + 1, at |-> w,
                   s |-> <<t.user, p>>, state |-> t, step |-> "got",
                   seen |-> "none", on |-> TRUE]
  <1>1. t \in State /\ requests + 1 \in Nat
    BY DEF TypeOK
  <1>2. <<t.user, p>> \in Connectors
    BY <1>1 DEF State, Connectors
  <1>3. q \in Callback
    BY <1>1, <1>2 DEF Callback
  <1>4. reqs' = reqs \cup {q}
    BY DEF CallbackGet
  <1> QED
    BY <1>3, <1>4

\* A connector row is written.
LEMMA ConnTypes ==
  ASSUME Basics, NEW r \in reqs, ToggleCommit(r) \/ CallbackCommit(r)
  PROVE  TypeOK'
  <1>1. r.s \in Connectors
    BY Kinds, RequestType DEF ToggleCommit, CallbackCommit, Basics
  <1>2. conn' \in [Connectors -> {"none", "on", "off"}]
    BY <1>1 DEF ToggleCommit, CallbackCommit, Basics, TypeOK
  <1>3. offAt' \in [Switches -> 0..requests]
    BY SwitchedOffType DEF ToggleCommit, CallbackCommit, Basics, TypeOK, history
  <1>4. reqs' \subseteq reqs
    BY DEF ToggleCommit, CallbackCommit
  <1> QED
    BY <1>2, <1>3, <1>4
       DEF ToggleCommit, CallbackCommit, Basics, TypeOK, runVars, history

LEMMA WorkerTypes ==
  ASSUME TypeOK, NEW w \in Workers, Crash(w) \/ Restart(w) \/ Restore(w)
  PROVE  TypeOK'
  <1>1. loaded[w] # None =>
            [a \in Automations |-> Schedule(loaded[w][a])] \in [Automations -> Crons \cup {None}]
    <2>1. loaded[w] # None => loaded[w] \in [Automations -> Row \cup {None}]
      BY DEF TypeOK
    <2> QED
      BY <2>1, ScheduleType
  <1>2. jobs' \in [Workers -> [Automations -> Crons \cup {None}]]
    BY <1>1 DEF Crash, Restart, Restore, TypeOK
  <1>3. agreed' \in [Workers -> SUBSET Automations]
    BY DEF Crash, Restart, Restore, TypeOK, history
  <1>4. crashes' \in 0..MaxCrashes
    BY ConstantsAssumption DEF Crash, Restart, Restore, TypeOK
  <1>5. reqs' \subseteq reqs /\ runs' \subseteq runs
    BY DEF Crash, Restart, Restore, runVars
  <1>6. up' \in [Workers -> BOOLEAN]
    BY DEF Crash, Restart, Restore, TypeOK
  <1>7. loaded' \in [Workers -> {None} \cup [Automations -> Row \cup {None}]]
    BY DEF Crash, Restart, Restore, TypeOK
  <1>8. UNCHANGED <<rows, states, requests, started, touched, onAt, offAt, flows>>
    BY DEF Crash, Restart, Restore, runVars, history
  <1> QED
    BY <1>2, <1>3, <1>4, <1>5, <1>6, <1>7, <1>8 DEF TypeOK, rows

LEMMA StartTypes ==
  ASSUME TypeOK, NEW w \in Workers, NEW a \in Automations,
         NEW trigger \in {"cron", "manual"}, StartRun(w, a, trigger)
  PROVE  TypeOK'
  <1> DEFINE u == [id |-> started + 1, at |-> w, a |-> a, trigger |-> trigger,
                   config |-> row[a].config, step |-> "started", off |-> Off({a})]
  <1>1. row[a] \in Row /\ started \in Nat
    BY DEF StartRun, TypeOK
  <1>2. Off({a}) \subseteq Switches
    BY DEF Off, Switches
  <1>3. u \in Run
    BY <1>1, <1>2 DEF Run, Row
  <1>4. started' \in 0..MaxRuns
    BY <1>1, ConstantsAssumption DEF StartRun
  <1>5. runs' \subseteq Run
    BY <1>3 DEF StartRun, TypeOK
  <1> QED
    BY <1>4, <1>5 DEF StartRun, TypeOK, rows, history

LEMMA MoveTypes ==
  ASSUME TypeOK, NEW u, NEW from, NEW to \in {"ready", "posted", "ended"},
         NEW ss \in SUBSET Switches, Moves(u, from, to, ss)
  PROVE  TypeOK'
  <1>1. u \in Run /\ Off(ss) \subseteq Switches
    BY DEF Moves, TypeOK, Off
  <1>2. [u EXCEPT !.step = to, !.off = @ \cup Off(ss)] \in Run
    BY <1>1 DEF Run
  <1>3. runs' \subseteq Run
    BY <1>2 DEF Moves, TypeOK
  <1> QED
    BY <1>3 DEF Moves, TypeOK, rows, history

LEMMA RunMoves ==
  ASSUME TypeOK, NEW u \in runs, ReadConnectors(u) \/ Post(u) \/ PostFails(u)
  PROVE  TypeOK'
  <1>1. u \in Run
    BY DEF TypeOK
  <1>2. Owner[u.a] \in Users
    BY <1>1, ConstantsAssumption DEF Run
  <1>3. {<<Owner[u.a], p>> : p \in u.config.required \cap Providers} \subseteq Switches
    BY <1>2 DEF Switches, Connectors
  <1> QED
    BY <1>3, MoveTypes DEF ReadConnectors, Post, PostFails
\* Nothing but the requests' own records, states and runs is changed.
Still ==
    /\ UNCHANGED <<row, conn, up, loaded, jobs, requests, touched, agreed, onAt, offAt, flows>>
    /\ states' \subseteq states

StartedOAuth ==
    /\ requests' = requests + 1 /\ flows \subseteq flows'
    /\ \A t \in states' : t \in states \/ <<t.user, t.provider>> \in flows'
    /\ UNCHANGED <<row, conn, up, loaded, jobs, reqs, touched, agreed, onAt, offAt>>

LEMMA OAuthStarts ==
  ASSUME TypeOK, NEW w \in Workers, NEW c \in Connectors, StartOAuth(w, c)
  PROVE  TypeOK' /\ StartedOAuth
  <1> DEFINE t == [token |-> requests + 1, user |-> c[1], provider |-> c[2]]
  <1>1. requests \in Nat /\ requests' = requests + 1 /\ requests' \in 0..MaxRequests
    BY ConstantsAssumption DEF StartOAuth, Arrives, TypeOK
  <1>2. t \in State /\ <<t.user, t.provider>> = c
    BY <1>1 DEF State, Connectors
  <1>3. states' = states \cup {t} /\ flows' = flows \cup {c}
    BY DEF StartOAuth
  <1> HIDE DEF t
  <1>4. states' \subseteq State /\ flows' \subseteq Connectors
    BY <1>2, <1>3 DEF TypeOK
  <1>5. /\ onAt \in [Switches -> 0..requests'] /\ offAt \in [Switches -> 0..requests']
        /\ touched \in [Automations -> 0..requests']
    BY <1>1, Grow DEF TypeOK
  <1>6. TypeOK'
    BY <1>1, <1>4, <1>5 DEF StartOAuth, TypeOK, rows, runVars
  <1>7. StartedOAuth
    BY <1>1, <1>2, <1>3 DEF StartOAuth, StartedOAuth, rows
  <1> QED
    BY <1>6, <1>7

LEMMA MoveOfCallback ==
  ASSUME TypeOK, NEW r \in reqs, CallbackDelete(r) \/ CallbackRead(r)
  PROVE  TypeOK' /\ Still /\ \E n : Moved(r, n)
  <1>1. PICK n : Moved(r, n)
    BY CallbackMoves
  <1>2. reqs' \subseteq Change \cup Toggle \cup Callback
    BY <1>1 DEF Moved, TypeOK
  <1>3. states' \subseteq states
    BY DEF CallbackDelete, CallbackRead
  <1>4. TypeOK'
    BY <1>2, <1>3 DEF CallbackDelete, CallbackRead, TypeOK, rows, history, runVars
  <1>5. Still
    BY <1>3 DEF CallbackDelete, CallbackRead, Still, rows, history
  <1> QED
    BY <1>1, <1>4, <1>5

LEMMA IdleStep ==
  ASSUME TypeOK,
         \/ \E r \in reqs : Fail(r)
         \/ \E t \in states : StateExpires(t)
         \/ \E u \in runs : EndRun(u)
         \/ UNCHANGED vars
  PROVE  TypeOK' /\ Still /\ reqs' \subseteq reqs
  <1>1. ASSUME NEW r \in reqs, Fail(r) PROVE TypeOK' /\ Still /\ reqs' \subseteq reqs
    BY <1>1 DEF Fail, TypeOK, Still, rows, history, runVars
  <1>2. ASSUME NEW t \in states, StateExpires(t)
        PROVE  TypeOK' /\ Still /\ reqs' \subseteq reqs
    BY <1>2 DEF StateExpires, TypeOK, Still, rows, history, runVars
  <1>3. ASSUME NEW u \in runs, EndRun(u) PROVE TypeOK' /\ Still /\ reqs' \subseteq reqs
    BY <1>3 DEF EndRun, TypeOK, Still, rows, history
  <1>4. CASE UNCHANGED vars
    BY <1>4 DEF vars, TypeOK, Still, rows, history, runVars
  <1> QED
    BY <1>1, <1>2, <1>3, <1>4

\* Every step is one of these, as far as all but the runs are concerned.
LEMMA StepCases ==
  ASSUME Basics, [Next]_vars
  PROVE  /\ TypeOK'
         /\ \/ \E w \in Workers, a \in Automations : \E op, new, on : Begun(w, op, a, new, on)
            \/ \E r \in reqs : CommitChange(r) \/ ToggleCommit(r) \/ CallbackCommit(r)
            \/ \E w \in Workers, c \in Connectors, on \in BOOLEAN : ToggleBegin(w, c, on)
            \/ \E w \in Workers, p \in Providers, t \in states : CallbackGet(w, p, t)
            \/ \E w \in Workers : Crash(w) \/ Restart(w) \/ Restore(w)
            \/ StartedOAuth
            \/ Still /\ (reqs' \subseteq reqs \/ \E r \in reqs : \E n : Moved(r, n))
  <1> USE DEF Basics
  <1>1. ASSUME NEW w \in Workers, NEW a \in Automations,
               \/ \E prompt \in Prompts, cron \in Crons \cup BadCrons :
                      Create(w, a, prompt, cron)
               \/ \E enabled \in BOOLEAN \cup {None}, cron \in Crons \cup BadCrons \cup {None} :
                      Update(w, a, enabled, cron)
               \/ Delete(w, a)
        PROVE  TypeOK' /\ \E op, new, on : Begun(w, op, a, new, on)
    <2>1. PICK op, new, on : Begun(w, op, a, new, on)
      BY <1>1, ChangeBegins
    <2> QED
      BY <2>1, ChangeTypes
  <1>2. ASSUME NEW w \in Workers, NEW a \in Automations, FireJob(w, a) \/ RunNow(w, a)
        PROVE  TypeOK' /\ Still /\ reqs' \subseteq reqs
    <2>1. PICK trigger \in {"cron", "manual"} : StartRun(w, a, trigger)
      BY <1>2 DEF FireJob, RunNow
    <2> QED
      BY <2>1, StartTypes DEF StartRun, Still, rows, history
  <1>3. ASSUME NEW w \in Workers, NEW c \in Connectors, StartOAuth(w, c)
        PROVE  TypeOK' /\ StartedOAuth
    BY <1>3, OAuthStarts
  <1>4. ASSUME NEW w \in Workers, NEW c \in Connectors, NEW on \in BOOLEAN,
               ToggleBegin(w, c, on)
        PROVE  TypeOK'
    <2>1. PICK q \in Toggle : q.s = c /\ reqs' = reqs \cup {q}
      BY <1>4, ToggleArrives
    <2>2. /\ Arrives(w)
          /\ onAt' = IF on THEN [onAt EXCEPT ![q.s] = requests + 1] ELSE onAt
          /\ states' \subseteq State /\ flows' \subseteq Connectors
          /\ UNCHANGED <<rows, up, loaded, jobs, crashes, runVars, touched, agreed, offAt>>
      BY <1>4, <2>1 DEF ToggleBegin, TypeOK
    <2> QED
      BY <2>1, <2>2, ArrivalTypes
  <1>5. ASSUME NEW w \in Workers, NEW p \in Providers, NEW t \in states,
               CallbackGet(w, p, t)
        PROVE  TypeOK'
    <2>1. PICK q \in Callback : /\ q.op = "callback" /\ q.id = requests + 1 /\ q.at = w
                                /\ q.s = <<t.user, p>> /\ q.state = t /\ q.step = "got"
                                /\ q.on /\ reqs' = reqs \cup {q}
      BY <1>5, CallbackArrives
    <2>2. /\ Arrives(w)
          /\ onAt' = IF TRUE THEN [onAt EXCEPT ![q.s] = requests + 1] ELSE onAt
          /\ states' \subseteq State /\ flows' \subseteq Connectors
          /\ UNCHANGED <<rows, up, loaded, jobs, crashes, runVars, touched, agreed, offAt>>
      BY <1>5, <2>1 DEF CallbackGet, TypeOK
    <2> QED
      BY <2>1, <2>2, ArrivalTypes
  <1>6. ASSUME NEW r \in reqs, CommitChange(r) \/ ToggleCommit(r) \/ CallbackCommit(r)
        PROVE  TypeOK'
    BY <1>6, CommitTypes, ConnTypes
  <1>7. ASSUME NEW r \in reqs, CallbackDelete(r) \/ CallbackRead(r)
        PROVE  TypeOK' /\ Still /\ \E n : Moved(r, n)
    BY <1>7, MoveOfCallback
  <1>8. ASSUME NEW w \in Workers, Crash(w) \/ Restart(w) \/ Restore(w)
        PROVE  TypeOK'
    BY <1>8, WorkerTypes
  <1>9. ASSUME NEW u \in runs, ReadConnectors(u) \/ Post(u) \/ PostFails(u)
        PROVE  TypeOK' /\ Still /\ reqs' \subseteq reqs
    <2>1. TypeOK'
      BY <1>9, RunMoves
    <2> QED
      BY <1>9, <2>1 DEF ReadConnectors, Post, PostFails, Moves, Still, rows, history
  <1>10. ASSUME \/ \E r \in reqs : Fail(r)
                \/ \E t \in states : StateExpires(t)
                \/ \E u \in runs : EndRun(u)
                \/ UNCHANGED vars
         PROVE  TypeOK' /\ Still /\ reqs' \subseteq reqs
    BY <1>10, IdleStep
  <1>11. CASE Next
    <2> HIDE DEF Basics
    <2>1. CASE \E w \in Workers, a \in Automations :
                  \/ \E prompt \in Prompts, cron \in Crons \cup BadCrons :
                         Create(w, a, prompt, cron)
                  \/ \E enabled \in BOOLEAN \cup {None},
                        cron \in Crons \cup BadCrons \cup {None} :
                         Update(w, a, enabled, cron)
                  \/ Delete(w, a)
                  \/ FireJob(w, a) \/ RunNow(w, a)
      BY <1>1, <1>2, <2>1
    <2>2. CASE \E w \in Workers, c \in Connectors :
                  StartOAuth(w, c) \/ \E on \in BOOLEAN : ToggleBegin(w, c, on)
      BY <1>3, <1>4, <2>2
    <2>3. CASE \E w \in Workers, p \in Providers, t \in states : CallbackGet(w, p, t)
      BY <1>5, <2>3
    <2>4. CASE \E r \in reqs :
                  \/ CommitChange(r) \/ ToggleCommit(r) \/ Fail(r)
                  \/ CallbackDelete(r) \/ CallbackRead(r) \/ CallbackCommit(r)
      BY <1>6, <1>7, <1>10, <2>4
    <2>5. CASE \E w \in Workers : Crash(w) \/ Restart(w) \/ Restore(w)
      BY <1>8, <2>5
    <2>6. CASE \E t \in states : StateExpires(t)
      BY <1>10, <2>6
    <2>7. CASE \E u \in runs : ReadConnectors(u) \/ Post(u) \/ PostFails(u) \/ EndRun(u)
      BY <1>9, <1>10, <2>7
    <2> QED
      BY <1>11, <2>1, <2>2, <2>3, <2>4, <2>5, <2>6, <2>7 DEF Next
  <1> QED
    BY <1>10, <1>11


-----------------------------------------------------------------------------
(* Numbered and Shaped *)

LEMMA NumberedArrives ==
  ASSUME TypeOK, Numbered, NEW q, q.id = requests + 1, up[q.at],
         reqs' \subseteq reqs \cup {q}, requests' = requests + 1, up' = up
  PROVE  Numbered'
  <1>1. requests \in Nat /\ \A r \in reqs : r.id \in Nat /\ r.id <= requests /\ up[r.at]
    BY RequestType DEF TypeOK, Numbered
  <1>2. \A r \in reqs' : r \in reqs \/ r = q
    OBVIOUS
  <1>3. \A r \in reqs' : r.id <= requests' /\ up'[r.at]
    BY <1>1, <1>2
  <1>4. \A r, p \in reqs' : r.id = p.id => r = p
    BY <1>1, <1>2 DEF Numbered
  <1> QED
    BY <1>3, <1>4 DEF Numbered

LEMMA NumberedStays ==
  ASSUME TypeOK, Numbered, reqs' \subseteq reqs \/ \E r \in reqs : \E n : Moved(r, n),
         requests' = requests \/ requests' = requests + 1,
         \A r \in reqs' : up[r.at] => up'[r.at]
  PROVE  Numbered'
  <1>1. /\ requests \in Nat /\ requests <= requests'
        /\ \A r \in reqs : r.id \in Nat /\ r.id <= requests /\ up[r.at]
    BY RequestType DEF TypeOK, Numbered
  <1>2. CASE reqs' \subseteq reqs
    BY <1>1, <1>2 DEF Numbered, TypeOK
  <1>3. ASSUME NEW r \in reqs, NEW n, Moved(r, n) PROVE Numbered'
    <2>1. /\ n.id = r.id /\ n.at = r.at
          /\ \A q \in reqs' : q = n \/ (q \in reqs /\ q # r)
      BY <1>3 DEF Moved
    <2>2. \A q \in reqs' : q.id <= requests' /\ up'[q.at]
      BY <1>1, <2>1, RequestType DEF TypeOK
    <2>3. \A q, p \in reqs' : q.id = p.id => q = p
      BY <2>1 DEF Numbered
    <2> QED
      BY <2>2, <2>3 DEF Numbered
  <1> QED
    BY <1>2, <1>3

LEMMA ShapedStays ==
  ASSUME TypeOK, Shaped, reqs' \subseteq reqs \/ \E r \in reqs : \E n : Moved(r, n)
  PROVE  Shaped'
  <1>1. ASSUME NEW r \in Changes' PROVE r \in Changes
    <2>1. r.op \in {"create", "update", "delete"} /\ r \in reqs'
      BY DEF Changes
    <2>2. ASSUME NEW p \in reqs, NEW n, Moved(p, n) PROVE r \in reqs
      BY <2>1, <2>2 DEF Moved, Callback
    <2> QED
      BY <2>1, <2>2 DEF Changes
  <1> QED
    BY <1>1 DEF Shaped

LEMMA ShapedArrives ==
  ASSUME TypeOK, Shaped, NEW q \in Toggle \cup Callback, reqs' \subseteq reqs \cup {q}
  PROVE  Shaped'
  <1>1. ASSUME NEW r \in Changes' PROVE r \in Changes
    BY DEF Changes, Toggle, Callback
  <1> QED
    BY <1>1 DEF Shaped

LEMMA BasicsStep ==
  ASSUME Basics, [Next]_vars
  PROVE  Basics'
  <1> USE DEF Basics
  <1>1. TypeOK'
    BY StepCases
  <1>2. ASSUME NEW w \in Workers, NEW a \in Automations, NEW op, NEW new, NEW on,
               Begun(w, op, a, new, on)
        PROVE  Numbered' /\ Shaped'
    <2> DEFINE q == Entry(w, op, a, new, on)
    <2>1. /\ q.op = op /\ q.id = requests + 1 /\ q.at = w /\ q.seen = row[a]
          /\ q.new = new /\ q.on = on
      BY DEF Entry
    <2>2. reqs' \subseteq reqs \cup {q} /\ up[w] /\ requests' = requests + 1
      BY <1>2, EntryType
    <2>3. up' = up
      BY <1>2 DEF Begun, BeginChange
    <2> HIDE DEF q
    <2>4. Numbered'
      BY <2>1, <2>2, <2>3, NumberedArrives
    <2>5. \A r \in Changes' : r \in Changes \/ r = q
      BY <2>2 DEF Changes
    <2>6. /\ q.op = "create" => q.seen = None /\ q.new # None
          /\ q.op = "update" => q.seen # None /\ q.new # None
                                /\ q.new.config = q.seen.config
          /\ q.op = "delete" => q.new = None
          /\ IsOn(q.new) => q.on \/ IsOn(q.seen)
      BY <1>2, <2>1 DEF Begun
    <2> QED
      BY <2>4, <2>5, <2>6 DEF Shaped
  <1>3. ASSUME NEW r \in reqs, CommitChange(r) \/ ToggleCommit(r) \/ CallbackCommit(r)
        PROVE  Numbered' /\ Shaped'
    <2>1. reqs' \subseteq reqs /\ requests' = requests /\ up' = up
      BY <1>3 DEF CommitChange, ToggleCommit, CallbackCommit
    <2> QED
      BY <2>1, NumberedStays, ShapedStays
  <1>4. ASSUME NEW w \in Workers, NEW c \in Connectors, NEW on \in BOOLEAN,
               ToggleBegin(w, c, on)
        PROVE  Numbered' /\ Shaped'
    <2>1. PICK q \in Toggle : q.id = requests + 1 /\ q.at = w /\ reqs' = reqs \cup {q}
      BY <1>4, ToggleArrives
    <2>2. up[w] /\ requests' = requests + 1 /\ up' = up
      BY <1>4 DEF ToggleBegin, Arrives
    <2> QED
      BY <2>1, <2>2, NumberedArrives, ShapedArrives
  <1>5. ASSUME NEW w \in Workers, NEW p \in Providers, NEW t \in states,
               CallbackGet(w, p, t)
        PROVE  Numbered' /\ Shaped'
    <2>1. PICK q \in Callback : q.id = requests + 1 /\ q.at = w /\ reqs' = reqs \cup {q}
      BY <1>5, CallbackArrives
    <2>2. up[w] /\ requests' = requests + 1 /\ up' = up
      BY <1>5 DEF CallbackGet, Arrives
    <2> QED
      BY <2>1, <2>2, NumberedArrives, ShapedArrives
  <1>6. ASSUME NEW w \in Workers, Crash(w) \/ Restart(w) \/ Restore(w)
        PROVE  Numbered' /\ Shaped'
    <2>1. reqs' \subseteq reqs /\ requests' = requests
      BY <1>6 DEF Crash, Restart, Restore
    <2>2. \A r \in reqs' : up[r.at] => up'[r.at]
      BY <1>6, RequestType DEF Crash, Restart, Restore, TypeOK
    <2> QED
      BY <2>1, <2>2, NumberedStays, ShapedStays
  <1>7. ASSUME StartedOAuth PROVE Numbered' /\ Shaped'
    <2>1. reqs' = reqs /\ requests' = requests + 1 /\ up' = up
      BY <1>7 DEF StartedOAuth
    <2>2. \A r \in reqs' : up[r.at] => up'[r.at]
      BY <2>1
    <2> QED
      BY <2>1, <2>2, NumberedStays, ShapedStays
  <1>8. ASSUME Still, reqs' \subseteq reqs \/ \E r \in reqs : \E n : Moved(r, n)
        PROVE  Numbered' /\ Shaped'
    <2>1. requests' = requests /\ up' = up
      BY <1>8 DEF Still
    <2>2. \A r \in reqs' : up[r.at] => up'[r.at]
      BY <2>1
    <2> QED
      BY <1>8, <2>1, <2>2, NumberedStays, ShapedStays
  <1> HIDE DEF Basics
  <1>9. Numbered' /\ Shaped'
    BY <1>2, <1>3, <1>4, <1>5, <1>6, <1>7, <1>8, StepCases
  <1> QED
    BY <1>1, <1>9 DEF Basics


-----------------------------------------------------------------------------
(* Agreement: what a worker loaded, or changed alone, is as the row says *)

LEMMA ChangesType ==
  ASSUME TypeOK, NEW r \in Changes
  PROVE  /\ r \in reqs /\ r \in Change /\ r.s \in Automations /\ r.s \notin Connectors
         /\ r.at \in Workers /\ r.id \in Nat /\ r.on \in BOOLEAN
         /\ r.new \in Row \cup {None} /\ r.seen \in Row \cup {None}
  <1>1. r \in reqs /\ r \in Change
    BY Kinds DEF Changes
  <1> QED
    BY <1>1, RequestType DEF Change

\* The requests that are left, or come, change no automation.
LEMMA AgreementStays ==
  ASSUME Basics, Agreement, UNCHANGED <<row, up, jobs, loaded, touched, agreed>>,
         \A r \in reqs' : \/ r \in reqs
                          \/ /\ r.op \in {"toggle", "callback"}
                             /\ \/ r.id = requests + 1
                                \/ \E p \in reqs : p.id = r.id /\ p.s = r.s
  PROVE  Agreement'
  <1> USE DEF Basics, Agreement
  <1>1. ASSUME NEW r \in Changes' PROVE r \in Changes
    BY DEF Changes
  <1>2. Alone'
    <2> SUFFICES ASSUME NEW r \in Changes', NEW q \in reqs', r.alone, q.s = r.s
                 PROVE  r.id <= q.id
      BY DEF Alone
    <2>1. r \in Changes /\ r.id \in Nat /\ r.id <= requests /\ requests \in Nat
      BY <1>1, ChangesType DEF Numbered, TypeOK
    <2> QED
      BY <2>1 DEF Alone
  <1>3. Noted' /\ Follows' /\ Unagreed'
    BY <1>1 DEF Noted, Follows, Unagreed
  <1>4. Agrees' /\ Settled'
    BY DEF Agrees, Holds, Settled
  <1> QED
    BY <1>2, <1>3, <1>4

LEMMA AgreementBegins ==
  ASSUME Basics, Agreement, NEW w \in Workers, NEW a \in Automations,
         NEW op, NEW new, NEW on, Begun(w, op, a, new, on)
  PROVE  Agreement'
  <1> USE DEF Basics, Agreement
  <1> DEFINE q == Entry(w, op, a, new, on)
  <1>1. /\ q.op = op /\ q.id = requests + 1 /\ q.at = w /\ q.s = a /\ q.seen = row[a]
        /\ q.new = new /\ (q.alone => On(a) = {})
        /\ q \in Change
    BY EntryType DEF Entry
  <1>2. reqs' \subseteq reqs \cup {q}
    BY EntryType
  <1>3. /\ row' = row /\ touched' = [touched EXCEPT ![a] = requests + 1]
        /\ jobs' = [jobs EXCEPT ![w][a] = Schedule(new)]
        /\ agreed' = [v \in Workers |-> agreed[v] \ {a}]
        /\ up' = up /\ loaded' = loaded
    BY DEF Begun, BeginChange, Told, rows
  <1> HIDE DEF q
  <1>4. \A r \in Changes' : r \in Changes \/ r = q
    BY <1>2 DEF Changes
  <1>5. \A r \in reqs' : r \in reqs \/ r = q
    BY <1>2
  <1>6. requests \in Nat /\ \A r \in reqs : r.id \in Nat /\ r.id <= requests
    BY RequestType DEF TypeOK, Numbered
  <1>7. /\ touched'[a] = requests + 1
        /\ \A b \in Automations : b # a => touched'[b] = touched[b]
    BY <1>3 DEF TypeOK
  <1>8. /\ jobs'[w][a] = Schedule(new)
        /\ \A v \in Workers, b \in Automations : b # a => jobs'[v][b] = jobs[v][b]
    BY <1>3 DEF TypeOK
  <1>9. Alone'
    <2> SUFFICES ASSUME NEW r \in Changes', NEW p \in reqs', r.alone, p.s = r.s
                 PROVE  r.id <= p.id
      BY DEF Alone
    <2>1. CASE r \in Changes /\ p \in reqs
      BY <2>1 DEF Alone
    <2>2. CASE r \in Changes /\ p = q
      BY <1>1, <1>6, <2>2, ChangesType
    <2>3. CASE r = q /\ p \in reqs
      BY <1>1, <2>3 DEF On
    <2>4. CASE r = q /\ p = q
      BY <1>1, <1>6, <2>4
    <2> QED
      BY <1>4, <1>5, <2>1, <2>2, <2>3, <2>4
  <1>10. Noted'
    <2> SUFFICES ASSUME NEW r \in Changes' PROVE r.id <= touched'[r.s]
      BY DEF Noted
    <2>1. CASE r = q
      BY <1>1, <1>6, <1>7, <2>1
    <2>2. CASE r \in Changes
      <3>1. r \in reqs /\ r.s \in Automations /\ r.id <= touched[r.s]
        BY <2>2, ChangesType DEF Noted
      <3> QED
        BY <1>6, <1>7, <3>1
    <2> QED
      BY <1>4, <2>1, <2>2
  <1>11. Follows'
    <2> SUFFICES ASSUME NEW r \in Changes', r.alone, touched'[r.s] = r.id
                 PROVE  row'[r.s] = r.seen /\ jobs'[r.at][r.s] = Schedule(r.new)
      BY DEF Follows
    <2>1. CASE r = q
      BY <1>1, <1>3, <1>8, <2>1
    <2>2. CASE r \in Changes
      <3>1. r \in reqs /\ r.s \in Automations /\ r.at \in Workers
        BY <2>2, ChangesType
      <3>2. r.s # a
        BY <1>6, <1>7, <3>1
      <3>3. touched[r.s] = r.id
        BY <1>7, <3>1, <3>2
      <3>4. row[r.s] = r.seen /\ jobs[r.at][r.s] = Schedule(r.new)
        BY <2>2, <3>3 DEF Follows
      <3> QED
        BY <1>3, <1>8, <3>1, <3>2, <3>4
    <2> QED
      BY <1>4, <2>1, <2>2
  <1>12. \A v \in Workers : agreed'[v] = agreed[v] \ {a}
    BY <1>3
  <1>13. Unagreed'
    <2> SUFFICES ASSUME NEW r \in Changes', NEW v \in Workers PROVE r.s \notin agreed'[v]
      BY DEF Unagreed
    <2>1. CASE r = q
      BY <1>1, <1>12, <2>1
    <2>2. CASE r \in Changes
      BY <1>12, <2>2 DEF Unagreed
    <2> QED
      BY <1>4, <2>1, <2>2
  <1>14. Agrees'
    <2> SUFFICES ASSUME NEW v \in Workers, NEW b \in agreed'[v]
                 PROVE  Holds(v, b)' = Schedule(row'[b])
      BY DEF Agrees, Schedule
    <2>1. b \in agreed[v] /\ b # a
      BY <1>12
    <2>2. b \in Automations
      BY <2>1 DEF TypeOK
    <2>3. Holds(v, b)' = Holds(v, b)
      BY <1>3, <1>8, <2>1, <2>2 DEF Holds, Schedule
    <2> QED
      BY <1>3, <2>1, <2>3 DEF Agrees
  <1>15. Settled'
    BY <1>3 DEF Settled
  <1> QED
    BY <1>9, <1>10, <1>11, <1>13, <1>14, <1>15

LEMMA RowsEqual ==
  ASSUME NEW x \in Row, NEW y \in Row,
         x.enabled = y.enabled, x.cron = y.cron, x.config = y.config
  PROVE  x = y
  BY DEF Row

\* A request that is committed alone writes what its worker was told.
LEMMA CommitWritesNew ==
  ASSUME Basics, Agreement, NEW r \in reqs, CommitChange(r),
         r.alone, touched[r.s] = r.id
  PROVE  row'[r.s] = r.new /\ jobs[r.at][r.s] = Schedule(r.new)
  <1> USE DEF Basics, Agreement
  <1>1. r \in Changes /\ r.s \in Automations
    BY ChangesType DEF CommitChange, Changes
  <1>2. row[r.s] = r.seen /\ jobs[r.at][r.s] = Schedule(r.new)
    BY <1>1 DEF Follows
  <1>3. row'[r.s] = IF r.op = "update" THEN Merged(r) ELSE r.new
    BY <1>1 DEF CommitChange, TypeOK
  <1>4. ASSUME r.op = "update" PROVE Merged(r) = r.new
    <2>1. r.seen \in Row /\ r.new \in Row /\ r.new.config = r.seen.config
      BY <1>1, <1>4, ChangesType DEF Shaped
    <2> DEFINE e == IF r.new.enabled = r.seen.enabled THEN row[r.s].enabled
                                                       ELSE r.new.enabled
               c == IF r.new.cron = r.seen.cron THEN row[r.s].cron ELSE r.new.cron
    <2>2. Merged(r) = [r.seen EXCEPT !.enabled = e, !.cron = c]
      BY <1>2 DEF Merged
    <2>3. e = r.new.enabled /\ c = r.new.cron
      BY <1>2
    <2> HIDE DEF e, c
    <2>4. /\ Merged(r).enabled = r.new.enabled /\ Merged(r).cron = r.new.cron
          /\ Merged(r).config = r.new.config /\ Merged(r) \in Row
      BY <2>1, <2>2, <2>3 DEF Row
    <2> QED
      BY <2>1, <2>4, RowsEqual
  <1> QED
    BY <1>2, <1>3, <1>4

LEMMA AgreementCommits ==
  ASSUME Basics, Agreement, NEW r \in reqs, CommitChange(r)
  PROVE  Agreement'
  <1> USE DEF Basics, Agreement
  <1>1. r \in Changes /\ r.s \in Automations /\ r.at \in Workers
    BY ChangesType DEF CommitChange, Changes
  <1>2. reqs' = reqs \ {r} /\ touched' = touched /\ jobs' = jobs
    BY DEF CommitChange
  <1>3. \A q \in Changes' : q \in Changes /\ q # r
    BY <1>2 DEF Changes
  <1>4. \A b \in Automations : b # r.s => row'[b] = row[b]
    BY <1>1 DEF CommitChange, TypeOK
  <1>5. \A v \in Workers : \/ agreed'[v] = agreed[v]
                           \/ /\ v = r.at /\ r.alone /\ touched[r.s] = r.id
                              /\ agreed'[v] = agreed[v] \cup {r.s}
    BY <1>1 DEF CommitChange, TypeOK
  \* Of two requests for one automation, none is both alone and the last.
  <1>6. ASSUME NEW p \in Changes, NEW q \in Changes, p # q, p.s = q.s, p.alone,
               touched[p.s] = p.id
        PROVE  FALSE
    <2>1. p.id <= q.id /\ q.id <= p.id /\ p.id \in Nat /\ q.id \in Nat
      BY <1>6, ChangesType DEF Alone, Noted
    <2>2. p.id = q.id /\ p \in reqs /\ q \in reqs
      BY <2>1, ChangesType
    <2> QED
      BY <1>6, <2>2 DEF Numbered
  <1>7. Alone' /\ Noted'
    BY <1>2, <1>3 DEF Alone, Noted
  <1>8. Follows'
    <2> SUFFICES ASSUME NEW q \in Changes', q.alone, touched[q.s] = q.id
                 PROVE  row'[q.s] = q.seen /\ jobs[q.at][q.s] = Schedule(q.new)
      BY <1>2 DEF Follows
    <2>1. q \in Changes /\ q.s \in Automations
      BY <1>3, ChangesType
    <2>2. q.s # r.s
      BY <1>1, <1>3, <1>6, <2>1
    <2> QED
      BY <1>4, <2>1, <2>2 DEF Follows
  <1>9. Unagreed'
    <2> SUFFICES ASSUME NEW q \in Changes', NEW v \in Workers, q.s \in agreed'[v]
                 PROVE  FALSE
      BY DEF Unagreed
    <2>1. q \in Changes /\ q # r
      BY <1>3
    <2>2. q.s \notin agreed[v]
      BY <2>1 DEF Unagreed
    <2>3. q.s = r.s /\ r.alone /\ touched[r.s] = r.id
      BY <1>5, <2>2
    <2> QED
      BY <1>1, <1>6, <2>1, <2>3
  <1>10. Agrees'
    <2> SUFFICES ASSUME NEW v \in Workers, NEW b \in agreed'[v]
                 PROVE  Holds(v, b)' = Schedule(row'[b])
      BY DEF Agrees, Schedule
    <2>1. Holds(v, b)' = Holds(v, b)
      BY <1>2 DEF CommitChange, Holds, Schedule
    <2>2. CASE b # r.s
      <3>1. b \in agreed[v]
        BY <1>5, <2>2
      <3>2. b \in Automations
        BY <3>1 DEF TypeOK
      <3> QED
        BY <1>4, <2>1, <2>2, <3>1, <3>2 DEF Agrees
    <2>3. CASE b = r.s
      <3>1. b \notin agreed[v]
        BY <1>1, <2>3 DEF Unagreed
      <3>2. v = r.at /\ r.alone /\ touched[r.s] = r.id
        BY <1>5, <3>1
      <3>3. loaded[r.at] = None
        BY <1>1 DEF Numbered, Settled, Changes
      <3> QED
        BY <2>1, <2>3, <3>2, <3>3, CommitWritesNew DEF Holds
    <2> QED
      BY <2>2, <2>3
  <1>11. Settled'
    BY DEF CommitChange, Settled
  <1> QED
    BY <1>7, <1>8, <1>9, <1>10, <1>11

LEMMA AgreementCrashes ==
  ASSUME Basics, Agreement, NEW w \in Workers, Crash(w)
  PROVE  Agreement'
  <1> USE DEF Basics, Agreement
  <1>1. /\ reqs' = {r \in reqs : r.at # w} /\ row' = row /\ touched' = touched
        /\ \A v \in Workers : v # w => jobs'[v] = jobs[v] /\ agreed'[v] = agreed[v]
        /\ agreed'[w] = {} /\ loaded'[w] = None
        /\ \A v \in Workers : v # w => loaded'[v] = loaded[v] /\ up'[v] = up[v]
    BY DEF Crash, TypeOK, rows
  <1>2. \A r \in Changes' : r \in Changes /\ r.at # w /\ r.at \in Workers
    <2>1. \A r \in Changes' : r \in Changes /\ r.at # w
      BY <1>1 DEF Changes
    <2> QED
      BY <2>1, ChangesType
  <1>3. Alone' /\ Noted'
    BY <1>1, <1>2 DEF Alone, Noted
  <1>4. Follows'
    BY <1>1, <1>2 DEF Follows
  <1>5. Unagreed'
    BY <1>1, <1>2 DEF Unagreed
  <1>6. Agrees' /\ Settled'
    BY <1>1 DEF Agrees, Holds, Settled
  <1> QED
    BY <1>3, <1>4, <1>5, <1>6

LEMMA AgreementRestarts ==
  ASSUME Basics, Agreement, NEW w \in Workers, Restart(w)
  PROVE  Agreement'
  <1> USE DEF Basics, Agreement
  <1>1. /\ reqs' = reqs /\ row' = row /\ touched' = touched /\ jobs' = jobs
        /\ up' = up /\ ~up[w]
        /\ \A v \in Workers : v # w => loaded'[v] = loaded[v] /\ agreed'[v] = agreed[v]
        /\ agreed'[w] = {a \in Automations : On(a) = {}} /\ loaded'[w] = row
    BY DEF Restart, TypeOK, rows
  <1>2. Changes' = Changes
    BY <1>1 DEF Changes
  <1>3. \A r \in Changes : r \in reqs /\ r.s \in Automations
    BY ChangesType
  <1>4. Alone' /\ Noted' /\ Follows'
    BY <1>1, <1>2 DEF Alone, Noted, Follows
  <1>5. Unagreed'
    <2>1. \A r \in Changes : r.s \notin agreed'[w]
      BY <1>1, <1>3 DEF On
    <2> QED
      BY <1>1, <1>2, <2>1 DEF Unagreed
  <1>6. row # None
    BY NoneAssumption DEF TypeOK
  <1>7. Agrees' /\ Settled'
    BY <1>1, <1>6 DEF Agrees, Holds, Settled
  <1> QED
    BY <1>4, <1>5, <1>7

LEMMA AgreementRestores ==
  ASSUME Basics, Agreement, NEW w \in Workers, Restore(w)
  PROVE  Agreement'
  <1> USE DEF Basics, Agreement
  <1>1. /\ reqs' = reqs /\ row' = row /\ touched' = touched /\ agreed' = agreed
        /\ \A v \in Workers : v # w =>
              jobs'[v] = jobs[v] /\ loaded'[v] = loaded[v] /\ up'[v] = up[v]
        /\ jobs'[w] = [a \in Automations |-> Schedule(loaded[w][a])]
        /\ loaded[w] # None /\ loaded'[w] = None
    BY DEF Restore, TypeOK, rows, history
  <1>2. Changes' = Changes
    BY <1>1 DEF Changes
  <1>3. \A r \in Changes : r.at # w /\ r.at \in Workers
    <2>1. ~up[w]
      BY <1>1 DEF Settled
    <2>2. \A r \in Changes : r \in reqs /\ r.at \in Workers
      BY ChangesType
    <2> QED
      BY <2>1, <2>2 DEF Numbered
  <1>4. Alone' /\ Noted' /\ Unagreed'
    BY <1>1, <1>2 DEF Alone, Noted, Unagreed
  <1>5. Follows'
    BY <1>1, <1>2, <1>3 DEF Follows
  <1>6. \A v \in Workers : \A a \in agreed[v] : Holds(v, a)' = Holds(v, a)
    <2>1. \A v \in Workers : agreed[v] \subseteq Automations
      BY DEF TypeOK
    <2> QED
      BY <1>1, <2>1 DEF Holds, Schedule
  <1>7. Agrees' /\ Settled'
    BY <1>1, <1>6 DEF Agrees, Settled, Schedule
  <1> QED
    BY <1>4, <1>5, <1>7

LEMMA AgreementStep ==
  ASSUME Basics, Agreement, [Next]_vars
  PROVE  Agreement'
  <1>1. ASSUME NEW w \in Workers, NEW a \in Automations, NEW op, NEW new, NEW on,
               Begun(w, op, a, new, on)
        PROVE  Agreement'
    BY <1>1, AgreementBegins
  <1>2. ASSUME NEW r \in reqs, CommitChange(r) PROVE Agreement'
    BY <1>2, AgreementCommits
  <1>3. ASSUME NEW r \in reqs, ToggleCommit(r) \/ CallbackCommit(r) PROVE Agreement'
    BY <1>3, AgreementStays DEF ToggleCommit, CallbackCommit, history
  <1>4. ASSUME NEW w \in Workers, NEW c \in Connectors, NEW on \in BOOLEAN,
               ToggleBegin(w, c, on)
        PROVE  Agreement'
    <2>1. PICK q \in Toggle : /\ q.op = "toggle" /\ q.id = requests + 1
                              /\ reqs' = reqs \cup {q}
      BY <1>4, ToggleArrives DEF Basics
    <2>2. UNCHANGED <<row, up, jobs, loaded, touched, agreed>>
      BY <1>4 DEF ToggleBegin, rows
    <2> QED
      BY <2>1, <2>2, AgreementStays
  <1>5. ASSUME NEW w \in Workers, NEW p \in Providers, NEW t \in states,
               CallbackGet(w, p, t)
        PROVE  Agreement'
    <2>1. PICK q \in Callback : /\ q.op = "callback" /\ q.id = requests + 1
                                /\ reqs' = reqs \cup {q}
      BY <1>5, CallbackArrives DEF Basics
    <2>2. UNCHANGED <<row, up, jobs, loaded, touched, agreed>>
      BY <1>5 DEF CallbackGet, rows
    <2> QED
      BY <2>1, <2>2, AgreementStays
  <1>6. ASSUME NEW w \in Workers, Crash(w) \/ Restart(w) \/ Restore(w) PROVE Agreement'
    BY <1>6, AgreementCrashes, AgreementRestarts, AgreementRestores
  <1>7. ASSUME StartedOAuth PROVE Agreement'
    BY <1>7, AgreementStays DEF StartedOAuth
  <1>8. ASSUME Still, reqs' \subseteq reqs \/ \E r \in reqs : \E n : Moved(r, n)
        PROVE  Agreement'
    <2>1. ASSUME NEW r \in reqs', r \notin reqs
          PROVE  /\ r.op \in {"toggle", "callback"}
                 /\ \E p \in reqs : p.id = r.id /\ p.s = r.s
      <3>1. PICK p \in reqs : Moved(p, r)
        BY <1>8, <2>1 DEF Moved
      <3> QED
        BY <3>1 DEF Moved, Callback
    <2>2. UNCHANGED <<row, up, jobs, loaded, touched, agreed>>
      BY <1>8 DEF Still
    <2> QED
      BY <2>1, <2>2, AgreementStays
  <1> QED
    BY <1>1, <1>2, <1>3, <1>4, <1>5, <1>6, <1>7, <1>8, StepCases


-----------------------------------------------------------------------------
(* Silence: what is switched off stays off                                 *)

LEMMA QuietType ==
  ASSUME TypeOK, NEW r \in Changes \cup Toggles
  PROVE  /\ r \in reqs /\ r.quiet \in BOOLEAN /\ r.s \in Switches /\ r.id \in Nat
         /\ r \in Change \cup Toggle
  <1>1. r \in reqs /\ r \in Change \cup Toggle
    BY Kinds DEF Changes, Toggles
  <1> QED
    BY <1>1, RequestType DEF Change, Toggle

LEMMA SwitchTypes ==
  ASSUME TypeOK, NEW s \in Switches
  PROVE  /\ onAt[s] \in Nat /\ onAt[s] <= requests
         /\ offAt[s] \in Nat /\ offAt[s] <= requests
         /\ requests \in Nat
  BY DEF TypeOK

\* Nothing was told of switching on but by requests that were in flight, and no
\* request has come that may switch on.
Steady ==
    /\ onAt' = onAt
    /\ \A r \in reqs' : \/ r \in reqs
                        \/ /\ r.op = "callback"
                           /\ \E p \in reqs : p.id = r.id /\ p.s = r.s /\ p.on = r.on
    /\ \A s : SwitchedOn(s)' => SwitchedOn(s) \/ \E q \in reqs : q.s = s /\ q.on

LEMMA QuietStays ==
  ASSUME Basics, OnNoted, QuietHolds, SeenOff, Steady
  PROVE  OnNoted' /\ QuietHolds' /\ SeenOff'
  <1>1. ASSUME NEW r \in (Changes \cup Toggles)' PROVE r \in Changes \cup Toggles
    BY DEF Changes, Toggles, Steady
  <1>2. ASSUME NEW q \in reqs'
        PROVE  \E p \in reqs : p.id = q.id /\ p.s = q.s /\ p.on = q.on
    BY DEF Steady
  <1>3. onAt' = onAt
    BY DEF Steady
  <1>4. OnNoted'
    BY <1>2, <1>3 DEF OnNoted
  <1>5. QuietHolds'
    <2> SUFFICES ASSUME NEW r \in (Changes \cup Toggles)', NEW q \in reqs',
                        r.quiet, onAt[r.s] < r.id, q.s = r.s
                 PROVE  ~q.on
      BY <1>3 DEF QuietHolds
    <2>1. r \in Changes \cup Toggles
      BY <1>1
    <2>2. PICK p \in reqs : p.s = q.s /\ p.on = q.on
      BY <1>2
    <2>3. ~p.on
      BY <2>1, <2>2 DEF QuietHolds
    <2> QED
      BY <2>2, <2>3
  <1>6. SeenOff'
    <2> SUFFICES ASSUME NEW r \in (Changes \cup Toggles)',
                        r.quiet, onAt[r.s] < r.id, FoundOff(r), SwitchedOn(r.s)'
                 PROVE  FALSE
      BY <1>3 DEF SeenOff, FoundOff
    <2>1. r \in Changes \cup Toggles
      BY <1>1
    <2>2. ~SwitchedOn(r.s)
      BY <2>1 DEF SeenOff
    <2>3. PICK q \in reqs : q.s = r.s /\ q.on
      BY <2>2 DEF Steady
    <2> QED
      BY <2>1, <2>3 DEF QuietHolds
  <1> QED
    BY <1>4, <1>5, <1>6

\* Of a switch that no commit has noted as switched off.
LEMMA OffStaysOf ==
  ASSUME OffHolds, Steady, NEW s \in Switches, offAt'[s] = offAt[s],
         offAt'[s] > onAt'[s]
  PROVE  ~SwitchedOn(s)' /\ \A q \in reqs' : q.s = s => ~q.on
  <1>1. offAt[s] > onAt[s]
    BY DEF Steady
  <1>2. ~SwitchedOn(s) /\ \A q \in reqs : q.s = s => ~q.on
    BY <1>1 DEF OffHolds
  <1>3. ~SwitchedOn(s)'
    BY <1>2 DEF Steady
  <1>4. ASSUME NEW q \in reqs', q.s = s PROVE ~q.on
    <2>1. PICK p \in reqs : p.s = q.s /\ p.on = q.on
      BY DEF Steady
    <2> QED
      BY <1>2, <1>4, <2>1
  <1> QED
    BY <1>3, <1>4

LEMMA OffStays ==
  ASSUME OffHolds, Steady, offAt' = offAt
  PROVE  OffHolds'
  <1> SUFFICES ASSUME NEW s \in Switches, offAt'[s] > onAt'[s]
               PROVE  ~SwitchedOn(s)' /\ \A q \in reqs' : q.s = s => ~q.on
    BY DEF OffHolds, SwitchedOn, IsOn, Connectors
  <1> QED
    BY OffStaysOf

LEMMA PeaceArrives ==
  ASSUME Basics, Peace, NEW q, q.id = requests + 1, q.s \in Switches,
         q \in Change \cup Toggle \cup Callback,
         q \notin Callback => (q.quiet => SwitchingOn(q.s) = {})
                              /\ (FoundOff(q) => ~SwitchedOn(q.s)),
         reqs' \subseteq reqs \cup {q}, UNCHANGED <<row, conn, offAt>>,
         onAt' = IF q.on THEN [onAt EXCEPT ![q.s] = requests + 1] ELSE onAt
  PROVE  Peace'
  <1> USE DEF Basics
  <1>1. \A r \in (Changes \cup Toggles)' :
            r \in Changes \cup Toggles \/ (r = q /\ q \notin Callback)
    BY DEF Changes, Toggles, Callback
  <1>2. /\ \A r \in reqs : r.id \in Nat /\ r.id <= requests /\ r.s \in Switches
        /\ requests \in Nat
    BY RequestType DEF Numbered, TypeOK
  <1>3. /\ q.on => onAt'[q.s] = requests + 1
        /\ \A s \in Switches : s # q.s \/ ~q.on => onAt'[s] = onAt[s]
    BY DEF TypeOK
  <1>4. \A s : SwitchedOn(s)' = SwitchedOn(s)
    BY DEF SwitchedOn
  <1>5. \A r \in reqs' : r \in reqs \/ r = q
    OBVIOUS
  <1>6. ASSUME NEW r \in reqs, onAt'[r.s] < r.id
        PROVE  (r.s # q.s \/ ~q.on) /\ onAt[r.s] < r.id
    <2>1. r.s # q.s \/ ~q.on
      BY <1>2, <1>3, <1>6
    <2> QED
      BY <1>2, <1>3, <1>6, <2>1
  <1>7. OnNoted'
    <2> SUFFICES ASSUME NEW r \in reqs', r.on PROVE r.id <= onAt'[r.s]
      BY DEF OnNoted
    <2>1. CASE r = q
      BY <1>2, <1>3, <2>1
    <2>2. CASE r \in reqs
      <3>1. r.id <= onAt[r.s] /\ r.s \in Switches
        BY <1>2, <2>2 DEF Peace, OnNoted
      <3> QED
        BY <1>2, <1>3, <2>2, <3>1
    <2> QED
      BY <1>5, <2>1, <2>2
  <1>8. QuietHolds'
    <2> SUFFICES ASSUME NEW r \in (Changes \cup Toggles)', NEW p \in reqs',
                        r.quiet, onAt'[r.s] < r.id, p.s = r.s, p.on
                 PROVE  FALSE
      BY DEF QuietHolds
    <2>1. CASE r \in Changes \cup Toggles
      <3>1. r \in reqs
        BY <2>1 DEF Changes, Toggles
      <3>2. CASE p \in reqs
        BY <1>6, <2>1, <3>1, <3>2 DEF Peace, QuietHolds
      <3>3. CASE p = q
        BY <1>6, <3>1, <3>3
      <3> QED
        BY <1>5, <3>2, <3>3
    <2>2. CASE r = q /\ q \notin Callback
      <3>1. ~q.on
        BY <1>2, <1>3, <2>2
      <3>2. p \in reqs
        BY <1>5, <2>2, <3>1
      <3>3. p \in SwitchingOn(q.s)
        BY <2>2, <3>2 DEF SwitchingOn, On
      <3> QED
        BY <2>2, <3>3
    <2> QED
      BY <1>1, <2>1, <2>2
  <1>9. SeenOff'
    <2> SUFFICES ASSUME NEW r \in (Changes \cup Toggles)',
                        r.quiet, onAt'[r.s] < r.id, FoundOff(r), SwitchedOn(r.s)
                 PROVE  FALSE
      BY <1>4 DEF SeenOff, FoundOff
    <2>1. CASE r \in Changes \cup Toggles
      <3>1. r \in reqs
        BY <2>1 DEF Changes, Toggles
      <3> QED
        BY <1>6, <2>1, <3>1 DEF Peace, SeenOff
    <2>2. CASE r = q /\ q \notin Callback
      BY <2>2
    <2> QED
      BY <1>1, <2>1, <2>2
  <1>10. OffHolds'
    <2> SUFFICES ASSUME NEW s \in Switches, offAt[s] > onAt'[s]
                 PROVE  ~SwitchedOn(s) /\ \A p \in reqs' : p.s = s => ~p.on
      BY <1>4 DEF OffHolds, Switches, Connectors
    <2>1. s # q.s \/ ~q.on
      BY <1>2, <1>3, SwitchTypes
    <2>2. offAt[s] > onAt[s]
      BY <1>3, <2>1
    <2>3. ~SwitchedOn(s) /\ \A p \in reqs : p.s = s => ~p.on
      BY <2>2 DEF Peace, OffHolds
    <2> QED
      BY <1>5, <2>1, <2>3
  <1> QED
    BY <1>7, <1>8, <1>9, <1>10 DEF Peace

\* An update that turns its automation on was asked to.
LEMMA CommitTurnsOn ==
  ASSUME Basics, NEW r \in reqs, CommitChange(r), IsOn(row'[r.s])
  PROVE  IsOn(row[r.s]) \/ r.on
  <1> USE DEF Basics
  <1>1. r \in Changes /\ r.s \in Automations
    BY ChangesType DEF CommitChange, Changes
  <1>2. row'[r.s] = IF r.op = "update" THEN Merged(r) ELSE r.new
    BY <1>1 DEF CommitChange, TypeOK
  <1>3. CASE r.op = "update"
    <2>1. row[r.s] # None /\ row[r.s] \in Row
      BY <1>1, <1>3 DEF CommitChange, TypeOK
    <2>2. r.seen \in Row /\ r.new \in Row /\ (IsOn(r.new) => r.on \/ IsOn(r.seen))
      BY <1>1, <1>3, ChangesType DEF Shaped
    <2>3. Merged(r).enabled = IF r.new.enabled = r.seen.enabled
                              THEN row[r.s].enabled ELSE r.new.enabled
      BY <2>1 DEF Merged, Row
    <2>4. Merged(r).enabled
      BY <1>2, <1>3 DEF IsOn
    <2>5. CASE r.new.enabled = r.seen.enabled
      BY <2>1, <2>3, <2>4, <2>5 DEF IsOn
    <2>6. CASE r.new.enabled # r.seen.enabled
      <3>1. r.new.enabled /\ ~r.seen.enabled
        BY <2>2, <2>3, <2>4, <2>6 DEF Row
      <3>2. IsOn(r.new) /\ ~IsOn(r.seen)
        BY <2>2, <3>1, NoneAssumption DEF IsOn
      <3> QED
        BY <2>2, <3>2
    <2> QED
      BY <2>5, <2>6
  <1>4. CASE r.op # "update"
    <2>1. r.op = "create"
      BY <1>1, <1>2, <1>4 DEF Shaped, Changes, IsOn
    <2>2. r.seen = None /\ IsOn(r.new)
      BY <1>1, <1>2, <2>1 DEF Shaped
    <2> QED
      BY <1>1, <2>2 DEF Shaped, IsOn
  <1> QED
    BY <1>3, <1>4

\* A commit that counts as switching off leaves its automation off.
LEMMA CommitTurnsOff ==
  ASSUME Basics, SeenOff, NEW r \in reqs, CommitChange(r),
         r.new = None \/ ~r.new.enabled, r.quiet, onAt[r.s] < r.id
  PROVE  ~IsOn(row'[r.s])
  <1> USE DEF Basics
  <1>1. r \in Changes /\ r.s \in Automations
    BY ChangesType DEF CommitChange, Changes
  <1>2. row'[r.s] = IF r.op = "update" THEN Merged(r) ELSE r.new
    BY <1>1 DEF CommitChange, TypeOK
  <1>3. CASE r.op = "update"
    <2>1. row[r.s] # None /\ row[r.s] \in Row
      BY <1>1, <1>3 DEF CommitChange, TypeOK
    <2>2. r.seen \in Row /\ r.new \in Row /\ r.new # None
      BY <1>1, <1>3, ChangesType DEF Shaped
    <2>3. Merged(r).enabled = IF r.new.enabled = r.seen.enabled
                              THEN row[r.s].enabled ELSE r.new.enabled
      BY <2>1 DEF Merged, Row
    <2>4. ~r.new.enabled
      BY <2>2
    <2>5. CASE r.new.enabled = r.seen.enabled
      <3>1. FoundOff(r)
        BY <1>3, <2>4, <2>5 DEF FoundOff, IsOn
      <3>2. ~IsOn(row[r.s])
        BY <1>1, <3>1 DEF SeenOff, SwitchedOn
      <3> QED
        BY <1>2, <1>3, <2>1, <2>3, <2>5, <3>2 DEF IsOn
    <2>6. CASE r.new.enabled # r.seen.enabled
      BY <1>2, <1>3, <2>3, <2>4, <2>6 DEF IsOn
    <2> QED
      BY <2>5, <2>6
  <1>4. CASE r.op # "update"
    BY <1>2, <1>4 DEF IsOn
  <1> QED
    BY <1>3, <1>4

\* A commit that noted r's number as switching off, with no later one on.
LEMMA PeaceCommits ==
  ASSUME Basics, Peace, Steady, NEW r \in Changes \cup Toggles, reqs' = reqs \ {r},
         offAt' = offAt \/ (offAt' = SwitchedOff(r)
                            /\ (r.quiet /\ onAt[r.s] < r.id => ~SwitchedOn(r.s)'))
  PROVE  Peace'
  <1> USE DEF Basics, Peace
  <1>1. OnNoted' /\ QuietHolds' /\ SeenOff'
    BY QuietStays
  <1>2. OffHolds'
    <2> SUFFICES ASSUME NEW s \in Switches, offAt'[s] > onAt'[s]
                 PROVE  ~SwitchedOn(s)' /\ \A q \in reqs' : q.s = s => ~q.on
      BY DEF OffHolds, SwitchedOn, IsOn, Connectors
    <2>1. CASE offAt'[s] = offAt[s]
      BY <2>1, OffStaysOf
    <2>2. CASE offAt'[s] # offAt[s]
      <3>1. offAt' = SwitchedOff(r)
        BY <2>2
      <3>2. s = r.s /\ r.quiet /\ onAt[r.s] < r.id
        BY <2>2, <3>1 DEF SwitchedOff, TypeOK
      <3>3. ~SwitchedOn(s)'
        BY <2>2, <3>2
      <3>4. \A q \in reqs : q.s = s => ~q.on
        BY <3>2 DEF QuietHolds
      <3> QED
        BY <3>3, <3>4
    <2> QED
      BY <2>1, <2>2
  <1> QED
    BY <1>1, <1>2

LEMMA PeaceStays ==
  ASSUME Basics, Peace, Steady, offAt' = offAt
  PROVE  Peace'
  BY QuietStays, OffStays DEF Peace

LEMMA PeaceStep ==
  ASSUME Basics, Peace, [Next]_vars
  PROVE  Peace'
  <1> USE DEF Basics
  <1>1. ASSUME NEW w \in Workers, NEW a \in Automations, NEW op, NEW new, NEW on,
               Begun(w, op, a, new, on)
        PROVE  Peace'
    <2> DEFINE q == Entry(w, op, a, new, on)
    <2>1. /\ q \in Change /\ q.op = op /\ q.id = requests + 1 /\ q.s = a /\ q.on = on
          /\ q.seen = row[a] /\ (q.quiet => SwitchingOn(a) = {})
          /\ reqs' \subseteq reqs \cup {q}
      BY <1>1, EntryType DEF Entry
    <2>2. /\ UNCHANGED <<row, conn, offAt>>
          /\ onAt' = IF on THEN [onAt EXCEPT ![a] = requests + 1] ELSE onAt
          /\ op # "toggle"
      BY <1>1 DEF Begun, BeginChange, rows
    <2> HIDE DEF q
    <2>3. FoundOff(q) => ~SwitchedOn(a)
      BY <2>1, <2>2, ConstantsAssumption DEF FoundOff, SwitchedOn, Connectors
    <2>4. q.s \in Switches
      BY <2>1 DEF Switches
    <2> QED
      BY <2>1, <2>2, <2>3, <2>4, PeaceArrives
  <1>2. ASSUME NEW r \in reqs, CommitChange(r) PROVE Peace'
    <2>1. r \in Changes /\ r.s \in Automations /\ r.s \notin Connectors
      BY <1>2, ChangesType DEF CommitChange, Changes
    <2>2. /\ reqs' = reqs \ {r} /\ onAt' = onAt /\ conn' = conn
          /\ \A b \in Automations : b # r.s => row'[b] = row[b]
      BY <1>2, <2>1 DEF CommitChange, TypeOK
    <2>3. Steady
      <3>1. ASSUME NEW s, SwitchedOn(s)'
            PROVE  SwitchedOn(s) \/ \E q \in reqs : q.s = s /\ q.on
        <4>1. CASE s = r.s
          BY <1>2, <2>1, <2>2, <3>1, <4>1, CommitTurnsOn DEF SwitchedOn, IsOn
        <4>2. CASE s # r.s
          BY <2>2, <3>1, <4>2 DEF SwitchedOn, IsOn, Connectors
        <4> QED
          BY <4>1, <4>2
      <3> QED
        BY <2>2, <3>1 DEF Steady
    <2>4. offAt' = IF r.new = None \/ ~r.new.enabled THEN SwitchedOff(r) ELSE offAt
      BY <1>2 DEF CommitChange
    <2>5. ASSUME r.new = None \/ ~r.new.enabled, r.quiet, onAt[r.s] < r.id
          PROVE  ~SwitchedOn(r.s)'
      <3>1. ~IsOn(row'[r.s])
        BY <1>2, <2>5, CommitTurnsOff DEF Peace
      <3> QED
        BY <2>1, <3>1 DEF SwitchedOn, IsOn, Connectors
    <2> QED
      BY <2>1, <2>2, <2>3, <2>4, <2>5, PeaceCommits
  <1>3. ASSUME NEW r \in reqs, ToggleCommit(r) PROVE Peace'
    <2>1. r \in Toggles /\ r \in Toggle
      BY <1>3, Kinds DEF ToggleCommit, Toggles
    <2>2. r.s \in Connectors /\ r.s \notin Automations /\ r.on \in BOOLEAN
      BY <2>1, RequestType
    <2>3. /\ reqs' = reqs \ {r} /\ onAt' = onAt /\ row' = row
          /\ \A c \in Connectors : c # r.s => conn'[c] = conn[c]
          /\ conn'[r.s] = LET want == IF r.on THEN "on" ELSE "off"
                          IN  IF want = r.seen THEN conn[r.s] ELSE want
      BY <1>3, <2>2 DEF ToggleCommit, TypeOK
    <2>4. Steady
      <3>1. ASSUME NEW s, SwitchedOn(s)'
            PROVE  SwitchedOn(s) \/ \E q \in reqs : q.s = s /\ q.on
        <4>1. CASE s = r.s
          BY <2>2, <2>3, <3>1, <4>1 DEF SwitchedOn, IsOn
        <4>2. CASE s # r.s
          BY <2>3, <3>1, <4>2 DEF SwitchedOn, IsOn, Connectors
        <4> QED
          BY <4>1, <4>2
      <3> QED
        BY <2>3, <3>1 DEF Steady
    <2>5. offAt' = IF r.on THEN offAt ELSE SwitchedOff(r)
      BY <1>3 DEF ToggleCommit
    <2>6. ASSUME ~r.on, r.quiet, onAt[r.s] < r.id PROVE ~SwitchedOn(r.s)'
      <3>1. r.seen = "off" => conn[r.s] # "on"
        BY <2>1, <2>2, <2>6 DEF Peace, SeenOff, FoundOff, SwitchedOn, Toggles
      <3>2. conn'[r.s] # "on"
        BY <2>3, <2>6, <3>1
      <3> QED
        BY <2>2, <3>2 DEF SwitchedOn, IsOn
    <2> QED
      BY <2>1, <2>3, <2>4, <2>5, <2>6, PeaceCommits
  <1>4. ASSUME NEW r \in reqs, CallbackCommit(r) PROVE Peace'
    <2>1. r.on /\ r.s \in Connectors
      BY <1>4, Kinds, RequestType DEF CallbackCommit, Callback
    <2>2. /\ reqs' = reqs \ {r} /\ onAt' = onAt /\ row' = row /\ offAt' = offAt
          /\ \A c \in Connectors : c # r.s => conn'[c] = conn[c]
      BY <1>4, <2>1 DEF CallbackCommit, TypeOK, history
    <2>3. Steady
      <3>1. ASSUME NEW s, SwitchedOn(s)'
            PROVE  SwitchedOn(s) \/ \E q \in reqs : q.s = s /\ q.on
        <4>1. CASE s = r.s
          BY <2>1, <4>1
        <4>2. CASE s # r.s
          BY <2>2, <3>1, <4>2 DEF SwitchedOn, IsOn, Connectors
        <4> QED
          BY <4>1, <4>2
      <3> QED
        BY <2>2, <3>1 DEF Steady
    <2> QED
      BY <2>2, <2>3, PeaceStays
  <1>5. ASSUME NEW w \in Workers, NEW c \in Connectors, NEW on \in BOOLEAN,
               ToggleBegin(w, c, on)
        PROVE  Peace'
    <2>1. PICK q \in Toggle : /\ q.op = "toggle" /\ q.id = requests + 1 /\ q.s = c
                              /\ q.on = on /\ q.seen = conn[c]
                              /\ q.quiet = (SwitchingOn(c) = {})
                              /\ reqs' = reqs \cup {q}
      BY <1>5, ToggleArrives
    <2>2. /\ UNCHANGED <<row, conn, offAt>>
          /\ onAt' = IF on THEN [onAt EXCEPT ![c] = requests + 1] ELSE onAt
      BY <1>5 DEF ToggleBegin, rows
    <2>3. FoundOff(q) => ~SwitchedOn(c)
      BY <2>1, ConstantsAssumption DEF FoundOff, SwitchedOn, Connectors
    <2>4. q.s \in Switches
      BY <2>1 DEF Switches
    <2> QED
      BY <2>1, <2>2, <2>3, <2>4, PeaceArrives
  <1>6. ASSUME NEW w \in Workers, NEW p \in Providers, NEW t \in states,
               CallbackGet(w, p, t)
        PROVE  Peace'
    <2>1. PICK q \in Callback : /\ q.id = requests + 1 /\ q.s = <<t.user, p>> /\ q.on
                                /\ reqs' = reqs \cup {q}
      BY <1>6, CallbackArrives
    <2>2. /\ UNCHANGED <<row, conn, offAt>>
          /\ onAt' = [onAt EXCEPT ![q.s] = requests + 1]
      BY <1>6, <2>1 DEF CallbackGet, rows
    <2>3. q.s \in Switches
      BY <2>1 DEF Callback, Switches
    <2> QED
      BY <2>1, <2>2, <2>3, PeaceArrives
  <1>7. ASSUME UNCHANGED <<row, conn, onAt, offAt>>,
               reqs' \subseteq reqs \/ \E r \in reqs : \E n : Moved(r, n)
        PROVE  Peace'
    <2>1. ASSUME NEW r \in reqs', r \notin reqs
          PROVE  /\ r.op = "callback"
                 /\ \E p \in reqs : p.id = r.id /\ p.s = r.s /\ p.on = r.on
      <3>1. PICK p \in reqs : Moved(p, r)
        BY <1>7, <2>1 DEF Moved
      <3> QED
        BY <3>1 DEF Moved, Callback
    <2>2. Steady
      BY <1>7, <2>1 DEF Steady, SwitchedOn, IsOn, Connectors
    <2> QED
      BY <1>7, <2>2, PeaceStays
  <1>8. ASSUME NEW w \in Workers, Crash(w) \/ Restart(w) \/ Restore(w) PROVE Peace'
    BY <1>7, <1>8 DEF Crash, Restart, Restore, rows, history
  <1>9. ASSUME StartedOAuth PROVE Peace'
    BY <1>7, <1>9 DEF StartedOAuth
  <1>10. ASSUME Still, reqs' \subseteq reqs \/ \E r \in reqs : \E n : Moved(r, n)
         PROVE  Peace'
    BY <1>7, <1>10 DEF Still
  <1> HIDE DEF Basics
  <1> QED
    BY <1>1, <1>2, <1>3, <1>4, <1>5, <1>6, <1>8, <1>9, <1>10, StepCases

\* Only a run's own steps bring it further.
LEMMA RunCases ==
  ASSUME [Next]_vars
  PROVE  \/ runs' \subseteq runs
         \/ \E w \in Workers, a \in Automations, trigger \in {"cron", "manual"} :
                StartRun(w, a, trigger)
         \/ \E u \in runs : ReadConnectors(u) \/ Post(u) \/ PostFails(u)
  <1>1. ASSUME NEW w \in Workers, NEW a \in Automations,
               \/ \E prompt \in Prompts, cron \in Crons \cup BadCrons :
                      Create(w, a, prompt, cron)
               \/ \E enabled \in BOOLEAN \cup {None}, cron \in Crons \cup BadCrons \cup {None} :
                      Update(w, a, enabled, cron)
               \/ Delete(w, a)
        PROVE  runs' = runs
    BY <1>1 DEF Create, Update, Delete, BeginChange, runVars
  <1>2. ASSUME NEW w \in Workers, NEW a \in Automations, FireJob(w, a) \/ RunNow(w, a)
        PROVE  \E trigger \in {"cron", "manual"} : StartRun(w, a, trigger)
    BY <1>2 DEF FireJob, RunNow
  <1>3. ASSUME NEW w \in Workers, NEW c \in Connectors,
               StartOAuth(w, c) \/ \E on \in BOOLEAN : ToggleBegin(w, c, on)
        PROVE  runs' = runs
    BY <1>3 DEF StartOAuth, ToggleBegin, runVars
  <1>4. ASSUME NEW w \in Workers, NEW p \in Providers, NEW t \in states,
               CallbackGet(w, p, t)
        PROVE  runs' = runs
    BY <1>4 DEF CallbackGet, runVars
  <1>5. ASSUME NEW r \in reqs,
               \/ CommitChange(r) \/ ToggleCommit(r) \/ Fail(r)
               \/ CallbackDelete(r) \/ CallbackRead(r) \/ CallbackCommit(r)
        PROVE  runs' = runs
    BY <1>5 DEF CommitChange, ToggleCommit, Fail, CallbackDelete, CallbackRead,
                CallbackCommit, runVars
  <1>6. ASSUME NEW w \in Workers, Crash(w) \/ Restart(w) \/ Restore(w) PROVE runs' \subseteq runs
    BY <1>6 DEF Crash, Restart, Restore, runVars
  <1>7. ASSUME NEW t \in states, StateExpires(t) PROVE runs' = runs
    BY <1>7 DEF StateExpires, runVars
  <1>8. ASSUME NEW u \in runs, EndRun(u) PROVE runs' \subseteq runs
    BY <1>8 DEF EndRun
  <1>9. ASSUME UNCHANGED vars PROVE runs' = runs
    BY <1>9 DEF vars, runVars
  <1> QED
    BY <1>1, <1>2, <1>3, <1>4, <1>5, <1>6, <1>7, <1>8, <1>9 DEF Next

LEMMA RunsStayQuiet ==
  ASSUME TypeOK, OffHolds, RunsQuiet, [Next]_vars
  PROVE  RunsQuiet'
  <1>1. ASSUME NEW s \in Switches, SwitchedOn(s) PROVE Off({s}) = {}
    BY <1>1 DEF OffHolds, Off
  <1>2. ASSUME NEW w \in Workers, NEW a \in Automations, NEW trigger \in {"cron", "manual"},
               StartRun(w, a, trigger)
        PROVE  RunsQuiet'
    <2> DEFINE u == [id |-> started + 1, at |-> w, a |-> a, trigger |-> trigger,
                     config |-> row[a].config, step |-> "started", off |-> Off({a})]
    <2>1. SwitchedOn(a) /\ a \in Switches
      BY <1>2 DEF StartRun, SwitchedOn, IsOn, Switches
    <2>2. u.off = {}
      BY <1>1, <2>1
    <2>3. runs' = runs \cup {u}
      BY <1>2 DEF StartRun
    <2> QED
      BY <2>2, <2>3 DEF RunsQuiet
  <1>3. ASSUME NEW u \in runs, NEW from \in {"started", "ready"}, NEW to, NEW ss,
               Moves(u, from, to, ss), to = "ended" \/ Off(ss) = {}
        PROVE  RunsQuiet'
    <2> DEFINE n == [u EXCEPT !.step = to, !.off = @ \cup Off(ss)]
    <2>1. u \in Run /\ u.step \in {"started", "ready"} /\ runs' = (runs \ {u}) \cup {n}
      BY <1>3 DEF Moves, TypeOK
    <2>2. u.off = {}
      BY <2>1 DEF RunsQuiet
    <2>3. n.step = to /\ n.off = u.off \cup Off(ss)
      BY <2>1 DEF Run
    <2> HIDE DEF n
    <2>4. n.step # "ended" => n.off = {}
      BY <1>3, <2>2, <2>3
    <2> QED
      BY <2>1, <2>4 DEF RunsQuiet
  <1>4. ASSUME NEW u \in runs, ReadConnectors(u) PROVE RunsQuiet'
    <2> DEFINE acts == Connected(u) /\ u.config.kind = "github_repo_to_slack" /\ u.config.repo
               ss == {<<Owner[u.a], p>> : p \in u.config.required \cap Providers}
    <2>1. Moves(u, "started", IF acts THEN "ready" ELSE "ended", ss)
      BY <1>4 DEF ReadConnectors
    <2>2. ASSUME acts PROVE Off(ss) = {}
      <3>1. ASSUME NEW s \in ss PROVE ~(offAt[s] > onAt[s])
        <4>1. PICK p \in u.config.required \cap Providers : s = <<Owner[u.a], p>>
          OBVIOUS
        <4>2. Owner[u.a] \in Users
          BY ConstantsAssumption DEF TypeOK, Run
        <4>3. s \in Connectors /\ conn[s] = "on"
          BY <2>2, <4>1, <4>2 DEF Connected, Connectors
        <4> QED
          BY <4>3 DEF OffHolds, SwitchedOn, Switches
      <3> QED
        BY <3>1 DEF Off
    <2> HIDE DEF acts, ss
    <2>3. CASE acts
      BY <1>3, <2>1, <2>2, <2>3
    <2>4. CASE ~acts
      BY <1>3, <2>1, <2>4
    <2> QED
      BY <2>3, <2>4
  <1>5. ASSUME NEW u \in runs, Post(u) \/ PostFails(u) PROVE RunsQuiet'
    <2>1. Off({}) = {}
      BY DEF Off
    <2> QED
      BY <1>3, <1>5, <2>1 DEF Post, PostFails
  <1>6. ASSUME runs' \subseteq runs PROVE RunsQuiet'
    BY <1>6 DEF RunsQuiet
  <1> QED
    BY <1>2, <1>4, <1>5, <1>6, RunCases

-----------------------------------------------------------------------------
(* Consent: a connector was asked for                                      *)

LEMMA ConsentStep ==
  ASSUME Basics, Consent, [Next]_vars
  PROVE  Consent'
  <1> USE DEF Basics
  \* The connectors and flows stay; the requests end, or were there before.
  <1>1. ASSUME conn' = conn, flows \subseteq flows',
               \A t \in states' : <<t.user, t.provider>> \in flows',
               \A r \in Callbacks' : \/ r \in Callbacks
                                     \/ /\ <<r.state.user, r.state.provider>> \in flows
                                        /\ r.s[1] = r.state.user
                                        /\ r.step # "got" => r.s[2] = r.state.provider,
               \A r \in Toggles' : r \in Toggles \/ conn[r.s] # "none"
        PROVE  Consent'
    <2>1. StatesAsked'
      BY <1>1 DEF StatesAsked
    <2>2. CallbacksAsked'
      BY <1>1 DEF Consent, CallbacksAsked
    <2>3. TogglesExist'
      BY <1>1 DEF Consent, TogglesExist
    <2>4. ConnectorWasAskedFor'
      BY <1>1 DEF Consent, ConnectorWasAskedFor
    <2> QED
      BY <2>1, <2>2, <2>3, <2>4 DEF Consent
  <1>2. ASSUME UNCHANGED <<conn, states, flows>>,
               \A r \in Callbacks' : r \in Callbacks,
               \A r \in Toggles' : r \in Toggles
        PROVE  Consent'
    BY <1>1, <1>2 DEF Consent, StatesAsked
  <1>3. ASSUME NEW w \in Workers, NEW a \in Automations, NEW op, NEW new, NEW on,
               Begun(w, op, a, new, on)
        PROVE  Consent'
    <2> DEFINE q == Entry(w, op, a, new, on)
    <2>1. q \in Change /\ reqs' \subseteq reqs \cup {q}
      BY <1>3, EntryType
    <2> HIDE DEF q
    <2>2. /\ \A r \in Callbacks' : r \in Callbacks
          /\ \A r \in Toggles' : r \in Toggles
      BY <2>1 DEF Callbacks, Toggles, Change
    <2>3. UNCHANGED <<conn, states, flows>>
      BY <1>3 DEF Begun, BeginChange, rows
    <2> QED
      BY <1>2, <2>2, <2>3
  <1>4. ASSUME reqs' \subseteq reqs
        PROVE  /\ \A r \in Callbacks' : r \in Callbacks
               /\ \A r \in Toggles' : r \in Toggles
    BY <1>4 DEF Callbacks, Toggles
  <1>5. ASSUME NEW r \in reqs, CommitChange(r) PROVE Consent'
    BY <1>2, <1>4, <1>5 DEF CommitChange
  \* One connector is written, on or off.
  <1>6. ASSUME NEW c \in Connectors, conn[c] # "none" => conn'[c] # "none", c \in flows,
               \A d \in Connectors : d # c => conn'[d] = conn[d],
               UNCHANGED <<states, flows>>, reqs' \subseteq reqs
        PROVE  Consent'
    <2>1. StatesAsked'
      BY <1>6 DEF Consent, StatesAsked
    <2>2. CallbacksAsked'
      BY <1>4, <1>6 DEF Consent, CallbacksAsked
    <2>3. TogglesExist'
      <3>1. \A r \in Toggles : r.s \in Connectors
        BY Kinds, RequestType DEF Toggles
      <3> QED
        BY <1>4, <1>6, <3>1 DEF Consent, TogglesExist
    <2>4. ConnectorWasAskedFor'
      BY <1>6 DEF Consent, ConnectorWasAskedFor, Connectors
    <2> QED
      BY <2>1, <2>2, <2>3, <2>4 DEF Consent
  <1>7. ASSUME NEW r \in reqs, ToggleCommit(r) PROVE Consent'
    <2>1. r \in Toggles /\ r.s \in Connectors
      BY <1>7, Kinds, RequestType DEF ToggleCommit, Toggles
    <2>2. conn[r.s] # "none"
      BY <2>1 DEF Consent, TogglesExist
    <2>3. r.s \in flows
      BY <2>1, <2>2 DEF Consent, ConnectorWasAskedFor
    <2>4. /\ conn'[r.s] # "none"
          /\ \A d \in Connectors : d # r.s => conn'[d] = conn[d]
          /\ UNCHANGED <<states, flows>> /\ reqs' \subseteq reqs
      BY <1>7, <2>1, <2>2 DEF ToggleCommit, TypeOK
    <2> QED
      BY <1>6, <2>1, <2>3, <2>4
  <1>8. ASSUME NEW r \in reqs, CallbackCommit(r) PROVE Consent'
    <2>1. r \in Callbacks /\ r \in Callback /\ r.step # "got"
      BY <1>8, Kinds DEF CallbackCommit, Callbacks
    <2>2. r.s \in Connectors
      BY <2>1 DEF Callback
    <2>3. r.s = <<r.state.user, r.state.provider>>
      <3>1. r.s[1] = r.state.user /\ r.s[2] = r.state.provider
        BY <2>1 DEF Consent, CallbacksAsked
      <3>2. r.s = <<r.s[1], r.s[2]>>
        BY <2>2 DEF Connectors
      <3> QED
        BY <3>1, <3>2
    <2>4. r.s \in flows
      BY <2>1, <2>3 DEF Consent, CallbacksAsked
    <2>5. /\ conn[r.s] # "none" => conn'[r.s] # "none"
          /\ \A d \in Connectors : d # r.s => conn'[d] = conn[d]
          /\ UNCHANGED <<states, flows>> /\ reqs' \subseteq reqs
      BY <1>8, <2>2 DEF CallbackCommit, TypeOK, history
    <2> QED
      BY <1>6, <2>2, <2>4, <2>5
  <1>9. ASSUME NEW w \in Workers, NEW c \in Connectors, NEW on \in BOOLEAN,
               ToggleBegin(w, c, on)
        PROVE  Consent'
    <2>1. PICK q \in Toggle : q.op = "toggle" /\ q.s = c /\ reqs' = reqs \cup {q}
      BY <1>9, ToggleArrives
    <2>2. conn[c] # "none" /\ UNCHANGED <<conn, states, flows>>
      BY <1>9 DEF ToggleBegin, rows
    <2>3. /\ \A r \in Callbacks' : r \in Callbacks
          /\ \A r \in Toggles' : r \in Toggles \/ conn[r.s] # "none"
      BY <2>1, <2>2 DEF Callbacks, Toggles
    <2> QED
      BY <1>1, <2>2, <2>3 DEF Consent, StatesAsked
  <1>10. ASSUME NEW w \in Workers, NEW p \in Providers, NEW t \in states,
                CallbackGet(w, p, t)
         PROVE  Consent'
    <2>1. PICK q \in Callback : /\ q.op = "callback" /\ q.s = <<t.user, p>> /\ q.state = t
                                /\ q.step = "got" /\ reqs' = reqs \cup {q}
      BY <1>10, CallbackArrives
    <2>2. UNCHANGED <<conn, states, flows>>
      BY <1>10 DEF CallbackGet, rows
    <2>3. <<q.state.user, q.state.provider>> \in flows /\ q.s[1] = q.state.user
      BY <2>1 DEF Consent, StatesAsked
    <2>4. /\ \A r \in Callbacks' : r \in Callbacks \/ r = q
          /\ \A r \in Toggles' : r \in Toggles
      BY <2>1 DEF Callbacks, Toggles
    <2>5. \A r \in Callbacks' : \/ r \in Callbacks
                                \/ /\ <<r.state.user, r.state.provider>> \in flows
                                   /\ r.s[1] = r.state.user
                                   /\ r.step # "got" => r.s[2] = r.state.provider
      BY <2>1, <2>3, <2>4
    <2> QED
      BY <1>1, <2>2, <2>4, <2>5 DEF Consent, StatesAsked
  <1>11. ASSUME NEW w \in Workers, Crash(w) \/ Restart(w) \/ Restore(w) PROVE Consent'
    <2>1. reqs' \subseteq reqs /\ UNCHANGED <<conn, states, flows>>
      BY <1>11 DEF Crash, Restart, Restore, rows, history
    <2> QED
      BY <1>2, <1>4, <2>1
  <1>12. ASSUME StartedOAuth PROVE Consent'
    <2>1. /\ reqs' \subseteq reqs /\ conn' = conn /\ flows \subseteq flows'
          /\ \A t \in states' : <<t.user, t.provider>> \in flows'
      BY <1>12 DEF StartedOAuth, Consent, StatesAsked
    <2> QED
      BY <1>1, <1>4, <2>1
  <1>13. ASSUME Still, reqs' \subseteq reqs \/ \E r \in reqs : \E n : Moved(r, n)
         PROVE  Consent'
    <2>1. /\ conn' = conn /\ flows' = flows
          /\ \A t \in states' : <<t.user, t.provider>> \in flows'
      BY <1>13 DEF Still, Consent, StatesAsked
    <2>2. ASSUME NEW p \in reqs, NEW n, Moved(p, n) PROVE Consent'
      <3>1. p \in Callbacks /\ n.op = "callback"
        BY <2>2 DEF Moved, Callback, Callbacks
      <3>2. /\ \A r \in Callbacks' : r \in Callbacks \/ r = n
            /\ \A r \in Toggles' : r \in Toggles
        BY <2>2, <3>1 DEF Moved, Callbacks, Toggles
      <3>3. /\ <<n.state.user, n.state.provider>> \in flows
            /\ n.s[1] = n.state.user
            /\ n.step # "got" => n.s[2] = n.state.provider
        BY <2>2, <3>1 DEF Moved, Consent, CallbacksAsked
      <3>4. \A r \in Callbacks' : \/ r \in Callbacks
                                  \/ /\ <<r.state.user, r.state.provider>> \in flows
                                     /\ r.s[1] = r.state.user
                                     /\ r.step # "got" => r.s[2] = r.state.provider
        BY <3>2, <3>3
      <3> QED
        BY <1>1, <2>1, <3>2, <3>4
    <2>3. CASE reqs' \subseteq reqs
      BY <1>1, <1>4, <2>1, <2>3
    <2> QED
      BY <1>13, <2>2, <2>3
  <1> HIDE DEF Basics
  <1> QED
    BY <1>3, <1>5, <1>7, <1>8, <1>9, <1>10, <1>11, <1>12, <1>13, StepCases

-----------------------------------------------------------------------------

LEMMA InitEstablishes == Init => IInv
  <1> SUFFICES ASSUME Init PROVE IInv
    OBVIOUS
  <1>1. TypeOK
    <2>1. \A a \in Automations : row[a] \in Row \cup {None}
      BY DEF Init
    <2>2. jobs \in [Workers -> [Automations -> Crons \cup {None}]]
      BY <2>1, ScheduleType DEF Init
    <2>3. conn \in [Connectors -> {"none", "on", "off"}] /\ flows \subseteq Connectors
      BY ConstantsAssumption DEF Init, Connectors
    <2> QED
      BY <2>2, <2>3, ConstantsAssumption DEF Init, TypeOK
  <1>2. Numbered /\ Shaped
    BY DEF Init, Numbered, Shaped, Changes
  <1>3. Agreement
    BY DEF Init, Agreement, Alone, Noted, Follows, Unagreed, Agrees, Holds, Settled, Changes
  <1>4. Silence
    BY DEF Init, Silence, Peace, OnNoted, QuietHolds, SeenOff, OffHolds, RunsQuiet,
           Changes, Toggles
  <1>5. Consent
    BY DEF Init, Consent, StatesAsked, CallbacksAsked, TogglesExist,
           ConnectorWasAskedFor, Callbacks, Toggles
  <1> QED
    BY <1>1, <1>2, <1>3, <1>4, <1>5 DEF IInv, Basics

LEMMA StepPreserves == IInv /\ [Next]_vars => IInv'
  <1> SUFFICES ASSUME IInv, [Next]_vars PROVE IInv'
    OBVIOUS
  <1>1. Basics' /\ Agreement' /\ Consent'
    BY BasicsStep, AgreementStep, ConsentStep DEF IInv
  <1>2. Silence'
    <2>1. Peace'
      BY PeaceStep DEF IInv, Silence
    <2>2. RunsQuiet'
      BY RunsStayQuiet DEF IInv, Silence, Peace, Basics
    <2> QED
      BY <2>1, <2>2 DEF Silence
  <1> QED
    BY <1>1, <1>2 DEF IInv

LEMMA InvariantHolds == Spec => []IInv
  BY InitEstablishes, StepPreserves, PTL DEF Spec

\* Every reachable state is well-typed, whatever requests overlap, fail or end
\* with their worker (services/automations.py, routers/automations.py).
THEOREM TypeCorrect == Spec => []TypeOK
  BY InvariantHolds, PTL DEF IInv, Basics

\* For every number of workers, requests and crashes, and although a request
\* tells the scheduler before it commits and a worker that starts schedules rows
\* it selected earlier: a worker that serves holds what the committed row says of
\* each automation it selected, or changed, with no change beside it or since.
THEOREM SchedulerAgreesInvariant == Spec => []SchedulerAgrees
  <1>1. IInv => SchedulerAgrees
    <2> SUFFICES ASSUME IInv, NEW w \in Workers, up[w], NEW a \in agreed[w]
                 PROVE  jobs[w][a] = Schedule(row[a])
      BY DEF SchedulerAgrees
    <2> QED
      BY DEF IInv, Agreement, Agrees, Holds, Settled
  <1> QED
    BY <1>1, InvariantHolds, PTL

\* No run posts that read its automation after it was paused or deleted, or a
\* connector after it was switched off, unless a request to switch it on again
\* had begun: column-wise writes of overlapping requests do not revive what is
\* off, and run_automation_job reads the row before it does anything.
THEOREM QuietWhenOffInvariant == Spec => []QuietWhenOff
  <1>1. IInv => QuietWhenOff
    BY DEF IInv, Silence, RunsQuiet, QuietWhenOff
  <1> QED
    BY <1>1, InvariantHolds, PTL

\* No user ever has a connector whose OAuth flow it did not start, however many
\* callbacks race, whatever states they carry and whichever provider's callback
\* they reach (connector_oauth_callback).
THEOREM ConnectorWasAskedForInvariant == Spec => []ConnectorWasAskedFor
  BY InvariantHolds, PTL DEF IInv, Consent


=============================================================================
