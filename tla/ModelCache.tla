---------------------------- MODULE ModelCache -----------------------------
(***************************************************************************)
(* The table of AI models (app/services/model_registry.py,                 *)
(* app/jobs/model_refresh.py, app/routers/models.py).  A refresh fetches   *)
(* the provider's list, marks every row stale, and writes the rows of the  *)
(* list.  The marking is committed before the writing starts, by the       *)
(* schema check that cache_models begins with.  Refreshes overlap: every   *)
(* worker has the nightly job, and requests start others.                  *)
(***************************************************************************)
EXTENDS Naturals, FiniteSets

CONSTANTS
    Models,
    Offers,        \* the lists of the provider: models with context lengths
    MaxRefreshes,  \* bound on the refreshes
    Garbled,       \* a context length that is not a number
    NoRow

CachedModel == [length : Nat, valid : BOOLEAN]

ASSUME OffersAssumption ==
    /\ NoRow \notin CachedModel
    /\ \A list \in Offers :
          DOMAIN list \subseteq Models /\ \A m \in DOMAIN list : list[m] \in Nat \cup {Garbled}
    /\ MaxRefreshes \in Nat

VARIABLES
    cache,      \* the committed rows of model_cache
    old,        \* whether nothing was fetched within CACHE_TTL_HOURS
    refreshing, \* refreshes that have not ended
    refreshes,  \* how many have begun
    settled     \* what the last refresh to be alone wrote: an empty list once
                \* another has begun

cacheVars == <<cache, old, refreshing, refreshes, settled>>

Lists == Offers \cup {<<>>}
Refresh == [id : Nat, list : Lists, alone : BOOLEAN,
            step : {"fetch", "fetched", "marked", "read"},
            seen : [Models -> CachedModel \cup {NoRow}]]

CacheTypeOK ==
    /\ cache \in [Models -> CachedModel \cup {NoRow}]
    /\ old \in BOOLEAN
    /\ refreshing \subseteq Refresh
    /\ refreshes \in 0..MaxRefreshes
    /\ settled \in Lists

CacheInit ==
    /\ cache = [m \in Models |-> NoRow]
    /\ old = TRUE /\ refreshing = {} /\ refreshes = 0 /\ settled = <<>>

\* A day passes.
Age ==
    /\ ~old
    /\ old' = TRUE
    /\ UNCHANGED <<cache, refreshing, refreshes, settled>>

StartRefresh ==
    /\ refreshes < MaxRefreshes
    /\ refreshes' = refreshes + 1
    /\ refreshing' = {[f EXCEPT !.alone = FALSE] : f \in refreshing} \cup
          {[id |-> refreshes + 1, list |-> <<>>, alone |-> refreshing = {},
            step |-> "fetch", seen |-> [m \in Models |-> NoRow]]}
    /\ settled' = <<>>
    /\ UNCHANGED <<cache, old>>

\* The night. The endpoint for administrators fails before it starts one.
RunModelRefresh == StartRefresh

\* A reader of an empty or an old table starts a refresh.
ListModels ==
    /\ old \/ \A m \in Models : cache[m] = NoRow
    /\ StartRefresh

Becomes(f, g) == refreshing' = (refreshing \ {f}) \cup {g}

FetchModels(f) ==
    /\ f \in refreshing /\ f.step = "fetch"
    /\ \E list \in Offers : Becomes(f, [f EXCEPT !.step = "fetched", !.list = list])
    /\ UNCHANGED <<cache, old, refreshes, settled>>

Stale(m) == IF cache[m] = NoRow THEN NoRow ELSE [cache[m] EXCEPT !.valid = FALSE]

\* Every row is marked, and the schema check of cache_models commits that.
MarkStale(f) ==
    /\ f \in refreshing /\ f.step = "fetched"
    /\ cache' = [m \in Models |-> Stale(m)]
    /\ Becomes(f, [f EXCEPT !.step = "marked"])
    /\ UNCHANGED <<old, refreshes, settled>>

ReadRows(f) ==
    /\ f \in refreshing /\ f.step = "marked"
    /\ Becomes(f, [f EXCEPT !.step = "read", !.seen = cache])
    /\ UNCHANGED <<cache, old, refreshes, settled>>

\* Faulty: stores what the provider sent.
ContextLength_Raw(raw) == raw

ContextLength(raw) == IF raw = Garbled THEN 0 ELSE raw

\* Faulty: leaves the flag of a row that was there as the marking left it.
Written_KeepsFlag(f, m) ==
    LET seen == f.seen[m]  length == ContextLength(f.list[m])
    IN  IF seen = NoRow THEN [length |-> length, valid |-> TRUE]
        ELSE [cache[m] EXCEPT !.length = IF length = seen.length THEN @ ELSE length]

\* Of a row that was read, the columns that change are written; a model that
\* was not there is inserted.
Written(f, m) ==
    LET seen == f.seen[m]  length == ContextLength(f.list[m])
    IN  IF seen = NoRow THEN [length |-> length, valid |-> TRUE]
        ELSE [cache[m] EXCEPT !.length = IF length = seen.length THEN @ ELSE length,
                              !.valid = IF seen.valid THEN @ ELSE TRUE]

WriteModels(f) ==
    /\ f \in refreshing /\ f.step = "read"
    /\ \A m \in DOMAIN f.list : f.seen[m] = NoRow => cache[m] = NoRow
    /\ cache' = [m \in Models |-> IF m \in DOMAIN f.list THEN Written(f, m) ELSE cache[m]]
    /\ old' = (old /\ DOMAIN f.list = {})
    /\ refreshing' = refreshing \ {f}
    /\ settled' = IF f.alone THEN f.list ELSE settled
    /\ UNCHANGED refreshes

\* The provider or the database fails, the insertion of a model that another
\* refresh has inserted among it: what is not committed is rolled back.
RefreshFails(f) ==
    /\ f \in refreshing
    /\ refreshing' = refreshing \ {f}
    /\ UNCHANGED <<cache, old, refreshes, settled>>

\* get_model_context_window: 0 is as good as no row.
ContextWindow(m, default) ==
    IF cache[m] # NoRow /\ cache[m].length # 0 THEN cache[m].length ELSE default

CacheNext ==
    \/ Age \/ RunModelRefresh \/ ListModels
    \/ \E f \in refreshing :
          FetchModels(f) \/ MarkStale(f) \/ ReadRows(f) \/ WriteModels(f) \/ RefreshFails(f)

\* After a refresh that no other overlapped, and until the next one begins, the
\* models of its list are valid and have its context lengths, whatever earlier
\* refreshes left behind (run_model_refresh, cache_models).
RefreshSettles ==
    \A m \in DOMAIN settled :
        cache[m] = [length |-> IF settled[m] = Garbled THEN 0 ELSE settled[m], valid |-> TRUE]

=============================================================================
