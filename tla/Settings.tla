------------------------------ MODULE Settings ------------------------------
(***************************************************************************)
(* System settings: the table, the cache of it that the API process and    *)
(* the worker each keep (internal/app/settings_store.go), and the requests *)
(* of administrators that change it (internal/settings).                   *)
(*                                                                         *)
(* A batch of changes is one transaction with a row lock for each key, in  *)
(* the random order of a Go map.  The API reloads its cache after a batch, *)
(* the worker every 30 seconds; a reload reads the table and then replaces *)
(* the cache.  The Stripe key is copied once more, to a global variable.   *)
(***************************************************************************)
EXTENDS Integers, FiniteSets, Functions

CONSTANTS
  Requests,    \* UpdateSettings requests that can be in progress at once
  Keys,        \* system_settings.key
  StripeKey,   \* "stripe_secret_key"
  Values,      \* values of settings
  Typed,       \* bound: those that administrators type, Empty among them or not
  Masked,      \* what a form shows of a secret: "***" and its last characters
  Empty,       \* the empty string
  EnvDefault,  \* key -> value from the environment
  None,        \* no request
  MaxUpdates,  \* bound: batches begun
  MaxFaults    \* bound: statements that fail, processes that restart

ASSUME SettingsAssumption ==
  /\ StripeKey \in Keys
  /\ Masked \notin Values \cup {Empty} /\ Typed \subseteq Values \cup {Empty}
  /\ EnvDefault \in [Keys -> Values \cup {Empty}]
  /\ None \notin Requests
  /\ MaxUpdates \in Nat /\ MaxFaults \in Nat

VARIABLES
  table,      \* system_settings, and how many batches it has seen
  cache,      \* process -> what it has read of the table
  stripeKey,  \* stripe.Key of the API process, and the version it comes from
  lock,       \* row locks of system_settings
  req,        \* administrators' requests in progress
  ticker,     \* the worker's goroutine
  begun,      \* batches begun
  wentBack,   \* history: the API's cache or key was replaced by an older one,
  missed,     \*   or a request that has changed the table has not got that far
  faults

vars == <<table, cache, stripeKey, lock, req, ticker, begun, wentBack, missed, faults>>

Process == {"api", "worker"}
Stored == [Keys -> Values \cup {Empty}]
Snapshot == [version : Nat, data : Stored]

\* SettingsStore.Get
Get(s, k) == IF s.data[k] # Empty THEN s.data[k] ELSE EnvDefault[k]
KeyOf(s) == [version |-> s.version, value |-> Get(s, StripeKey)]

Changes == UNION {[S -> Typed \cup {Masked}] : S \in SUBSET Keys}
NoChanges == [k \in {} |-> Empty]
PC == {"idle", "write", "reload", "swap", "getkey", "setkey"}

Start == [version |-> 0, data |-> [k \in Keys |-> Empty]]
Idle == [pc |-> "idle", changes |-> NoChanges, todo |-> {}, read |-> Start,
         key |-> KeyOf(Start)]

Init ==
  /\ table = Start
  /\ cache = [p \in Process |-> Start]
  /\ stripeKey = KeyOf(Start)
  /\ lock = [k \in Keys |-> None]
  /\ req = [a \in Requests |-> Idle]
  /\ ticker = [pc |-> "wait", read |-> Start]
  /\ begun = 0
  /\ wentBack = FALSE /\ missed = FALSE
  /\ faults = 0

Fault == faults < MaxFaults /\ faults' = faults + 1

Unlocked(a) == lock' = [k \in Keys |-> IF lock[k] = a THEN None ELSE lock[k]]

-----------------------------------------------------------------------------
(* UpdateSettings and UpdateBatch                                          *)

\* Mutant: what the form shows is written.
UpdateAll(a, form) ==
  /\ req[a] = Idle /\ DOMAIN form # {}
  /\ begun < MaxUpdates /\ begun' = begun + 1
  /\ req' = [req EXCEPT ![a].pc = "write", ![a].changes = form, ![a].todo = DOMAIN form]
  /\ UNCHANGED <<table, cache, stripeKey, lock, ticker, wentBack, missed, faults>>

\* Values that begin with "***" have not been changed; the rest is written.
UpdateSettings(a, form) ==
  LET filtered == Restrict(form, {k \in DOMAIN form : form[k] # Masked}) IN
  /\ req[a] = Idle /\ DOMAIN filtered # {}
  /\ begun < MaxUpdates /\ begun' = begun + 1
  /\ req' = [req EXCEPT ![a].pc = "write", ![a].changes = filtered,
                        ![a].todo = DOMAIN filtered]
  /\ UNCHANGED <<table, cache, stripeKey, lock, ticker, wentBack, missed, faults>>

\* UPDATE of one key, in any order.
Write(a, k) ==
  /\ req[a].pc = "write" /\ k \in req[a].todo
  /\ lock[k] = None /\ lock' = [lock EXCEPT ![k] = a]
  /\ req' = [req EXCEPT ![a].todo = @ \ {k}]
  /\ UNCHANGED <<table, cache, stripeKey, ticker, begun, wentBack, missed, faults>>

\* COMMIT takes effect.
Committed(a) ==
  /\ req[a].pc = "write" /\ req[a].todo = {}
  /\ table' = [version |-> table.version + 1,
               data |-> [k \in Keys |-> IF k \in DOMAIN req[a].changes
                                        THEN req[a].changes[k] ELSE table.data[k]]]
  /\ Unlocked(a)
  /\ UNCHANGED <<cache, stripeKey, ticker, begun, wentBack>>

Commit(a) ==
  /\ Committed(a)
  /\ req' = [req EXCEPT ![a].pc = "reload"]
  /\ UNCHANGED <<missed, faults>>

\* UpdateBatch returns an error although the COMMIT has taken effect (its answer
\* is lost, the request's context ends): "Failed to save settings", no Reload.
CommitUnknown(a) ==
  /\ Committed(a) /\ Fault
  /\ req' = [req EXCEPT ![a] = Idle]
  /\ missed' = TRUE

\* Mutant: no deferred Rollback.
AbortKeepingLocks(a) == UNCHANGED lock /\ req' = [req EXCEPT ![a] = Idle]

\* The deferred Rollback; the answer is a 500.
Abort(a) == Unlocked(a) /\ req' = [req EXCEPT ![a] = Idle]

BatchFails(a) ==
  /\ req[a].pc = "write" /\ Fault
  /\ Abort(a)
  /\ UNCHANGED <<table, cache, stripeKey, ticker, begun, wentBack, missed>>

\* a may be waiting for a row that b holds.
Waits(a, b) == req[a].pc = "write" /\ \E k \in req[a].todo : lock[k] = b

\* PostgreSQL fails a statement of one of those who wait for each other.
Deadlocked(a) ==
  /\ \E S \in SUBSET Requests : a \in S /\ \A b \in S : \E c \in S : Waits(b, c)
  /\ Abort(a)
  /\ UNCHANGED <<table, cache, stripeKey, ticker, begun, wentBack, missed, faults>>

\* Reload: the SELECT.
ReadTable(a) ==
  /\ req[a].pc = "reload"
  /\ req' = [req EXCEPT ![a].pc = "swap", ![a].read = table]
  /\ UNCHANGED <<table, cache, stripeKey, lock, ticker, begun, wentBack, missed, faults>>

\* Reload fails: "Settings saved but reload failed".
ReadFails(a) ==
  /\ req[a].pc = "reload" /\ Fault
  /\ req' = [req EXCEPT ![a] = Idle]
  /\ missed' = TRUE
  /\ UNCHANGED <<table, cache, stripeKey, lock, ticker, begun, wentBack>>

\* Mutant: the cache is replaced only when the Stripe key has changed.
SwapForKey(a) ==
  /\ req[a].pc = "swap"
  /\ cache' = IF StripeKey \in DOMAIN req[a].changes
              THEN [cache EXCEPT !["api"] = req[a].read] ELSE cache
  /\ wentBack' = (wentBack \/ req[a].read.version < cache["api"].version)
  /\ req' = IF StripeKey \in DOMAIN req[a].changes THEN [req EXCEPT ![a].pc = "getkey"]
            ELSE [req EXCEPT ![a] = Idle]
  /\ UNCHANGED <<table, stripeKey, lock, ticker, begun, missed, faults>>

\* Reload: the new map, under the mutex.
Swap(a) ==
  /\ req[a].pc = "swap"
  /\ cache' = [cache EXCEPT !["api"] = req[a].read]
  /\ wentBack' = (wentBack \/ req[a].read.version < cache["api"].version)
  /\ req' = IF StripeKey \in DOMAIN req[a].changes THEN [req EXCEPT ![a].pc = "getkey"]
            ELSE [req EXCEPT ![a] = Idle]
  /\ UNCHANGED <<table, stripeKey, lock, ticker, begun, missed, faults>>

\* stripe.Key = store.StripeSecretKey(): a read under the mutex, an assignment
\* without it.
GetKey(a) ==
  /\ req[a].pc = "getkey"
  /\ req' = [req EXCEPT ![a].pc = "setkey", ![a].key = KeyOf(cache["api"])]
  /\ UNCHANGED <<table, cache, stripeKey, lock, ticker, begun, wentBack, missed, faults>>

SetKey(a) ==
  /\ req[a].pc = "setkey"
  /\ stripeKey' = req[a].key
  /\ wentBack' = (wentBack \/ req[a].key.version < stripeKey.version)
  /\ req' = [req EXCEPT ![a] = Idle]
  /\ UNCHANGED <<table, cache, lock, ticker, begun, missed, faults>>

\* The API process starts again: Load, then the key.
RestartAPI ==
  /\ Fault
  /\ cache' = [cache EXCEPT !["api"] = table]
  /\ stripeKey' = KeyOf(table)
  /\ lock' = [k \in Keys |-> None]
  /\ req' = [a \in Requests |-> Idle]
  /\ wentBack' = FALSE /\ missed' = FALSE
  /\ UNCHANGED <<table, ticker, begun>>

-----------------------------------------------------------------------------
(* StartPeriodicReload                                                     *)

Tick ==
  /\ ticker.pc = "wait"
  /\ ticker' = [pc |-> "swap", read |-> table]
  /\ UNCHANGED <<table, cache, stripeKey, lock, req, begun, wentBack, missed, faults>>

TickSwaps ==
  /\ ticker.pc = "swap"
  /\ cache' = [cache EXCEPT !["worker"] = ticker.read]
  /\ ticker' = [ticker EXCEPT !.pc = "wait"]
  /\ UNCHANGED <<table, stripeKey, lock, req, begun, wentBack, missed, faults>>

\* Mutant: an error ends the goroutine.
TickGivesUp ==
  /\ ticker.pc = "swap" /\ Fault
  /\ ticker' = [ticker EXCEPT !.pc = "stopped"]
  /\ UNCHANGED <<table, cache, stripeKey, lock, req, begun, wentBack, missed>>

\* The reload fails, which is logged.
TickFails ==
  /\ ticker.pc = "swap" /\ Fault
  /\ ticker' = [ticker EXCEPT !.pc = "wait"]
  /\ UNCHANGED <<table, cache, stripeKey, lock, req, begun, wentBack, missed>>

\* Mutant: nothing is loaded before the first tick.
RestartUnloaded ==
  /\ Fault
  /\ cache' = [cache EXCEPT !["worker"] = Start]
  /\ ticker' = [ticker EXCEPT !.pc = "wait"]
  /\ UNCHANGED <<table, stripeKey, lock, req, begun, wentBack, missed>>

\* The worker starts again: Load.
RestartWorker ==
  /\ Fault
  /\ cache' = [cache EXCEPT !["worker"] = table]
  /\ ticker' = [ticker EXCEPT !.pc = "wait"]
  /\ UNCHANGED <<table, stripeKey, lock, req, begun, wentBack, missed>>

-----------------------------------------------------------------------------
Continue(a) ==
  \/ \E k \in Keys : Write(a, k)
  \/ Commit(a) \/ Deadlocked(a) \/ ReadTable(a) \/ Swap(a) \/ GetKey(a) \/ SetKey(a)

Next ==
  \/ \E a \in Requests :
       \/ \E form \in Changes : UpdateSettings(a, form)
       \/ Continue(a) \/ BatchFails(a) \/ CommitUnknown(a) \/ ReadFails(a)
  \/ RestartAPI
  \/ Tick \/ TickSwaps \/ TickFails \/ RestartWorker

Spec == Init /\ [][Next]_vars

\* The worker's timer and the goroutines of requests run; a row lock is granted
\* to those who wait for it in turn.
FairSpec ==
  /\ Spec
  /\ WF_vars(Tick \/ TickSwaps)
  /\ \A a \in Requests : SF_vars(Continue(a))

-----------------------------------------------------------------------------
(* Properties                                                              *)

\* Every variable keeps its type: in particular what a form shows instead of a
\* secret is never stored.
TypeOK ==
  /\ table \in Snapshot
  /\ cache \in [Process -> Snapshot]
  /\ stripeKey \in [version : Nat, value : Values \cup {Empty}]
  /\ lock \in [Keys -> Requests \cup {None}]
  /\ \A a \in Requests :
       /\ req[a].pc \in PC
       /\ DOMAIN req[a].changes \subseteq Keys /\ req[a].todo \subseteq Keys
       /\ \A k \in DOMAIN req[a].changes : req[a].changes[k] \in Values \cup {Empty}
       /\ req[a].read \in Snapshot
       /\ req[a].key \in [version : Nat, value : Values \cup {Empty}]
  /\ ticker \in [pc : {"wait", "swap"}, read : Snapshot]
  /\ begun \in Nat /\ faults \in Nat
  /\ wentBack \in BOOLEAN /\ missed \in BOOLEAN

(***************************************************************************)
(* When no change is in progress the API works with what the table says,   *)
(* the key of the Stripe client included.  Three things break this: a      *)
(* reload or a key that was read earlier and stored later than another     *)
(* (settings_store.go:54 and :73, settings/handler.go:135), a batch whose  *)
(* reload has failed, and one whose COMMIT has taken effect and returned   *)
(* an error (settings/service.go:85): the administrator is told that       *)
(* nothing was saved, and nobody reloads.                                  *)
(***************************************************************************)
CacheIsCurrent ==
  (\A a \in Requests : req[a] = Idle) /\ ~wentBack /\ ~missed =>
    cache["api"] = table /\ stripeKey.value = Get(table, StripeKey)

\* The worker never goes back to settings older than those it has used, across
\* reloads that fail and restarts.
WorkerNeverGoesBack == [][cache'["worker"].version >= cache["worker"].version]_vars

\* Every committed batch reaches the worker.
CommitReachesWorker ==
  \A v \in 1 .. MaxUpdates : (table.version = v) ~> (cache["worker"].version >= v)

\* Every request ends, although two batches may lock the same rows in opposite
\* orders (settings/service.go:73).
UpdatesEnd == \A a \in Requests : req[a] # Idle ~> req[a] = Idle
=============================================================================
