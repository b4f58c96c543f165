--------------------------- MODULE Settings_proofs ---------------------------
(***************************************************************************)
(* What Settings promises for any keys, values, requests and bounds: what  *)
(* the API works with between changes, and that the worker never returns   *)
(* to older settings.                                                      *)
(***************************************************************************)
EXTENDS Settings, TLAPS

-----------------------------------------------------------------------------
(* Types                                                                   *)

ChangesType == UNION {[S -> Values \cup {Empty}] : S \in SUBSET Keys}
KeyRecord == [version : Nat, value : Values \cup {Empty}]
Request == [pc : PC, changes : ChangesType, todo : SUBSET Keys, read : Snapshot,
            key : KeyRecord]
TypeInv == TypeOK /\ req \in [Requests -> Request]

LEMMA SnapshotKey ==
  ASSUME NEW s \in Snapshot
  PROVE  /\ \A k \in Keys : Get(s, k) \in Values \cup {Empty}
         /\ KeyOf(s) \in KeyRecord
         /\ KeyOf(s).version = s.version /\ KeyOf(s).value = Get(s, StripeKey)
BY SettingsAssumption DEF Snapshot, Stored, Get, KeyOf, KeyRecord

LEMMA IdleType == Start \in Snapshot /\ Idle \in Request
<1>1. Start \in Snapshot
  BY DEF Start, Snapshot, Stored
<1>2. NoChanges \in [{} -> Values \cup {Empty}]
  BY DEF NoChanges
<1>3. NoChanges \in ChangesType
  BY <1>2 DEF ChangesType
<1> QED BY <1>1, <1>3, SnapshotKey DEF Idle, Request, PC

\* What is left of a form.
LEMMA FilteredForm ==
  ASSUME NEW form \in Changes
  PROVE  LET filtered == Restrict(form, {k \in DOMAIN form : form[k] # Masked})
         IN  filtered \in ChangesType /\ DOMAIN filtered \subseteq Keys
<1>1. PICK S \in SUBSET Keys : form \in [S -> Typed \cup {Masked}]
  BY DEF Changes
<1> DEFINE T == {k \in DOMAIN form : form[k] # Masked}
<1>2. T \subseteq S /\ \A k \in T : form[k] \in Values \cup {Empty}
  BY <1>1, SettingsAssumption
<1>3. Restrict(form, T) \in [T -> Values \cup {Empty}]
  BY <1>2 DEF Restrict
<1> QED BY <1>1, <1>2, <1>3 DEF ChangesType

\* What an action does to the request it is about.
LEMMA RequestEdits ==
  ASSUME req \in [Requests -> Request], NEW a \in Requests, NEW k
  PROVE  /\ req[a] \in Request
         /\ [req[a] EXCEPT !.todo = @ \ {k}] \in Request
         /\ \A to \in PC : [req[a] EXCEPT !.pc = to] \in Request
         /\ \A s \in Snapshot : [req[a] EXCEPT !.pc = "swap", !.read = s] \in Request
         /\ \A s \in KeyRecord : [req[a] EXCEPT !.pc = "setkey", !.key = s] \in Request
         /\ \A c \in ChangesType, S \in SUBSET Keys :
              [req[a] EXCEPT !.pc = "write", !.changes = c, !.todo = S] \in Request
BY DEF Request, PC

\* Every step writes the record of one request, or of none, or forgets all.
LEMMA RequestType ==
  ASSUME TypeInv, [Next]_vars
  PROVE  req' \in [Requests -> Request]
<1> DEFINE Own(a) == \E q \in Request : req' = [req EXCEPT ![a] = q]
<1>0. /\ req \in [Requests -> Request] /\ table \in Snapshot
      /\ cache["api"] \in Snapshot /\ Idle \in Request
  BY IdleType DEF TypeInv, TypeOK, Process
<1>1. ASSUME NEW a \in Requests, NEW form \in Changes, UpdateSettings(a, form) PROVE Own(a)
  BY <1>0, <1>1, FilteredForm, RequestEdits DEF UpdateSettings
<1>2. ASSUME NEW a \in Requests, NEW k \in Keys, Write(a, k) PROVE Own(a)
  BY <1>0, <1>2, RequestEdits DEF Write
<1>3. ASSUME NEW a \in Requests, Commit(a) PROVE Own(a)
  BY <1>0, <1>3, RequestEdits DEF Commit, PC
<1>4. ASSUME NEW a \in Requests,
             Deadlocked(a) \/ BatchFails(a) \/ CommitUnknown(a) \/ ReadFails(a)
      PROVE  Own(a)
  BY <1>0, <1>4 DEF Deadlocked, BatchFails, CommitUnknown, ReadFails, Abort
<1>5. ASSUME NEW a \in Requests, ReadTable(a) PROVE Own(a)
  BY <1>0, <1>5, RequestEdits DEF ReadTable
<1>6. ASSUME NEW a \in Requests, Swap(a) \/ SetKey(a) PROVE Own(a)
  BY <1>0, <1>6, RequestEdits DEF Swap, SetKey, PC
<1>7. ASSUME NEW a \in Requests, GetKey(a) PROVE Own(a)
  BY <1>0, <1>7, RequestEdits, SnapshotKey DEF GetKey
<1>8. CASE RestartAPI
  BY <1>0, <1>8 DEF RestartAPI
<1>9. CASE Tick \/ TickSwaps \/ TickFails \/ RestartWorker \/ UNCHANGED vars
  BY <1>0, <1>9 DEF Tick, TickSwaps, TickFails, RestartWorker, vars
<1>10. ASSUME NEW a \in Requests, Own(a) PROVE req' \in [Requests -> Request]
  BY <1>0, <1>10
<1> HIDE DEF Own
<1> QED
  BY <1>1, <1>2, <1>3, <1>4, <1>5, <1>6, <1>7, <1>8, <1>9, <1>10 DEF Next, Continue

LEMMA RequestRecord ==
  ASSUME NEW q \in Request
  PROVE  /\ q.pc \in PC
         /\ DOMAIN q.changes \subseteq Keys /\ q.todo \subseteq Keys
         /\ \A k \in DOMAIN q.changes : q.changes[k] \in Values \cup {Empty}
         /\ q.read \in Snapshot
         /\ q.key \in KeyRecord
<1>1. PICK S \in SUBSET Keys : q.changes \in [S -> Values \cup {Empty}]
  BY DEF Request, ChangesType
<1> QED BY <1>1 DEF Request

LEMMA TypeStep ==
  ASSUME TypeInv, [Next]_vars
  PROVE  TypeInv'
<1> DEFINE Flags == wentBack' \in BOOLEAN /\ missed' \in BOOLEAN
           Rest == /\ table' \in Snapshot /\ cache' \in [Process -> Snapshot]
                   /\ stripeKey' \in KeyRecord
                   /\ lock' \in [Keys -> Requests \cup {None}]
                   /\ ticker' \in [pc : {"wait", "swap"}, read : Snapshot]
                   /\ begun' \in Nat /\ faults' \in Nat
<1>f. wentBack \in BOOLEAN /\ missed \in BOOLEAN
  BY Zenon DEF TypeInv, TypeOK
<1>0. /\ req' \in [Requests -> Request] /\ table \in Snapshot
      /\ cache \in [Process -> Snapshot] /\ stripeKey \in KeyRecord
      /\ lock \in [Keys -> Requests \cup {None}]
      /\ ticker \in [pc : {"wait", "swap"}, read : Snapshot]
      /\ begun \in Nat /\ faults \in Nat
  BY RequestType DEF TypeInv, TypeOK, KeyRecord
<1>t. ticker.read \in Snapshot
  BY <1>0
<1>r. \A a \in Requests :
        /\ DOMAIN req[a].changes \subseteq Keys
        /\ \A k \in DOMAIN req[a].changes : req[a].changes[k] \in Values \cup {Empty}
        /\ req[a].read \in Snapshot /\ req[a].key \in KeyRecord
  BY RequestRecord DEF TypeInv
<1>u. ASSUME NEW a \in Requests, Unlocked(a) PROVE lock' \in [Keys -> Requests \cup {None}]
  BY <1>0, <1>u DEF Unlocked
<1>1. ASSUME NEW a \in Requests, NEW form \in Changes, UpdateSettings(a, form) PROVE Rest
  <2>1. begun' = begun + 1 /\ UNCHANGED <<table, cache, stripeKey, lock, ticker, faults>>
    BY <1>1 DEF UpdateSettings
  <2>2. begun' \in Nat
    BY <1>0, <2>1
  <2> QED BY <1>0, <2>1, <2>2
<1>2. ASSUME NEW a \in Requests, NEW k \in Keys, Write(a, k) PROVE Rest
  <2>1. lock' \in [Keys -> Requests \cup {None}]
    BY <1>0, <1>2 DEF Write
  <2> QED BY <1>0, <1>2, <2>1 DEF Write
<1>3. ASSUME NEW a \in Requests, Commit(a) \/ CommitUnknown(a) PROVE Rest
  <2>0. Committed(a) /\ faults' \in Nat
    BY <1>0, <1>3 DEF Commit, CommitUnknown, Fault
  <2>1. table' \in Snapshot
    <3>1. table.version + 1 \in Nat /\ table.data \in Stored
      BY <1>0 DEF Snapshot
    <3>2. [k \in Keys |-> IF k \in DOMAIN req[a].changes
                          THEN req[a].changes[k] ELSE table.data[k]] \in Stored
      BY <1>r, <3>1 DEF Stored
    <3> QED BY <2>0, <3>1, <3>2 DEF Committed, Snapshot
  <2>2. lock' \in [Keys -> Requests \cup {None}]
    BY <1>u, <2>0 DEF Committed
  <2> QED BY <1>0, <2>0, <2>1, <2>2 DEF Committed
<1>4. ASSUME NEW a \in Requests, Deadlocked(a) \/ BatchFails(a) \/ ReadFails(a) PROVE Rest
  <2>1. lock' \in [Keys -> Requests \cup {None}]
    BY <1>0, <1>4, <1>u DEF Deadlocked, BatchFails, ReadFails, Abort
  <2>2. faults' \in Nat
    BY <1>0, <1>4 DEF Deadlocked, BatchFails, ReadFails, Fault
  <2> QED BY <1>0, <1>4, <2>1, <2>2 DEF Deadlocked, BatchFails, ReadFails
<1>5. ASSUME NEW a \in Requests, ReadTable(a) \/ GetKey(a) PROVE Rest
  BY <1>0, <1>5 DEF ReadTable, GetKey
<1>6. ASSUME NEW a \in Requests, Swap(a) PROVE Rest
  <2>1. cache' \in [Process -> Snapshot]
    BY <1>0, <1>6, <1>r DEF Swap
  <2> QED BY <1>0, <1>6, <2>1 DEF Swap
<1>7. ASSUME NEW a \in Requests, SetKey(a) PROVE Rest
  BY <1>0, <1>7, <1>r DEF SetKey
<1>8. ASSUME RestartAPI PROVE Rest
  <2>1. cache' \in [Process -> Snapshot] /\ stripeKey' \in KeyRecord
    BY <1>0, <1>8, SnapshotKey DEF RestartAPI
  <2>2. lock' \in [Keys -> Requests \cup {None}] /\ faults' \in Nat
    BY <1>0, <1>8 DEF RestartAPI, Fault
  <2> QED BY <1>0, <1>8, <2>1, <2>2 DEF RestartAPI
<1>9. ASSUME Tick \/ TickSwaps \/ TickFails \/ RestartWorker PROVE Rest
  <2>1. ticker' \in [pc : {"wait", "swap"}, read : Snapshot]
    BY <1>0, <1>9 DEF Tick, TickSwaps, TickFails, RestartWorker
  <2>2. cache' \in [Process -> Snapshot]
    BY <1>0, <1>t, <1>9 DEF Tick, TickSwaps, TickFails, RestartWorker
  <2>3. faults' \in Nat
    BY <1>0, <1>9 DEF Tick, TickSwaps, TickFails, RestartWorker, Fault
  <2> QED BY <1>0, <1>9, <2>1, <2>2, <2>3 DEF Tick, TickSwaps, TickFails, RestartWorker
<1>v. ASSUME UNCHANGED vars PROVE Rest
  BY <1>0, <1>v DEF vars
<1>10. Rest
  <2> HIDE DEF Rest
  <2> QED BY <1>1, <1>2, <1>3, <1>4, <1>5, <1>6, <1>7, <1>8, <1>9, <1>v DEF Next, Continue
<1>12. Flags
  <2>1. ASSUME NEW a \in Requests,
               Continue(a) \/ BatchFails(a) \/ CommitUnknown(a) \/ ReadFails(a)
        PROVE  Flags
    <3>1. /\ wentBack' \in {wentBack, TRUE, FALSE}
          /\ missed' \in {missed, TRUE}
      BY <2>1 DEF Continue, Write, Commit, Deadlocked, ReadTable, Swap, GetKey, SetKey,
         BatchFails, ReadFails, Committed, CommitUnknown
    <3> QED BY <1>f, <3>1
  <2>2. ASSUME NEW a \in Requests, NEW form \in Changes, UpdateSettings(a, form) PROVE Flags
    BY <1>f, <2>2 DEF UpdateSettings
  <2>3. ASSUME RestartAPI \/ Tick \/ TickSwaps \/ TickFails \/ RestartWorker \/ UNCHANGED vars
        PROVE  Flags
    BY <1>f, <2>3 DEF RestartAPI, Tick, TickSwaps, TickFails, RestartWorker, vars
  <2> HIDE DEF Flags
  <2> QED BY <2>1, <2>2, <2>3 DEF Next
<1>11. \A a \in Requests :
         /\ req'[a].pc \in PC
         /\ DOMAIN req'[a].changes \subseteq Keys /\ req'[a].todo \subseteq Keys
         /\ \A k \in DOMAIN req'[a].changes : req'[a].changes[k] \in Values \cup {Empty}
         /\ req'[a].read \in Snapshot
         /\ req'[a].key \in KeyRecord
  BY <1>0, RequestRecord
<1> QED BY <1>0, <1>10, <1>11, <1>12 DEF TypeInv, TypeOK, KeyRecord

LEMMA InitType == Init => TypeInv
<1> SUFFICES ASSUME Init PROVE TypeInv
  OBVIOUS
<1>1. req \in [Requests -> Request] /\ Start \in Snapshot
  BY IdleType DEF Init
<1>2. KeyOf(Start) \in KeyRecord
  BY <1>1, SnapshotKey
<1> QED BY <1>1, <1>2, RequestRecord DEF Init, TypeInv, TypeOK, KeyRecord

LEMMA Types == Spec => []TypeInv
BY InitType, TypeStep, PTL DEF Spec

\* Every variable keeps its type; what a form shows is never stored.
THEOREM TypeCorrect == Spec => []TypeOK
<1>1. TypeInv => TypeOK
  BY DEF TypeInv
<1> QED BY <1>1, Types, PTL

-----------------------------------------------------------------------------
(* The worker                                                              *)

\* What the worker uses is no newer than what it has read, nor that than the
\* table.
WorkerInv ==
  /\ cache["worker"].version <= table.version
  /\ ticker.pc = "swap" => /\ cache["worker"].version <= ticker.read.version
                           /\ ticker.read.version <= table.version

\* The actions that write something the worker sees.
LEMMA WorkerSteps ==
  ASSUME TypeInv, [Next]_vars
  PROVE  \/ /\ UNCHANGED <<cache["worker"], ticker>>
            /\ table'.version \in {table.version, table.version + 1}
         \/ UNCHANGED table /\ (Tick \/ TickSwaps \/ TickFails \/ RestartWorker)
<1> DEFINE Quiet == /\ UNCHANGED <<cache["worker"], ticker>>
                    /\ table'.version \in {table.version, table.version + 1}
<1>0. cache \in [Process -> Snapshot]
  BY DEF TypeInv, TypeOK
<1>1. ASSUME NEW a \in Requests,
             Continue(a) \/ BatchFails(a) \/ CommitUnknown(a) \/ ReadFails(a)
      PROVE  Quiet
  <2>1. UNCHANGED ticker /\ (UNCHANGED cache \/ \E s : cache' = [cache EXCEPT !["api"] = s])
    BY <1>1 DEF Continue, Write, Commit, Deadlocked, ReadTable, Swap, GetKey, SetKey,
       BatchFails, ReadFails, Committed, CommitUnknown
  <2>2. UNCHANGED table \/ table'.version = table.version + 1
    BY <1>1 DEF Continue, Write, Commit, Deadlocked, ReadTable, Swap, GetKey, SetKey,
       BatchFails, ReadFails, Committed, CommitUnknown
  <2> QED BY <1>0, <2>1, <2>2 DEF Process
<1>2. ASSUME NEW a \in Requests, NEW form \in Changes, UpdateSettings(a, form) PROVE Quiet
  BY <1>2 DEF UpdateSettings
<1>3. ASSUME RestartAPI PROVE Quiet
  BY <1>0, <1>3 DEF RestartAPI, Process
<1>4. ASSUME UNCHANGED vars PROVE Quiet
  BY <1>4 DEF vars
<1>5. ASSUME Tick \/ TickSwaps \/ TickFails \/ RestartWorker PROVE UNCHANGED table
  BY <1>5 DEF Tick, TickSwaps, TickFails, RestartWorker
<1> HIDE DEF Quiet
<1>6. Quiet \/ (UNCHANGED table /\ (Tick \/ TickSwaps \/ TickFails \/ RestartWorker))
  BY <1>1, <1>2, <1>3, <1>4, <1>5 DEF Next
<1> QED BY <1>6 DEF Quiet

LEMMA WorkerStep ==
  ASSUME TypeInv, WorkerInv, [Next]_vars
  PROVE  WorkerInv' /\ cache'["worker"].version >= cache["worker"].version
<1>0. /\ cache \in [Process -> Snapshot] /\ "worker" \in Process
      /\ table.version \in Nat /\ ticker.read.version \in Nat
      /\ cache["worker"].version \in Nat
      /\ ticker \in [pc : {"wait", "swap"}, read : Snapshot]
  BY DEF TypeInv, TypeOK, Process, Snapshot
<1>1. CASE /\ UNCHANGED <<cache["worker"], ticker>>
           /\ table'.version \in {table.version, table.version + 1}
  BY <1>0, <1>1 DEF WorkerInv
<1>2. CASE UNCHANGED table /\ Tick
  BY <1>0, <1>2 DEF Tick, WorkerInv
<1>3. CASE UNCHANGED table /\ TickSwaps
  <2>1. cache'["worker"] = ticker.read /\ ticker'.pc = "wait" /\ ticker.pc = "swap"
    BY <1>0, <1>3 DEF TickSwaps
  <2> QED BY <1>0, <1>3, <2>1 DEF WorkerInv
<1>4. CASE UNCHANGED table /\ TickFails
  BY <1>0, <1>4 DEF TickFails, WorkerInv
<1>5. CASE UNCHANGED table /\ RestartWorker
  <2>1. cache'["worker"] = table /\ ticker'.pc = "wait"
    BY <1>0, <1>5 DEF RestartWorker
  <2> QED BY <1>0, <1>5, <2>1 DEF WorkerInv
<1> QED BY <1>1, <1>2, <1>3, <1>4, <1>5, WorkerSteps

LEMMA InitWorker == Init => WorkerInv
BY DEF Init, WorkerInv, Start, Process

\* Whatever reloads fail and however often the worker starts again, it never
\* works with settings older than those it has used.
THEOREM WorkerGoesOn == Spec => WorkerNeverGoesBack
<1>1. TypeInv /\ WorkerInv /\ [Next]_vars
        => [cache'["worker"].version >= cache["worker"].version]_vars
  BY WorkerStep
<1>2. Spec => []WorkerInv
  BY InitWorker, WorkerStep, Types, PTL DEF Spec
<1> QED BY <1>1, <1>2, Types, PTL DEF Spec, WorkerNeverGoesBack

-----------------------------------------------------------------------------
(* The API                                                                 *)

\* Snapshots that requests still have to put to use, and the one in use.
Live(s) == s = cache["api"] \/ \E a \in Requests : req[a].pc = "swap" /\ s = req[a].read
\* Keys likewise.
LiveKey(s) == s = stripeKey \/ \E a \in Requests : req[a].pc = "setkey" /\ s = req[a].key

\* A batch after which the API still has to take over the table.
Reloading(a) ==
  \/ req[a].pc = "reload"
  \/ req[a].pc = "swap" /\ req[a].read.version = table.version

\* A batch that still has to bring the key to version v or a later one.
Rekeying(a, v) ==
  /\ StripeKey \in DOMAIN req[a].changes
  /\ \/ req[a].pc = "reload"
     \/ req[a].pc = "swap" /\ req[a].read.version >= v
     \/ req[a].pc = "getkey" /\ cache["api"].version >= v
     \/ req[a].pc = "setkey" /\ req[a].key.version >= v

\* Versions order what has been read.
Versions ==
  /\ \A s \in Snapshot : Live(s) => /\ s.version <= table.version
                                    /\ s.version = table.version => s = table
  /\ \A s \in KeyRecord : LiveKey(s) => s.version <= table.version

\* From version v on the table has had the Stripe key that it has now.
KeySince(v) ==
  /\ v <= table.version
  /\ \A s \in Snapshot : Live(s) /\ s.version >= v => Get(s, StripeKey) = Get(table, StripeKey)
  /\ \A s \in KeyRecord : LiveKey(s) /\ s.version >= v => s.value = Get(table, StripeKey)
  /\ stripeKey.version >= v \/ \E a \in Requests : Rekeying(a, v)

CacheInv ==
  /\ Versions
  /\ ~wentBack /\ ~missed =>
       /\ cache["api"].version = table.version \/ \E a \in Requests : Reloading(a)
       /\ \E v \in Nat : KeySince(v)

LEMMA CacheInvImplies == TypeInv /\ CacheInv => CacheIsCurrent
<1> SUFFICES ASSUME TypeInv, CacheInv, \A a \in Requests : req[a] = Idle, ~wentBack, ~missed
             PROVE  cache["api"] = table /\ stripeKey.value = Get(table, StripeKey)
  BY DEF CacheIsCurrent
<1>0. cache["api"] \in Snapshot /\ stripeKey \in KeyRecord
  BY DEF TypeInv, TypeOK, Process, KeyRecord
<1>1. \A a \in Requests : req[a].pc = "idle"
  BY DEF Idle
<1>2. \A a \in Requests : ~Reloading(a) /\ \A v \in Nat : ~Rekeying(a, v)
  BY <1>1 DEF Reloading, Rekeying
<1>3. cache["api"] = table
  BY <1>0, <1>2 DEF CacheInv, Versions, Live
<1>4. PICK v \in Nat : KeySince(v)
  BY DEF CacheInv
<1>5. stripeKey.version >= v
  BY <1>2, <1>4 DEF KeySince
<1>6. stripeKey.value = Get(table, StripeKey)
  BY <1>0, <1>4, <1>5 DEF KeySince, LiveKey
<1> QED BY <1>3, <1>6

LEMMA InitCache == Init => CacheInv
<1> SUFFICES ASSUME Init PROVE CacheInv
  OBVIOUS
<1>1. /\ table = Start /\ cache["api"] = Start /\ stripeKey = KeyOf(Start)
      /\ \A a \in Requests : req[a].pc = "idle"
  BY DEF Init, Idle, Process
<1>2. KeyOf(Start).value = Get(Start, StripeKey) /\ KeyOf(Start).version = 0
      /\ Start.version = 0
  BY IdleType, SnapshotKey DEF Start
<1>3. \A s : Live(s) => s = Start
  BY <1>1 DEF Live
<1>4. \A s : LiveKey(s) => s = KeyOf(Start)
  BY <1>1 DEF LiveKey
<1>5. KeySince(0)
  BY <1>1, <1>2, <1>3, <1>4 DEF KeySince
<1>6. Versions
  BY <1>1, <1>2, <1>3, <1>4 DEF Versions
<1> QED BY <1>1, <1>5, <1>6 DEF CacheInv

\* A step that leaves alone what the API uses and what it is about to use.
Quiet ==
  /\ UNCHANGED <<table, cache["api"], stripeKey, wentBack, missed>>
  /\ \A a \in Requests :
       \/ req'[a] = req[a]
       \/ req[a].pc \in {"idle", "write"} /\ req'[a].pc \in {"idle", "write"}

LEMMA CacheSteps ==
  ASSUME TypeInv, [Next]_vars
  PROVE  \/ Quiet \/ RestartAPI
         \/ \E a \in Requests : \/ Commit(a) \/ CommitUnknown(a) \/ ReadTable(a)
                                \/ ReadFails(a) \/ Swap(a) \/ GetKey(a) \/ SetKey(a)
<1>0. /\ req \in [Requests -> Request] /\ req' \in [Requests -> Request]
      /\ cache \in [Process -> Snapshot] /\ Idle.pc = "idle"
  BY RequestType DEF TypeInv, TypeOK, Idle
<1>1. ASSUME NEW a \in Requests, NEW form \in Changes, UpdateSettings(a, form) PROVE Quiet
  <2>1. /\ req[a] = Idle /\ UNCHANGED <<table, cache, stripeKey, wentBack, missed>>
        /\ \E c, t : req' = [req EXCEPT ![a] = [req[a] EXCEPT !.pc = "write", !.changes = c,
                                                             !.todo = t]]
    BY <1>1 DEF UpdateSettings
  <2>2. req'[a].pc = "write" /\ \A b \in Requests \ {a} : req'[b] = req[b]
    BY <1>0, <2>1 DEF Request
  <2> QED BY <1>0, <2>1, <2>2 DEF Quiet
<1>2. ASSUME NEW a \in Requests, NEW k \in Keys, Write(a, k) PROVE Quiet
  <2>1. /\ req[a].pc = "write" /\ UNCHANGED <<table, cache, stripeKey, wentBack, missed>>
        /\ req' = [req EXCEPT ![a] = [req[a] EXCEPT !.todo = @ \ {k}]]
    BY <1>2 DEF Write
  <2>2. req'[a].pc = "write" /\ \A b \in Requests \ {a} : req'[b] = req[b]
    BY <1>0, <2>1 DEF Request
  <2> QED BY <1>0, <2>1, <2>2 DEF Quiet
<1>3. ASSUME NEW a \in Requests, Deadlocked(a) \/ BatchFails(a) PROVE Quiet
  <2>1. req[a].pc = "write"
    BY <1>3 DEF Deadlocked, BatchFails, Waits
  <2>2. /\ UNCHANGED <<table, cache, stripeKey, wentBack, missed>>
        /\ req' = [req EXCEPT ![a] = Idle]
    BY <1>3 DEF Deadlocked, BatchFails, Abort
  <2> QED BY <1>0, <2>1, <2>2 DEF Quiet
<1>4. ASSUME TickSwaps \/ RestartWorker PROVE Quiet
  <2>1. /\ UNCHANGED <<table, stripeKey, req, wentBack, missed>>
        /\ \E s : cache' = [cache EXCEPT !["worker"] = s]
    BY <1>4 DEF TickSwaps, RestartWorker
  <2> QED BY <1>0, <2>1 DEF Quiet, Process
<1>5. ASSUME Tick \/ TickFails \/ UNCHANGED vars PROVE Quiet
  BY <1>5 DEF Tick, TickFails, vars, Quiet
<1> QED BY <1>1, <1>2, <1>3, <1>4, <1>5 DEF Next, Continue

LEMMA QuietCache ==
  ASSUME CacheInv, Quiet
  PROVE  CacheInv'
<1>1. (\A s : Live(s)' => Live(s)) /\ (\A s : LiveKey(s)' => LiveKey(s))
  BY DEF Quiet, Live, LiveKey
<1>2. /\ \A a \in Requests : Reloading(a) => Reloading(a)'
      /\ \A a \in Requests : \A v : Rekeying(a, v) => Rekeying(a, v)'
  BY DEF Quiet, Reloading, Rekeying
<1>3. UNCHANGED <<table, cache["api"], stripeKey, wentBack, missed>>
  BY DEF Quiet
<1>4. \A v : KeySince(v) => KeySince(v)'
  BY <1>1, <1>2, <1>3 DEF KeySince, Get
<1>5. Versions'
  BY <1>1, <1>3 DEF CacheInv, Versions
<1> QED BY <1>2, <1>3, <1>4, <1>5 DEF CacheInv

\* What a step does to one request leaves those of the others.
LEMMA Others ==
  ASSUME req \in [Requests -> Request], NEW a \in Requests, NEW q,
         req' = [req EXCEPT ![a] = q]
  PROVE  req'[a] = q /\ \A b \in Requests \ {a} : req'[b] = req[b]
OBVIOUS

LEMMA CommitCache ==
  ASSUME TypeInv, CacheInv, NEW a \in Requests, Commit(a)
  PROVE  CacheInv'
<1>0. /\ req \in [Requests -> Request] /\ table \in Snapshot /\ table.version \in Nat
      /\ cache["api"] \in Snapshot /\ stripeKey \in KeyRecord
      /\ \A b \in Requests : req[b].read \in Snapshot /\ req[b].key \in KeyRecord
  BY RequestRecord DEF TypeInv, TypeOK, Process, Snapshot, KeyRecord
<1>1. /\ req[a].pc = "write" /\ req' = [req EXCEPT ![a] = [req[a] EXCEPT !.pc = "reload"]]
      /\ table'.version = table.version + 1
      /\ StripeKey \notin DOMAIN req[a].changes => table'.data[StripeKey] = table.data[StripeKey]
      /\ UNCHANGED <<cache, stripeKey, wentBack, missed>>
  BY SettingsAssumption DEF Commit, Committed
<1>2. /\ req'[a].pc = "reload" /\ req'[a].changes = req[a].changes
      /\ \A b \in Requests \ {a} : req'[b] = req[b]
  BY <1>0, <1>1 DEF Request
<1>3. (\A s : Live(s)' => Live(s)) /\ (\A s : LiveKey(s)' => LiveKey(s))
  BY <1>1, <1>2 DEF Live, LiveKey
<1>4. \A s \in Snapshot : s.version \in Nat
  BY DEF Snapshot
<1>5. \A s \in KeyRecord : s.version \in Nat
  BY DEF KeyRecord
<1>6. \A s \in Snapshot : Live(s)' => s.version < table'.version
  BY <1>0, <1>1, <1>3, <1>4 DEF CacheInv, Versions
<1>7. \A s \in KeyRecord : LiveKey(s)' => s.version < table'.version
  BY <1>0, <1>1, <1>3, <1>5 DEF CacheInv, Versions
<1>8. table'.version \in Nat
  BY <1>0, <1>1
<1>9. Versions'
  BY <1>4, <1>5, <1>6, <1>7, <1>8 DEF Versions
<1>10. Reloading(a)'
  BY <1>2 DEF Reloading
<1>11. ASSUME ~wentBack, ~missed PROVE \E v \in Nat : KeySince(v)'
  <2>1. CASE StripeKey \in DOMAIN req[a].changes
    <3>1. PICK v \in Nat : v = table'.version
      BY <1>8
    <3>2. Rekeying(a, v)'
      BY <1>2, <2>1 DEF Rekeying
    <3>3. KeySince(v)'
      BY <1>4, <1>5, <1>6, <1>7, <3>1, <3>2 DEF KeySince
    <3> QED BY <3>3
  <2>2. CASE StripeKey \notin DOMAIN req[a].changes
    <3>1. PICK v \in Nat : KeySince(v)
      BY <1>11 DEF CacheInv
    <3>2. Get(table', StripeKey) = Get(table, StripeKey)
      BY <1>1, <2>2 DEF Get
    <3>3. \A b \in Requests : Rekeying(b, v) => Rekeying(b, v)'
      BY <1>1, <1>2 DEF Rekeying
    <3>4. v <= table'.version
      BY <1>0, <1>1, <3>1 DEF KeySince
    <3>5. KeySince(v)'
      BY <1>1, <1>3, <3>1, <3>2, <3>3, <3>4 DEF KeySince
    <3> QED BY <3>5
  <2> QED BY <2>1, <2>2
<1> QED BY <1>1, <1>9, <1>10, <1>11 DEF CacheInv

\* After a COMMIT that nobody knows of only the order of versions is left.
LEMMA CommitUnknownCache ==
  ASSUME TypeInv, CacheInv, NEW a \in Requests, CommitUnknown(a)
  PROVE  CacheInv'
<1>0. req \in [Requests -> Request] /\ table.version \in Nat /\ Idle.pc = "idle"
  BY DEF TypeInv, TypeOK, Snapshot, Idle
<1>1. /\ req' = [req EXCEPT ![a] = Idle] /\ missed' = TRUE
      /\ table'.version = table.version + 1 /\ UNCHANGED <<cache, stripeKey>>
  BY DEF CommitUnknown, Committed
<1>2. (\A s : Live(s)' => Live(s)) /\ (\A s : LiveKey(s)' => LiveKey(s))
  BY <1>0, <1>1 DEF Live, LiveKey
<1>3. \A s \in Snapshot : Live(s)' => s.version \in Nat /\ s.version < table'.version
  BY <1>0, <1>1, <1>2 DEF CacheInv, Versions, Snapshot
<1>4. \A s \in KeyRecord : LiveKey(s)' => s.version \in Nat /\ s.version < table'.version
  BY <1>0, <1>1, <1>2 DEF CacheInv, Versions, KeyRecord
<1>5. Versions'
  BY <1>0, <1>1, <1>3, <1>4 DEF Versions
<1> QED BY <1>1, <1>5 DEF CacheInv

LEMMA ReadTableCache ==
  ASSUME TypeInv, CacheInv, NEW a \in Requests, ReadTable(a)
  PROVE  CacheInv'
<1>0. req \in [Requests -> Request] /\ table.version \in Nat
  BY DEF TypeInv, TypeOK, Snapshot
<1>1. /\ req[a].pc = "reload"
      /\ req' = [req EXCEPT ![a] = [req[a] EXCEPT !.pc = "swap", !.read = table]]
      /\ UNCHANGED <<table, cache, stripeKey, wentBack, missed>>
  BY DEF ReadTable
<1>2. /\ req'[a].pc = "swap" /\ req'[a].read = table /\ req'[a].changes = req[a].changes
      /\ \A b \in Requests \ {a} : req'[b] = req[b]
  BY <1>0, <1>1 DEF Request
<1>3. /\ \A s : Live(s)' => Live(s) \/ s = table
      /\ \A s : LiveKey(s)' => LiveKey(s)
  BY <1>1, <1>2 DEF Live, LiveKey
<1>4. \A b \in Requests : Reloading(b) => Reloading(b)'
  BY <1>1, <1>2 DEF Reloading
<1>5. ASSUME NEW v \in Nat, KeySince(v) PROVE KeySince(v)'
  <2>1. \A b \in Requests : Rekeying(b, v) => Rekeying(b, v)'
    BY <1>0, <1>1, <1>2, <1>5 DEF Rekeying, KeySince
  <2> QED BY <1>1, <1>3, <1>5, <2>1 DEF KeySince
<1>6. Versions'
  BY <1>0, <1>1, <1>3 DEF CacheInv, Versions
<1> QED BY <1>1, <1>4, <1>5, <1>6 DEF CacheInv

LEMMA SwapCache ==
  ASSUME TypeInv, CacheInv, NEW a \in Requests, Swap(a)
  PROVE  CacheInv'
<1>0. /\ req \in [Requests -> Request] /\ table.version \in Nat
      /\ cache \in [Process -> Snapshot] /\ "api" \in Process
      /\ cache["api"].version \in Nat /\ req[a].read.version \in Nat
      /\ req[a].read \in Snapshot /\ Idle.pc = "idle"
  BY RequestRecord DEF TypeInv, TypeOK, Snapshot, Process, Idle
<1>1. /\ req[a].pc = "swap" /\ cache'["api"] = req[a].read
      /\ ~wentBack' => ~wentBack /\ ~(req[a].read.version < cache["api"].version)
      /\ req' = [req EXCEPT ![a] = IF StripeKey \in DOMAIN req[a].changes
                                   THEN [req[a] EXCEPT !.pc = "getkey"] ELSE Idle]
      /\ UNCHANGED <<table, stripeKey, missed>>
  BY <1>0 DEF Swap
<1>2. /\ \A b \in Requests \ {a} : req'[b] = req[b]
      /\ req'[a].pc \in {"getkey", "idle"}
      /\ StripeKey \in DOMAIN req[a].changes =>
           req'[a].pc = "getkey" /\ req'[a].changes = req[a].changes
  BY <1>0, <1>1 DEF Request
<1>3. (\A s : Live(s)' => Live(s)) /\ (\A s : LiveKey(s)' => LiveKey(s))
  BY <1>1, <1>2 DEF Live, LiveKey
<1>4. Versions'
  BY <1>1, <1>3 DEF CacheInv, Versions
<1>5. ASSUME ~wentBack', ~missed'
      PROVE  cache'["api"].version = table'.version \/ \E b \in Requests : Reloading(b)'
  <2>1. ~wentBack /\ ~missed /\ cache["api"].version <= req[a].read.version
    BY <1>0, <1>1, <1>5
  <2>2. req[a].read.version <= table.version
    BY <1>0, <1>1 DEF CacheInv, Versions, Live
  <2>3. CASE cache["api"].version = table.version
    BY <1>0, <1>1, <2>1, <2>2, <2>3
  <2>4. ASSUME NEW b \in Requests, Reloading(b)
        PROVE  cache'["api"].version = table'.version \/ Reloading(b)'
    BY <1>1, <1>2, <2>4 DEF Reloading
  <2> QED BY <2>1, <2>3, <2>4 DEF CacheInv
<1>6. ASSUME ~wentBack', NEW v \in Nat, KeySince(v) PROVE KeySince(v)'
  <2>1. cache["api"].version <= cache'["api"].version
    BY <1>0, <1>1, <1>6
  <2>2. \A b \in Requests : Rekeying(b, v) => Rekeying(b, v)'
    BY <1>0, <1>1, <1>2, <2>1 DEF Rekeying
  <2> QED BY <1>1, <1>3, <1>6, <2>2 DEF KeySince
<1>7. ~wentBack' /\ ~missed' => ~wentBack /\ ~missed
  BY <1>1
<1> QED BY <1>4, <1>5, <1>6, <1>7 DEF CacheInv

LEMMA GetKeyCache ==
  ASSUME TypeInv, CacheInv, NEW a \in Requests, GetKey(a)
  PROVE  CacheInv'
<1>0. req \in [Requests -> Request] /\ cache["api"] \in Snapshot
  BY DEF TypeInv, TypeOK, Process
<1>1. /\ req[a].pc = "getkey"
      /\ req' = [req EXCEPT ![a] = [req[a] EXCEPT !.pc = "setkey",
                                                  !.key = KeyOf(cache["api"])]]
      /\ UNCHANGED <<table, cache, stripeKey, wentBack, missed>>
  BY DEF GetKey
<1>2. /\ req'[a].pc = "setkey" /\ req'[a].key = KeyOf(cache["api"])
      /\ req'[a].changes = req[a].changes
      /\ \A b \in Requests \ {a} : req'[b] = req[b]
  BY <1>0, <1>1 DEF Request
<1>3. /\ KeyOf(cache["api"]).version = cache["api"].version
      /\ KeyOf(cache["api"]).value = Get(cache["api"], StripeKey)
  BY <1>0, SnapshotKey
<1>4. /\ \A s : Live(s)' => Live(s)
      /\ \A s : LiveKey(s)' => LiveKey(s) \/ s = KeyOf(cache["api"])
  BY <1>1, <1>2 DEF Live, LiveKey
<1>5. Versions'
  BY <1>0, <1>1, <1>3, <1>4 DEF CacheInv, Versions, Live
<1>6. \A b \in Requests : Reloading(b) => Reloading(b)'
  BY <1>1, <1>2 DEF Reloading
<1>7. ASSUME NEW v \in Nat, KeySince(v) PROVE KeySince(v)'
  <2>1. \A b \in Requests : Rekeying(b, v) => Rekeying(b, v)'
    BY <1>1, <1>2, <1>3 DEF Rekeying
  <2>2. Live(cache["api"])
    BY DEF Live
  <2> QED BY <1>0, <1>1, <1>3, <1>4, <1>7, <2>1, <2>2 DEF KeySince
<1> QED BY <1>1, <1>5, <1>6, <1>7 DEF CacheInv

LEMMA SetKeyCache ==
  ASSUME TypeInv, CacheInv, NEW a \in Requests, SetKey(a)
  PROVE  CacheInv'
<1>0. /\ req \in [Requests -> Request] /\ Idle.pc = "idle"
      /\ stripeKey.version \in Nat /\ req[a].key.version \in Nat
  BY RequestRecord DEF TypeInv, TypeOK, KeyRecord, Idle
<1>1. /\ req[a].pc = "setkey" /\ req' = [req EXCEPT ![a] = Idle]
      /\ stripeKey' = req[a].key
      /\ ~wentBack' => ~wentBack /\ ~(req[a].key.version < stripeKey.version)
      /\ UNCHANGED <<table, cache, missed>>
  BY DEF SetKey
<1>2. req'[a].pc = "idle" /\ \A b \in Requests \ {a} : req'[b] = req[b]
  BY <1>0, <1>1
<1>3. (\A s : Live(s)' => Live(s)) /\ (\A s : LiveKey(s)' => LiveKey(s))
  BY <1>1, <1>2 DEF Live, LiveKey
<1>4. Versions'
  BY <1>1, <1>3 DEF CacheInv, Versions
<1>5. \A b \in Requests : Reloading(b) => Reloading(b)'
  BY <1>1, <1>2 DEF Reloading
<1>6. ASSUME ~wentBack', NEW v \in Nat, KeySince(v) PROVE KeySince(v)'
  <2>1. stripeKey.version <= stripeKey'.version
    BY <1>0, <1>1, <1>6
  <2>2. \A b \in Requests : Rekeying(b, v) => Rekeying(b, v)' \/ stripeKey'.version >= v
    BY <1>1, <1>2 DEF Rekeying
  <2>3. stripeKey.version >= v => stripeKey'.version >= v
    BY <1>0, <1>1, <2>1
  <2> QED BY <1>1, <1>3, <1>6, <2>2, <2>3 DEF KeySince
<1> QED BY <1>1, <1>4, <1>5, <1>6 DEF CacheInv

LEMMA RestartCache ==
  ASSUME TypeInv, RestartAPI
  PROVE  CacheInv'
<1>0. table \in Snapshot /\ table.version \in Nat /\ cache \in [Process -> Snapshot]
  BY DEF TypeInv, TypeOK, Snapshot
<1>1. /\ UNCHANGED table /\ cache'["api"] = table /\ stripeKey' = KeyOf(table)
      /\ \A b \in Requests : req'[b].pc = "idle"
  BY <1>0 DEF RestartAPI, Process, Idle
<1>2. KeyOf(table).version = table.version /\ KeyOf(table).value = Get(table, StripeKey)
  BY <1>0, SnapshotKey
<1>3. (\A s : Live(s)' => s = table) /\ (\A s : LiveKey(s)' => s = KeyOf(table))
  BY <1>1 DEF Live, LiveKey
<1>4. Versions'
  BY <1>0, <1>1, <1>2, <1>3 DEF Versions
<1>5. KeySince(table.version)'
  BY <1>0, <1>1, <1>2, <1>3 DEF KeySince
<1> QED BY <1>0, <1>1, <1>4, <1>5 DEF CacheInv

LEMMA CacheStep ==
  ASSUME TypeInv, CacheInv, [Next]_vars
  PROVE  CacheInv'
<1>1. ASSUME NEW a \in Requests, ReadFails(a) PROVE CacheInv'
  <2>1. /\ req \in [Requests -> Request] /\ Idle.pc = "idle"
    BY DEF TypeInv, Idle
  <2>2. /\ req' = [req EXCEPT ![a] = Idle] /\ missed' = TRUE
        /\ UNCHANGED <<table, cache, stripeKey>>
    BY <1>1 DEF ReadFails
  <2>3. (\A s : Live(s)' => Live(s)) /\ (\A s : LiveKey(s)' => LiveKey(s))
    BY <2>1, <2>2 DEF Live, LiveKey
  <2> QED BY <2>2, <2>3 DEF CacheInv, Versions
<1> QED
  BY <1>1, CacheSteps, QuietCache, CommitCache, CommitUnknownCache, ReadTableCache,
     SwapCache, GetKeyCache, SetKeyCache, RestartCache

\* Between changes the API works with what the table says and with its key,
\* unless a reload has failed, a COMMIT has taken effect and returned an error, or
\* an older reload was stored after a newer one.
THEOREM CacheCorrect == Spec => []CacheIsCurrent
BY InitCache, CacheStep, CacheInvImplies, Types, PTL DEF Spec
=============================================================================
