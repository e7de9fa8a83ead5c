---------------------------- MODULE GeoIPManager ----------------------------
(***************************************************************************)
(* src/control_plane/geoip.go: the two GeoIP databases, which requests look *)
(* codes up in while others reload them.  A lookup reads the cache under   *)
(* mu.RLock, gives that up, takes mu.Lock and computes what is missing.    *)
(*                                                                         *)
(* A database file is a number, its generation, and the answer for a code  *)
(* is the generation it was computed from.  Each critical section is one   *)
(* step after the one that takes the lock.  Sizes, versions, times and the *)
(* counters of hits and misses are left out, and so is resolvePath, which  *)
(* chooses between two places of the same file.                            *)
(***************************************************************************)
EXTENDS Integers

CONSTANTS
    Requests,   \* requests the server runs at once
    Codes,      \* database |-> the codes that are looked up in it
    EarlierDisks, \* the database files there may be at first
    MaxUpdates  \* bound: changes of the database files

Databases == {"asn", "country"}

Nobody == "nobody"
None == 0           \* no reader, nothing cached, or no file that opens
OtherType == -1     \* a database file of another type
Panic == -2         \* the answer of a request that used a nil reader
Pending == -3
Generations == 1 .. MaxUpdates + 1

ASSUME GeoIPAssumption ==
    /\ MaxUpdates \in Nat
    /\ EarlierDisks \subseteq [Databases -> {1, OtherType, None}]
    /\ DOMAIN Codes = Databases /\ Codes["country"] # {}

VARIABLES
    disk,       \* database |-> the file: a generation, OtherType or None
    reader,     \* database |-> asnReader, countryReader
    loaded,     \* database |-> asnLoaded, countryLoaded
    cache,      \* database |-> code |-> asnCache, countryCache
    handles,    \* database |-> readers opened and not closed
    readers,    \* requests that hold mu as readers,
    writer,     \* the one that holds it as writer
    pc, db, code, answer,   \* of each request
    updates,    \* history: changes of files so far
    seen        \* history: what the database of a request was, since it began

files == <<disk, updates>>
manager == <<reader, loaded, cache, handles>>
mu == <<readers, writer>>
requests == <<pc, db, code, answer, seen>>
geoVars == <<files, manager, mu, requests>>

Opens(d) == disk[d] # None
Fits(d) == disk[d] \in Generations
NothingCached == [d \in Databases |-> [c \in Codes[d] |-> None]]

\* Mutant: a file of the wrong type stays open.
Closed_OnlyOld(d) == IF Fits(d) /\ reader[d] # None THEN 1 ELSE 0

\* What Reload closes: a file of the wrong type, or the reader it replaces.
Closed(d) == IF disk[d] = OtherType \/ (Fits(d) /\ reader[d] # None) THEN 1 ELSE 0

\* Mutant: the caches outlive the databases they were computed from.
Reloaded_KeepCache ==
    /\ reader' = [d \in Databases |-> IF Fits(d) THEN disk[d] ELSE reader[d]]
    /\ loaded' = [d \in Databases |-> loaded[d] \/ Fits(d)]
    /\ handles' = [d \in Databases |-> handles[d] + (IF Opens(d) THEN 1 ELSE 0) - Closed(d)]
    /\ UNCHANGED cache

\* Reload: a database whose file does not fit keeps its reader.
Reloaded ==
    /\ cache' = NothingCached
    /\ reader' = [d \in Databases |-> IF Fits(d) THEN disk[d] ELSE reader[d]]
    /\ loaded' = [d \in Databases |-> loaded[d] \/ Fits(d)]
    /\ handles' = [d \in Databases |-> handles[d] + (IF Opens(d) THEN 1 ELSE 0) - Closed(d)]

\* The lookups under way see what the readers become.
Witnessed ==
    seen' = [h \in Requests |->
        IF pc[h] \in {"lookup", "cached", "missed", "fill"}
        THEN seen[h] \cup {reader'[db[h]]} ELSE seen[h]]

-----------------------------------------------------------------------------
(* Requests *)

Goes(h, from, to) == pc[h] = from /\ pc' = [pc EXCEPT ![h] = to]
Finishes(h, from, a) == Goes(h, from, "done") /\ answer' = [answer EXCEPT ![h] = a]

BeginLookup(h, d, c) ==
    /\ Goes(h, "idle", "lookup")
    /\ db' = [db EXCEPT ![h] = d]
    /\ code' = [code EXCEPT ![h] = c]
    /\ seen' = [seen EXCEPT ![h] = {reader[d]}]
    /\ UNCHANGED <<files, manager, mu, answer>>

\* handleGeoIPReload, and handleGeoIPHealth or the closure behind /health.
BeginOther(h) ==
    /\ Goes(h, "idle", "reload") \/ Goes(h, "idle", "health")
    /\ UNCHANGED <<files, manager, mu, db, code, answer, seen>>

RLock(h) ==
    /\ writer = Nobody
    /\ Goes(h, "lookup", "cached") \/ Goes(h, "health", "report")
    /\ readers' = readers \cup {h}
    /\ UNCHANGED <<files, manager, writer, db, code, answer, seen>>

Report(h) ==
    /\ Finishes(h, "report", None)
    /\ readers' = readers \ {h}
    /\ UNCHANGED <<files, manager, writer, db, code, seen>>

\* The first half of GetCountryCIDRs and GetASNCIDRs.
CacheHit(h) ==
    /\ cache[db[h]][code[h]] # None
    /\ Finishes(h, "cached", cache[db[h]][code[h]])
    /\ readers' = readers \ {h}
    /\ UNCHANGED <<files, manager, writer, db, code, seen>>

\* Mutant: the early return forgets mu.RUnlock.
Degraded_Locked(h) ==
    /\ cache[db[h]][code[h]] = None
    /\ ~loaded[db[h]] \/ reader[db[h]] = None
    /\ Finishes(h, "cached", None)
    /\ UNCHANGED <<files, manager, mu, db, code, seen>>

Degraded(h) ==
    /\ cache[db[h]][code[h]] = None
    /\ ~loaded[db[h]] \/ reader[db[h]] = None
    /\ Finishes(h, "cached", None)
    /\ readers' = readers \ {h}
    /\ UNCHANGED <<files, manager, writer, db, code, seen>>

CacheMiss(h) ==
    /\ cache[db[h]][code[h]] = None /\ loaded[db[h]] /\ reader[db[h]] # None
    /\ Goes(h, "cached", "missed")
    /\ readers' = readers \ {h}
    /\ UNCHANGED <<files, manager, writer, db, code, answer, seen>>

Lock(h) ==
    /\ writer = Nobody /\ readers = {}
    /\ Goes(h, "missed", "fill") \/ Goes(h, "reload", "swap")
    /\ writer' = h
    /\ UNCHANGED <<files, manager, readers, db, code, answer, seen>>

\* The second half: the cache is looked at again, the reader is not.  A nil reader
\* panics in Networks; net/http recovers, and the deferred Unlock runs.
Fill(h) ==
    LET cached == cache[db[h]][code[h]]
        found == IF cached # None THEN cached ELSE reader[db[h]]
    IN  /\ Finishes(h, "fill", IF found = None THEN Panic ELSE found)
        /\ cache' = [cache EXCEPT ![db[h]][code[h]] = found]
        /\ writer' = Nobody
        /\ UNCHANGED <<files, reader, loaded, handles, readers, db, code, seen>>

Swap(h) ==
    /\ Finishes(h, "swap", None)
    /\ Reloaded
    /\ writer' = Nobody
    /\ Witnessed
    /\ UNCHANGED <<files, readers, db, code>>

Return(h) ==
    /\ Goes(h, "done", "idle")
    /\ answer' = [answer EXCEPT ![h] = Pending]
    /\ seen' = [seen EXCEPT ![h] = {}]
    /\ UNCHANGED <<files, manager, mu, db, code>>

Begin(h) == BeginOther(h) \/ \E d \in Databases : \E c \in Codes[d] : BeginLookup(h, d, c)
TakeLock(h) == RLock(h) \/ Lock(h)
Step(h) ==
    \/ Report(h) \/ CacheHit(h) \/ Degraded(h) \/ CacheMiss(h)
    \/ Fill(h) \/ Swap(h) \/ Return(h)

\* Somebody replaces, breaks or removes a database file.
UpdateFile(d) ==
    /\ updates < MaxUpdates
    /\ updates' = updates + 1
    /\ \E x \in {updates + 2, OtherType, None} \ {disk[d]} : disk' = [disk EXCEPT ![d] = x]
    /\ UNCHANGED <<manager, mu, requests>>

-----------------------------------------------------------------------------
(* What main does with the manager *)

NoCode == CHOOSE c \in Codes["country"] : TRUE
Each(x) == [d \in Databases |-> x]
All(x) == [h \in Requests |-> x]

GeoInit ==
    /\ disk \in EarlierDisks
    /\ updates = 0
    /\ reader = Each(None) /\ loaded = Each(FALSE) /\ handles = Each(0)
    /\ cache = NothingCached
    /\ readers = {} /\ writer = Nobody
    /\ pc = All("idle") /\ answer = All(Pending) /\ seen = All({})
    /\ db = All("country") /\ code = All(NoCode)

\* The process ends, and its memory and open files with it.
Forget ==
    /\ reader' = Each(None) /\ loaded' = Each(FALSE) /\ handles' = Each(0)
    /\ cache' = NothingCached
    /\ readers' = {} /\ writer' = Nobody
    /\ pc' = All("idle") /\ answer' = All(Pending) /\ seen' = All({})
    /\ db' = All("country") /\ code' = All(NoCode)
    /\ UNCHANGED files

\* Mutant: no look at whether there is a reader.
CloseReaders_Unchecked ==
    /\ writer = Nobody /\ readers = {}
    /\ reader' = Each(None)
    /\ handles' = [d \in Databases |-> handles[d] - 1]
    /\ Witnessed
    /\ UNCHANGED <<files, loaded, cache, mu, pc, db, code, answer>>

\* Close: the readers go, the caches and the loaded flags stay.
CloseReaders ==
    /\ writer = Nobody /\ readers = {}
    /\ reader' = Each(None)
    /\ handles' = [d \in Databases |-> IF reader[d] = None THEN handles[d] ELSE handles[d] - 1]
    /\ Witnessed
    /\ UNCHANGED <<files, loaded, cache, mu, pc, db, code, answer>>

-----------------------------------------------------------------------------
GeoTypeOK ==
    /\ disk \in [Databases -> Generations \cup {None, OtherType}]
    /\ reader \in [Databases -> Generations \cup {None}]
    /\ loaded \in [Databases -> BOOLEAN]
    /\ handles \in [Databases -> Nat]
    /\ DOMAIN cache = Databases
    /\ \A d \in Databases : cache[d] \in [Codes[d] -> Generations \cup {None}]
    /\ readers \subseteq Requests /\ writer \in Requests \cup {Nobody}
    /\ pc \in [Requests -> {"idle", "lookup", "cached", "missed", "fill",
                            "reload", "swap", "health", "report", "done"}]
    /\ db \in [Requests -> Databases]
    /\ DOMAIN code = Requests
    /\ \A h \in Requests : code[h] \in Codes[db[h]]
    /\ answer \in [Requests -> Generations \cup {None, Panic, Pending}]
    /\ updates \in 0 .. MaxUpdates
    /\ seen \in [Requests -> SUBSET (Generations \cup {None})]

\* The ranges a lookup answers with, or its refusal ("degraded mode", geoip.go:150),
\* are those of a database that was open at some time during the request: none
\* comes out of a cache that a reload has overtaken.
AnswerCurrent ==
    \A h \in Requests :
        (pc[h] = "done" /\ seen[h] # {} /\ answer[h] # Panic) => answer[h] \in seen[h]

\* geoip.go:92 "keeps the old database if there is one": every reload, of good, bad
\* and missing files in any order, leaves the reader in use open and no other.
HandlesExact ==
    \A d \in Databases : handles[d] = IF reader[d] = None THEN 0 ELSE 1
=============================================================================
