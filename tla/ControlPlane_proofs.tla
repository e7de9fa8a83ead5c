------------------------- MODULE ControlPlane_proofs -------------------------
(***************************************************************************)
(* Proofs about ControlPlane for any requests, codes and number of starts. *)
(* The kernel's side needs only main's own variables.  The GeoIP side rests *)
(* on two facts: what a cache holds is what its reader would say, until    *)
(* the readers are closed; and no request is left by then, unless Shutdown *)
(* gave up.                                                                *)
(***************************************************************************)
EXTENDS ControlPlane, TLAPS

Phases == {"down", "loading", "pinned", "ready", "serving", "draining",
           "drained", "unpinned", "closing", "closed"}
Early == {"down", "loading", "pinned"}
Up == {"ready", "serving", "draining", "drained"}

\* The kernel holds what this start put there, and nothing of it after the stop,
\* unless the history says that something was left.
KernelInv ==
    /\ phase \in Phases
    /\ mapMgr => phase \notin Early
    /\ ~orphaned => pins = IF phase = "pinned" \/ (mapMgr /\ phase \in Up)
                           THEN generation ELSE None
    /\ (mapMgr /\ phase \in Up \cup {"unpinned"}) => attached = generation
    /\ (~undetached /\ ~(mapMgr /\ phase \in Up \cup {"unpinned"})) => attached = None

LEMMA KernelInit == Init => KernelInv
  BY DEF Init, KernelInv, Phases, Early, Up

\* A step of main or a crash; requests and files leave the kernel alone.
LEMMA KernelNext == KernelInv /\ [Next]_vars => KernelInv'
  <1> SUFFICES ASSUME KernelInv, [Next]_vars PROVE KernelInv'
    OBVIOUS
  <1> USE DEF KernelInv, Phases, Early, Up, Moves, kernel, past
  <1>1. CASE Start
    BY <1>1 DEF Start
  <1>2. CASE LoadFails
    BY <1>2 DEF LoadFails
  <1>3. CASE LoadAndPin
    BY <1>3 DEF LoadAndPin
  <1>4. CASE AttachFails
    BY <1>4 DEF AttachFails
  <1>5. CASE Attach
    BY <1>5 DEF Attach
  <1>6. CASE Serve
    BY <1>6 DEF Serve
  <1>7. CASE Signal
    BY <1>7 DEF Signal
  <1>8. CASE Shutdown
    BY <1>8 DEF Shutdown
  <1>9. CASE UnpinMaps
    BY <1>9 DEF UnpinMaps
  <1>10. CASE Close
    BY <1>10 DEF Close
  <1>11. CASE CloseGeoIP
    BY <1>11 DEF CloseGeoIP
  <1>12. CASE Exit
    BY <1>12 DEF Exit, Ends
  <1>13. CASE Crash
    BY <1>13 DEF Crash, Ends, Running
  <1>14. CASE UNCHANGED lifeVars
    BY <1>14 DEF lifeVars
  <1>15. QED
    BY <1>1, <1>2, <1>3, <1>4, <1>5, <1>6, <1>7, <1>8, <1>9, <1>10, <1>11, <1>12, <1>13, <1>14
    DEF Next, Update, Request, vars

\* The pins lead to the maps of the running program, over any number of starts, stops
\* and failed attaches, unless a start left its own.
THEOREM PinsAreOwn == Spec => []PinsOwn
  <1>1. KernelInv => PinsOwn
    BY DEF KernelInv, PinsOwn, Up
  <1>2. QED
    BY <1>1, KernelInit, KernelNext, PTL DEF Spec

\* What filters is the program whose maps the control plane changes.
THEOREM FilterIsOwn == Spec => []FilterOwn
  <1>1. KernelInv => FilterOwn
    BY DEF KernelInv, FilterOwn, Up
  <1>2. QED
    BY <1>1, KernelInit, KernelNext, PTL DEF Spec

-----------------------------------------------------------------------------
\* A reader in use is open, once; a database without a reader has no open file.
HandlesInv ==
    /\ disk \in [Databases -> Generations \cup {None, OtherType}]
    /\ updates \in 0 .. MaxUpdates
    /\ reader \in [Databases -> Generations \cup {None}]
    /\ DOMAIN handles = Databases
    /\ HandlesExact

\* Reload, whatever the files are, in a running manager or a new one.
LEMMA ReloadKeepsHandles ==
    ASSUME HandlesInv, Reloaded, UNCHANGED files
    PROVE  HandlesInv'
  <1> USE GeoIPAssumption DEF HandlesInv, HandlesExact, files
  <1>1. /\ reader' \in [Databases -> Generations \cup {None}]
        /\ DOMAIN handles' = Databases
    BY DEF Reloaded, Fits
  <1>2. ASSUME NEW d \in Databases
        PROVE  handles'[d] = IF reader'[d] = None THEN 0 ELSE 1
    <2>1. None \notin Generations /\ OtherType \notin Generations /\ None # OtherType
      BY DEF None, OtherType, Generations
    <2>2. CASE disk[d] = None
      BY <2>1, <2>2 DEF Reloaded, Fits, Opens, Closed
    <2>3. CASE disk[d] = OtherType
      BY <2>1, <2>3 DEF Reloaded, Fits, Opens, Closed
    <2>4. CASE disk[d] \in Generations
      BY <2>1, <2>4 DEF Reloaded, Fits, Opens, Closed
    <2>5. QED
      BY <2>2, <2>3, <2>4
  <1>3. QED
    BY <1>1, <1>2

LEMMA HandlesInit == Init => HandlesInv
  BY GeoIPAssumption DEF Init, GeoInit, Each, HandlesInv, HandlesExact, None, OtherType, Generations

LEMMA HandlesNext == HandlesInv /\ [Next]_vars => HandlesInv'
  <1> SUFFICES ASSUME HandlesInv, [Next]_vars PROVE HandlesInv'
    OBVIOUS
  <1>1. CASE Reloaded /\ UNCHANGED files
    BY <1>1, ReloadKeepsHandles
  <1>2. CASE CloseReaders
    BY <1>2 DEF CloseReaders, Each, HandlesInv, HandlesExact, files
  <1>3. CASE Forget
    BY <1>3 DEF Forget, Each, HandlesInv, HandlesExact, files
  <1>4. CASE UNCHANGED <<files, reader, handles>>
    BY <1>4 DEF HandlesInv, HandlesExact, files
  <1>5. CASE Update
    <2> PICK d \in Databases : UpdateFile(d)
      BY <1>5 DEF Update
    <2> PICK x \in {updates + 2, OtherType, None} : disk' = [disk EXCEPT ![d] = x]
      BY DEF UpdateFile
    <2>1. x \in Generations \cup {None, OtherType} /\ updates' \in 0 .. MaxUpdates
      BY GeoIPAssumption DEF UpdateFile, HandlesInv, Generations, None, OtherType
    <2>2. UNCHANGED <<reader, handles>>
      BY DEF UpdateFile, manager
    <2>3. QED
      BY <2>1, <2>2 DEF HandlesInv, HandlesExact
  <1>6. QED
    <2>1. ASSUME NEW h \in Requests, Request(h)
          PROVE  HandlesInv'
      <3>1. CASE Begin(h) \/ TakeLock(h)
        BY <3>1, <1>4 DEF Begin, BeginOther, BeginLookup, TakeLock, RLock, Lock, manager
      <3>2. CASE Swap(h)
        BY <3>2, <1>1 DEF Swap
      <3>3. CASE Step(h) /\ ~Swap(h)
        BY <3>3, <1>4 DEF Step, Report, CacheHit, Degraded, CacheMiss, Fill, Return, manager
      <3>4. QED
        BY <2>1, <3>1, <3>2, <3>3 DEF Request
    <2>2. CASE Start
      BY <2>2, <1>1 DEF Start
    <2>3. CASE CloseGeoIP
      BY <2>3, <1>2 DEF CloseGeoIP
    <2>4. CASE Exit \/ Crash
      BY <2>4, <1>3 DEF Exit, Crash, Ends
    <2>5. CASE LoadFails \/ LoadAndPin \/ AttachFails \/ Attach \/ Serve \/ Signal \/ Shutdown
                 \/ UnpinMaps \/ Close \/ UNCHANGED vars
      BY <2>5, <1>4
      DEF LoadFails, LoadAndPin, AttachFails, Attach, Serve, Signal, Shutdown, UnpinMaps,
          Close, vars, geoVars, manager
    <2>6. QED
      BY <1>5, <2>1, <2>2, <2>3, <2>4, <2>5 DEF Next

\* No reload leaks an open database or closes the one in use.
THEOREM HandlesAreExact == Spec => []HandlesExact
  <1>1. HandlesInv => HandlesExact
    BY DEF HandlesInv
  <1>2. QED
    BY <1>1, HandlesInit, HandlesNext, PTL DEF Spec

-----------------------------------------------------------------------------
PcValues == {"idle", "lookup", "cached", "missed", "fill",
             "reload", "swap", "health", "report", "done"}

Booleans ==
    /\ mapMgr \in BOOLEAN /\ dropped \in BOOLEAN
    /\ orphaned \in BOOLEAN /\ undetached \in BOOLEAN /\ overrun \in BOOLEAN

\* The types, with what the two counts need.
TypeInv == TypeOK /\ HandlesInv /\ KernelInv

LEMMA TypeInit == Init => TypeInv
  <1> SUFFICES ASSUME Init PROVE TypeInv
    OBVIOUS
  <1>1. HandlesInv /\ KernelInv
    BY HandlesInit, KernelInit
  <1>2. NoCode \in Codes["country"]
    BY GeoIPAssumption DEF NoCode
  <1>3. GeoTypeOK
    BY <1>1, <1>2, GeoIPAssumption
    DEF Init, GeoInit, Each, All, GeoTypeOK, HandlesInv, HandlesExact, NothingCached, Databases
  <1>4. /\ generation \in 0 .. MaxStarts
        /\ attached \in 0 .. MaxStarts /\ pins \in 0 .. MaxStarts
    BY ControlPlaneAssumption DEF Init, None
  <1>5. Booleans
    BY DEF Init, Booleans
  <1>6. TypeOK
    BY <1>3, <1>4, <1>5 DEF Init, TypeOK, Booleans
  <1>7. QED
    BY <1>1, <1>6 DEF TypeInv

\* A step of a request keeps the types of the manager and of the requests.
LEMMA StepTypes ==
    ASSUME TypeInv, NEW h \in Requests, Begin(h) \/ TakeLock(h) \/ Step(h), HandlesInv'
    PROVE  GeoTypeOK'
  <1> USE DEF TypeInv, TypeOK, GeoTypeOK, Goes, Finishes, files, manager, mu
  <1>1. CASE BeginOther(h)
    BY <1>1 DEF BeginOther
  <1>2. ASSUME NEW d \in Databases, NEW c \in Codes[d], BeginLookup(h, d, c)
        PROVE  GeoTypeOK'
    BY <1>2 DEF BeginLookup
  <1>3. CASE RLock(h)
    BY <1>3 DEF RLock
  <1>4. CASE Lock(h)
    BY <1>4 DEF Lock
  <1>5. CASE Report(h)
    BY <1>5 DEF Report
  <1>6. CASE CacheHit(h)
    BY <1>6 DEF CacheHit
  <1>7. CASE Degraded(h)
    BY <1>7 DEF Degraded
  <1>8. CASE CacheMiss(h)
    BY <1>8 DEF CacheMiss
  <1>9. CASE Fill(h)
    <2> DEFINE cached == cache[db[h]][code[h]]
               found == IF cached # None THEN cached ELSE reader[db[h]]
    <2>1. found \in Generations \cup {None}
      OBVIOUS
    <2>2. cache' = [cache EXCEPT ![db[h]][code[h]] = found]
      BY <1>9 DEF Fill
    <2>3. DOMAIN cache' = Databases /\ \A d \in Databases : cache'[d] \in [Codes[d] -> Generations \cup {None}]
      <3> HIDE DEF found
      <3> QED BY <2>1, <2>2
    <2>4. QED
      BY <2>1, <2>3, <1>9 DEF Fill
  <1>10. CASE Swap(h)
    <2>1. reader' \in [Databases -> Generations \cup {None}] /\ handles' \in [Databases -> Nat]
      BY <1>10 DEF Swap, HandlesInv, HandlesExact, Reloaded
    <2>2. loaded' \in [Databases -> BOOLEAN]
      BY <1>10 DEF Swap, Reloaded, Fits
    <2>3. DOMAIN cache' = Databases /\ \A d \in Databases : cache'[d] \in [Codes[d] -> Generations \cup {None}]
      BY <1>10 DEF Swap, Reloaded, NothingCached
    <2>4. seen' \in [Requests -> SUBSET (Generations \cup {None})]
      BY <1>10, <2>1 DEF Swap, Witnessed
    <2>5. QED
      BY <1>10, <2>1, <2>2, <2>3, <2>4 DEF Swap
  <1>11. CASE Return(h)
    BY <1>11 DEF Return
  <1>12. QED
    BY <1>1, <1>2, <1>3, <1>4, <1>5, <1>6, <1>7, <1>8, <1>9, <1>10, <1>11 DEF Begin, TakeLock, Step

LEMMA TypeNext == TypeInv /\ [Next]_vars => TypeInv'
  <1> SUFFICES ASSUME TypeInv, [Next]_vars PROVE TypeInv'
    OBVIOUS
  <1>1. HandlesInv' /\ KernelInv'
    BY HandlesNext, KernelNext DEF TypeInv
  <1>2. GeoTypeOK'
    <2>1. ASSUME NEW h \in Requests, Request(h)
          PROVE  GeoTypeOK'
      BY <2>1, <1>1, StepTypes DEF Request
    <2>2. CASE Start
      <3>1. handles' \in [Databases -> Nat]
        BY <1>1, <2>2 DEF HandlesInv, HandlesExact, Start, Reloaded
      <3>2. reader' \in [Databases -> Generations \cup {None}] /\ loaded' \in [Databases -> BOOLEAN]
        BY <1>1, <2>2 DEF HandlesInv, Start, Reloaded, Fits, TypeInv, TypeOK, GeoTypeOK
      <3>3. DOMAIN cache' = Databases /\ \A d \in Databases : cache'[d] \in [Codes[d] -> Generations \cup {None}]
        BY <2>2 DEF Start, Reloaded, NothingCached
      <3>4. QED
        BY <2>2, <3>1, <3>2, <3>3 DEF Start, TypeInv, TypeOK, GeoTypeOK, files, mu, requests
    <2>3. CASE CloseGeoIP
      <3>1. seen' \in [Requests -> SUBSET (Generations \cup {None})]
        BY <2>3 DEF CloseGeoIP, CloseReaders, Witnessed, Each, TypeInv, TypeOK, GeoTypeOK
      <3>2. handles' \in [Databases -> Nat] /\ reader' \in [Databases -> Generations \cup {None}]
        BY <1>1, <2>3 DEF CloseGeoIP, CloseReaders, Each, HandlesInv, HandlesExact
      <3>3. QED
        BY <2>3, <3>1, <3>2 DEF CloseGeoIP, CloseReaders, TypeInv, TypeOK, GeoTypeOK, files, mu
    <2>4. CASE Exit \/ Crash
      <3>1. NoCode \in Codes["country"]
        BY GeoIPAssumption DEF NoCode
      <3>2. Forget
        BY <2>4 DEF Exit, Crash, Ends
      <3>3. /\ reader' \in [Databases -> Generations \cup {None}]
            /\ loaded' \in [Databases -> BOOLEAN]
            /\ handles' \in [Databases -> Nat]
        BY <3>2 DEF Forget, Each
      <3>4. /\ DOMAIN cache' = Databases
            /\ \A d \in Databases : cache'[d] \in [Codes[d] -> Generations \cup {None}]
        BY <3>2 DEF Forget, NothingCached
      <3>5. /\ DOMAIN code' = Requests /\ db' \in [Requests -> Databases]
            /\ \A h \in Requests : code'[h] \in Codes[db'[h]]
        BY <3>1, <3>2 DEF Forget, All, Databases
      <3>6. /\ pc' \in [Requests -> PcValues]
            /\ answer' \in [Requests -> Generations \cup {None, Panic, Pending}]
            /\ seen' \in [Requests -> SUBSET (Generations \cup {None})]
            /\ readers' \subseteq Requests /\ writer' \in Requests \cup {Nobody}
        BY <3>2 DEF Forget, All, PcValues
      <3>7. QED
        BY <3>2, <3>3, <3>4, <3>5, <3>6
        DEF Forget, PcValues, TypeInv, TypeOK, GeoTypeOK, files
    <2>5. CASE Update
      BY <2>5, <1>1
      DEF Update, UpdateFile, HandlesInv, TypeInv, TypeOK, GeoTypeOK, manager, mu, requests
    <2>6. CASE UNCHANGED geoVars
      BY <2>6 DEF geoVars, files, manager, mu, requests, TypeInv, TypeOK, GeoTypeOK
    <2>7. QED
      BY <2>1, <2>2, <2>3, <2>4, <2>5, <2>6
      DEF Next, vars, LoadFails, LoadAndPin, AttachFails, Attach, Serve, Signal, Shutdown, UnpinMaps, Close
  <1>3. /\ generation' \in 0 .. MaxStarts
        /\ attached' \in 0 .. MaxStarts /\ pins' \in 0 .. MaxStarts
    <2> USE ControlPlaneAssumption DEF TypeInv, TypeOK, None, kernel, past, lifeVars
    <2>1. CASE Start
      BY <2>1 DEF Start
    <2>2. CASE LoadFails \/ LoadAndPin \/ AttachFails \/ Attach \/ Serve
      BY <2>2 DEF LoadFails, LoadAndPin, AttachFails, Attach, Serve
    <2>3. CASE Signal \/ CloseGeoIP
      BY <2>3 DEF Signal, CloseGeoIP
    <2>4. CASE Shutdown
      BY <2>4 DEF Shutdown
    <2>5. CASE UnpinMaps
      BY <2>5 DEF UnpinMaps
    <2>6. CASE Close
      BY <2>6 DEF Close
    <2>7. CASE Exit \/ Crash
      BY <2>7 DEF Exit, Crash, Ends
    <2>8. CASE UNCHANGED lifeVars
      BY <2>8
    <2>9. QED
      BY <2>1, <2>2, <2>3, <2>4, <2>5, <2>6, <2>7, <2>8 DEF Next, Update, Request, vars
  <1>4. Booleans'
    <2> USE DEF TypeInv, TypeOK, Booleans, kernel, past, lifeVars
    <2>1. CASE Start
      BY <2>1 DEF Start
    <2>2. CASE LoadFails \/ LoadAndPin \/ AttachFails \/ Attach \/ Serve
      BY <2>2 DEF LoadFails, LoadAndPin, AttachFails, Attach, Serve
    <2>3. CASE Signal \/ CloseGeoIP
      BY <2>3 DEF Signal, CloseGeoIP
    <2>4. CASE Shutdown
      BY <2>4 DEF Shutdown
    <2>5. CASE UnpinMaps
      <3>1. orphaned' = FALSE \/ orphaned' = (pins # None)
        BY <2>5 DEF UnpinMaps
      <3>2. orphaned' \in BOOLEAN
        BY <3>1, Zenon
      <3>3. QED
        BY <2>5, <3>2 DEF UnpinMaps
    <2>6. CASE Close
      BY <2>6 DEF Close
    <2>7. CASE Exit \/ Crash
      BY <2>7 DEF Exit, Crash, Ends
    <2>8. CASE UNCHANGED lifeVars
      BY <2>8
    <2>9. QED
      BY <2>1, <2>2, <2>3, <2>4, <2>5, <2>6, <2>7, <2>8 DEF Next, Update, Request, vars
  <1>5. TypeOK'
    BY <1>1, <1>2, <1>3, <1>4 DEF TypeOK, KernelInv, Phases, Booleans
  <1>6. QED
    BY <1>1, <1>5 DEF TypeInv

LEMMA TypeInvariant == Spec => []TypeInv
  BY TypeInit, TypeNext, PTL DEF Spec

\* Every variable of the manager, the requests and main stays in its range.
THEOREM TypeCorrect == Spec => []TypeOK
  <1>1. TypeInv => TypeOK
    BY DEF TypeInv
  <1>2. QED
    BY <1>1, TypeInvariant, PTL

-----------------------------------------------------------------------------
Looking == {"lookup", "cached", "missed", "fill"}
Quiet == {"down", "loading", "pinned", "ready"}
Drained == {"drained", "unpinned", "closing", "closed"}

\* Main serves requests only in between, and ends without any unless Shutdown gave up.
PhaseInv ==
    /\ overrun => phase \in Drained
    /\ (phase \in Quiet \/ (phase \in Drained /\ ~overrun)) => \A h \in Requests : pc[h] = "idle"

\* Before the readers are closed a cache says what its reader would.
CacheInv ==
    /\ phase # "closed" => \A d \in Databases : \A c \in Codes[d] : cache[d][c] \in {None, reader[d]}
    /\ \A d \in Databases : reader[d] # None => loaded[d]

\* A lookup under way can only find what its database was at some time.
LookupInv ==
    \A h \in Requests :
        /\ pc[h] \in Looking =>
            /\ reader[db[h]] \in seen[h]
            /\ \A c \in Codes[db[h]] : cache[db[h]][c] \in seen[h] \cup {None}
        /\ pc[h] \notin Looking \cup {"done"} => seen[h] = {}
        /\ pc[h] \in {"missed", "fill"} => reader[db[h]] # None \/ overrun

RequestInv == TypeInv /\ PhaseInv /\ CacheInv /\ LookupInv /\ AnswerCurrent /\ NoNilReader

LEMMA RequestInit == Init => RequestInv
  <1> SUFFICES ASSUME Init PROVE RequestInv
    OBVIOUS
  <1>1. TypeInv
    BY TypeInit
  <1>2. PhaseInv /\ AnswerCurrent /\ NoNilReader
    BY DEF Init, GeoInit, All, PhaseInv, AnswerCurrent, NoNilReader, Quiet, Drained, Panic, Pending
  <1>3. CacheInv /\ LookupInv
    BY DEF Init, GeoInit, All, Each, NothingCached, CacheInv, LookupInv, Looking
  <1>4. QED
    BY <1>1, <1>2, <1>3 DEF RequestInv

\* One step of a request.
LEMMA StepInv ==
    ASSUME RequestInv, TypeInv', NEW h \in Requests,
           (phase = "serving" /\ Begin(h)) \/ TakeLock(h) \/ Step(h), UNCHANGED lifeVars
    PROVE  PhaseInv' /\ CacheInv' /\ LookupInv' /\ AnswerCurrent' /\ NoNilReader'
  <1>1. UNCHANGED <<phase, overrun>>
    BY DEF lifeVars, past
  <1>2. /\ pc \in [Requests -> PcValues] /\ db \in [Requests -> Databases]
        /\ answer \in [Requests -> Generations \cup {None, Panic, Pending}]
        /\ reader \in [Databases -> Generations \cup {None}]
        /\ loaded \in [Databases -> BOOLEAN]
        /\ DOMAIN code = Requests
        /\ \A x \in Requests : code[x] \in Codes[db[x]]
        /\ DOMAIN cache = Databases
        /\ \A d \in Databases : cache[d] \in [Codes[d] -> Generations \cup {None}]
        /\ seen \in [Requests -> SUBSET (Generations \cup {None})]
    BY DEF RequestInv, TypeInv, TypeOK, GeoTypeOK, PcValues
  <1>3. None \notin Generations /\ Panic \notin Generations /\ Pending \notin Generations
        /\ None # Panic /\ Panic # Pending
    BY DEF None, Panic, Pending, Generations
  <1> USE <1>1, <1>2, <1>3
          DEF RequestInv, PhaseInv, CacheInv, LookupInv, AnswerCurrent, NoNilReader,
              Looking, Quiet, Drained, Goes, Finishes, files, manager, mu
  <1>5. CASE phase = "serving" /\ BeginOther(h)
    BY <1>5 DEF BeginOther
  <1>6. ASSUME phase = "serving", NEW d \in Databases, NEW c \in Codes[d], BeginLookup(h, d, c)
        PROVE  PhaseInv' /\ CacheInv' /\ LookupInv' /\ AnswerCurrent' /\ NoNilReader'
    BY <1>6 DEF BeginLookup
  <1>7. CASE RLock(h)
    BY <1>7 DEF RLock
  <1>8. CASE Lock(h)
    BY <1>8 DEF Lock
  <1>9. CASE Report(h)
    BY <1>9 DEF Report
  <1>10. CASE CacheHit(h)
    BY <1>10 DEF CacheHit
  <1>11. CASE Degraded(h)
    BY <1>11 DEF Degraded
  <1>12. CASE CacheMiss(h)
    BY <1>12 DEF CacheMiss
  <1>13. CASE Fill(h)
    <2> DEFINE cached == cache[db[h]][code[h]]
               found == IF cached # None THEN cached ELSE reader[db[h]]
    <2>1. /\ pc[h] = "fill" /\ pc' = [pc EXCEPT ![h] = "done"]
          /\ answer' = [answer EXCEPT ![h] = IF found = None THEN Panic ELSE found]
          /\ cache' = [cache EXCEPT ![db[h]][code[h]] = found]
          /\ UNCHANGED <<reader, loaded, db, code, seen>>
      BY <1>13 DEF Fill
    <2>2. found \in seen[h] \cup {None} /\ (found = None => overrun)
      BY <2>1
    <2>3. phase # "closed" => found \in {None, reader[db[h]]}
      OBVIOUS
    <2>4. \A d \in Databases : \A c \in Codes[d] :
            cache'[d][c] = IF d = db[h] /\ c = code[h] THEN found ELSE cache[d][c]
      <3> HIDE DEF found
      <3> QED BY <2>1
    <2>5. found # None => cached = found \/ reader[db[h]] = found
      OBVIOUS
    <2> HIDE DEF found
    <2>6. CacheInv'
      BY <2>1, <2>3, <2>4
    <2>7. ASSUME NEW x \in Requests, pc[x] \in Looking, NEW c \in Codes[db[x]]
          PROVE  cache'[db[x]][c] \in seen[x] \cup {None}
      BY <2>4, <2>5, <2>7
    <2>8. LookupInv'
      BY <2>1, <2>7
    <2>9. QED
      BY <2>1, <2>2, <2>6, <2>8
  <1>14. CASE Swap(h)
    <2>1. /\ pc[h] = "swap" /\ pc' = [pc EXCEPT ![h] = "done"]
          /\ answer' = [answer EXCEPT ![h] = None]
          /\ Reloaded /\ Witnessed /\ UNCHANGED db
      BY <1>14 DEF Swap
    <2>2. \A d \in Databases :
            /\ reader[d] # None => reader'[d] # None
            /\ reader'[d] # None => loaded'[d]
            /\ \A c \in Codes[d] : cache'[d][c] = None
      <3> SUFFICES ASSUME NEW d \in Databases
                   PROVE  /\ reader[d] # None => reader'[d] # None
                          /\ reader'[d] # None => loaded'[d]
                          /\ \A c \in Codes[d] : cache'[d][c] = None
        OBVIOUS
      <3>1. reader'[d] = IF Fits(d) THEN disk[d] ELSE reader[d]
        BY <2>1 DEF Reloaded
      <3>2. Fits(d) => disk[d] # None
        BY DEF Fits
      <3>3. loaded'[d] = (loaded[d] \/ Fits(d))
        BY <2>1, Zenon DEF Reloaded
      <3>4. \A c \in Codes[d] : cache'[d][c] = None
        BY <2>1 DEF Reloaded, NothingCached
      <3>5. reader[d] # None => loaded[d]
        OBVIOUS
      <3> HIDE <1>1, <1>2, <1>3 DEF RequestInv, PhaseInv, CacheInv, LookupInv, AnswerCurrent, NoNilReader
      <3>6. QED
        BY <3>1, <3>2, <3>3, <3>4, <3>5, Zenon
    <2>3. \A x \in Requests :
            seen'[x] = IF pc[x] \in Looking THEN seen[x] \cup {reader'[db[x]]} ELSE seen[x]
      BY <2>1 DEF Witnessed
    <2>4. CacheInv' /\ PhaseInv' /\ NoNilReader'
      BY <2>1, <2>2
    <2>5. LookupInv'
      <3> SUFFICES ASSUME NEW x \in Requests
                   PROVE  /\ pc'[x] \in Looking =>
                              /\ reader'[db[x]] \in seen'[x]
                              /\ \A c \in Codes[db[x]] : cache'[db[x]][c] \in seen'[x] \cup {None}
                          /\ pc'[x] \notin Looking \cup {"done"} => seen'[x] = {}
                          /\ pc'[x] \in {"missed", "fill"} => reader'[db[x]] # None \/ overrun
        BY <2>1
      <3>1. x # h => pc'[x] = pc[x]
        BY <2>1
      <3>2. pc'[h] = "done"
        BY <2>1
      <3>3. CASE x = h
        BY <3>2, <3>3
      <3>4. CASE x # h /\ pc[x] \in Looking
        <4>1. /\ seen'[x] = seen[x] \cup {reader'[db[x]]}
              /\ pc'[x] = pc[x]
          BY <3>1, <3>4, <2>3
        <4>2. \A c \in Codes[db[x]] : cache'[db[x]][c] = None
          BY <2>2
        <4>3. pc[x] \in {"missed", "fill"} => reader'[db[x]] # None \/ overrun
          BY <2>2
        <4>4. QED
          BY <4>1, <4>2, <4>3, <3>4
      <3>5. CASE x # h /\ pc[x] \notin Looking
        <4>1. pc'[x] = pc[x] /\ seen'[x] = seen[x]
          BY <3>1, <3>5, <2>3
        <4>2. pc[x] \notin Looking \cup {"done"} => seen[x] = {}
          OBVIOUS
        <4>3. pc[x] \notin {"missed", "fill"}
          BY <3>5
        <4>4. QED
          BY <4>1, <4>2, <4>3, <3>5
      <3>6. QED
        BY <3>3, <3>4, <3>5
    <2>6. AnswerCurrent'
      BY <2>1, <2>3
    <2>7. QED
      BY <2>4, <2>5, <2>6
  <1>15. CASE Return(h)
    BY <1>15 DEF Return
  <1>16. QED
    BY <1>5, <1>6, <1>7, <1>8, <1>9, <1>10, <1>11, <1>12, <1>13, <1>14, <1>15
    DEF Begin, TakeLock, Step

LEMMA RequestNext == RequestInv /\ [Next]_vars => RequestInv'
  <1> SUFFICES ASSUME RequestInv, [Next]_vars
               PROVE  PhaseInv' /\ CacheInv' /\ LookupInv' /\ AnswerCurrent' /\ NoNilReader'
    BY TypeNext DEF RequestInv
  <1>1. TypeInv'
    BY TypeNext DEF RequestInv
  <1>2. ASSUME NEW h \in Requests, Request(h)
        PROVE  PhaseInv' /\ CacheInv' /\ LookupInv' /\ AnswerCurrent' /\ NoNilReader'
    BY <1>1, <1>2, StepInv DEF Request
  <1>3. /\ reader \in [Databases -> Generations \cup {None}]
        /\ db \in [Requests -> Databases] /\ phase \in Phases
    BY DEF RequestInv, TypeInv, TypeOK, GeoTypeOK, KernelInv
  <1> USE DEF PhaseInv, CacheInv, LookupInv, AnswerCurrent, NoNilReader,
              Looking, Quiet, Drained, Moves, kernel, past
  <1>4. CASE Start
    <2>1. /\ \A h \in Requests : pc[h] = "idle"
          /\ phase = "down" /\ phase' = "loading"
          /\ UNCHANGED <<pc, answer, seen, db, overrun>>
      BY <1>4 DEF RequestInv, Start, requests
    <2>2. ~overrun
      BY <2>1 DEF RequestInv
    <2>3. \A d \in Databases : \A c \in Codes[d] : cache'[d][c] = None
      BY <1>4 DEF Start, Reloaded, NothingCached
    <2>4. ASSUME NEW d \in Databases, reader'[d] # None
          PROVE  loaded'[d]
      <3>1. reader'[d] = (IF Fits(d) THEN disk[d] ELSE reader[d]) /\ loaded'[d] = (loaded[d] \/ Fits(d))
        BY <1>4, Zenon DEF Start, Reloaded
      <3>2. reader[d] # None => loaded[d]
        BY DEF RequestInv
      <3>3. QED
        BY <2>4, <3>1, <3>2, Zenon
    <2>5. PhaseInv' /\ LookupInv' /\ AnswerCurrent' /\ NoNilReader'
      BY <2>1, <2>2 DEF RequestInv
    <2>6. CacheInv'
      BY <2>3, <2>4
    <2>7. QED
      BY <2>5, <2>6
  <1>5. CASE CloseGeoIP
    <2>1. /\ phase = "closing" /\ phase' = "closed"
          /\ \A d \in Databases : reader'[d] = None
          /\ UNCHANGED <<pc, db, code, answer, cache, overrun>>
      BY <1>5 DEF CloseGeoIP, CloseReaders, Each
    <2>2. \A x \in Requests :
            seen'[x] = IF pc[x] \in Looking THEN seen[x] \cup {reader'[db[x]]} ELSE seen[x]
      BY <1>5 DEF CloseGeoIP, CloseReaders, Witnessed
    <2>3. ~overrun => \A h \in Requests : pc[h] = "idle"
      BY <2>1 DEF RequestInv
    <2>4. PhaseInv' /\ CacheInv' /\ NoNilReader'
      BY <2>1 DEF RequestInv
    <2>5. LookupInv'
      <3> SUFFICES ASSUME NEW h \in Requests
                   PROVE  /\ pc[h] \in Looking =>
                              /\ reader'[db[h]] \in seen'[h]
                              /\ \A c \in Codes[db[h]] : cache[db[h]][c] \in seen'[h] \cup {None}
                          /\ pc[h] \notin Looking \cup {"done"} => seen'[h] = {}
                          /\ pc[h] \in {"missed", "fill"} => reader'[db[h]] # None \/ overrun
        BY <2>1
      <3>1. CASE pc[h] \in Looking
        <4>1. overrun
          BY <2>3, <3>1
        <4>2. seen'[h] = seen[h] \cup {reader'[db[h]]}
          BY <2>2, <3>1
        <4>3. \A c \in Codes[db[h]] : cache[db[h]][c] \in seen[h] \cup {None}
          BY <3>1 DEF RequestInv
        <4>4. QED
          BY <3>1, <4>1, <4>2, <4>3
      <3>2. CASE pc[h] \notin Looking
        BY <2>2, <3>2 DEF RequestInv
      <3>3. QED
        BY <3>1, <3>2
    <2>6. AnswerCurrent'
      BY <2>1, <2>2 DEF RequestInv
    <2>7. QED
      BY <2>4, <2>5, <2>6
  <1>6. CASE Exit \/ Crash
    <2>1. Ends
      BY <1>6 DEF Exit, Crash
    <2>2. PhaseInv' /\ AnswerCurrent' /\ NoNilReader'
      BY <2>1 DEF Ends, Forget, All, Panic, Pending
    <2>3. CacheInv' /\ LookupInv'
      BY <2>1 DEF Ends, Forget, All, Each, NothingCached
    <2>4. QED
      BY <2>2, <2>3
  <1>7. ASSUME UNCHANGED geoVars, PhaseInv', overrun => overrun', phase = "closed" => phase' = "closed"
        PROVE  PhaseInv' /\ CacheInv' /\ LookupInv' /\ AnswerCurrent' /\ NoNilReader'
    <2>1. UNCHANGED <<reader, loaded, cache, pc, db, code, answer, seen>>
      BY <1>7 DEF geoVars, manager, requests
    <2>2. CacheInv' /\ LookupInv'
      BY <1>7, <2>1 DEF RequestInv
    <2>3. AnswerCurrent' /\ NoNilReader'
      BY <1>7, <2>1 DEF RequestInv
    <2>4. QED
      BY <1>7, <2>2, <2>3
  <1>8. CASE LoadFails \/ LoadAndPin \/ AttachFails \/ Attach \/ Serve \/ Signal
    BY <1>7, <1>8
    DEF LoadFails, LoadAndPin, AttachFails, Attach, Serve, Signal, geoVars, requests, RequestInv
  <1>9. CASE Shutdown
    BY <1>7, <1>9 DEF Shutdown, geoVars, requests, RequestInv
  <1>10. CASE UnpinMaps \/ Close
    BY <1>7, <1>10 DEF UnpinMaps, Close, geoVars, requests, RequestInv
  <1>11. CASE UNCHANGED vars
    BY <1>7, <1>11 DEF vars, lifeVars, geoVars, requests, RequestInv
  <1>12. CASE Update
    <2>1. UNCHANGED <<manager, requests, lifeVars>>
      BY <1>12 DEF Update, UpdateFile
    <2>2. UNCHANGED <<reader, loaded, cache, pc, db, code, answer, seen, phase, overrun>>
      BY <2>1 DEF manager, requests, lifeVars
    <2>3. QED
      BY <2>2 DEF RequestInv
  <1>13. QED
    BY <1>2, <1>4, <1>5, <1>6, <1>8, <1>9, <1>10, <1>11, <1>12 DEF Next

LEMMA RequestInvariant == Spec => []RequestInv
  BY RequestInit, RequestNext, PTL DEF Spec

\* However lookups, reloads, updates of the files and the end of the process interleave,
\* an answer comes from a database that was open during the request.
THEOREM AnswersAreCurrent == Spec => []AnswerCurrent
  <1>1. RequestInv => AnswerCurrent
    BY DEF RequestInv
  <1>2. QED
    BY <1>1, RequestInvariant, PTL

\* Only a request that outlived Shutdown meets a closed reader.
THEOREM NoReaderIsNil == Spec => []NoNilReader
  <1>1. RequestInv => NoNilReader
    BY DEF RequestInv
  <1>2. QED
    BY <1>1, RequestInvariant, PTL
=============================================================================
