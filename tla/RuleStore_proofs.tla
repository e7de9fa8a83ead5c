-------------------------- MODULE RuleStore_proofs --------------------------
(***************************************************************************)
(* Proofs about RuleStore for any targets, ranges, handlers and bounds.    *)
(* They rest on one invariant in three parts: where restoreRulesState is,  *)
(* what a save has read of what the node has, and who will still undo a    *)
(* default drop over an empty whitelist.                                   *)
(***************************************************************************)
EXTENDS RuleStore, TLAPS

Pcs == {"idle", "cidrs", "fallback", "policy", "save", "read policy", "read black",
        "read white", "truncate", "write", "delete"}
Records == [pc : Pcs, op : {"none", "block", "unblock", "allow", "disallow", "policy"},
            target : Targets \cup {NoTarget}, todo : SUBSET Cidrs, done : SUBSET Cidrs,
            value : {0, 1}, data : Contents]

\* While a handler applies a target it has one, and no policy but default pass.
Locals == {r \in Records : /\ r.pc = "cidrs" => r.target \in Targets
                           /\ r.pc \in {"cidrs", "fallback"} => r.value = 0}

MapTypes ==
    /\ black \in [Cidrs -> {"absent", "fresh", "old"}]
    /\ white \subseteq Cidrs /\ policy \in {0, 1}

ListTypes == BlacklistTargets \subseteq Targets /\ WhitelistTargets \subseteq Targets

FileTypes ==
    /\ stateMutex \in Procs \cup {Free}
    /\ file \in [kind : {"none", "torn", "ok"}, content : Contents]

MainTypes == main \in [pc : {"restore", "black", "white", "up"}, todo : SUBSET Targets]

HistoryTypes ==
    /\ requests \in 0 .. MaxRequests /\ crashes \in 0 .. MaxCrashes
    /\ saveFailed \in BOOLEAN /\ lockedOut \in BOOLEAN

TypeInv ==
    /\ MapTypes /\ ListTypes /\ FileTypes /\ MainTypes /\ HistoryTypes
    /\ proc \in [Procs -> Locals]

\* The steps of a save that hold stateMutex, and those of a change on its way to one.
Locked == {"read policy", "read black", "read white", "truncate", "write"}
Dirty == {"fallback", "policy", "save"}

\* Nothing runs beside restoreRulesState, and what is restored so far is what the file
\* says.
RestoreInv ==
    main # Up =>
        /\ stateMutex = Free /\ \A p \in Procs : proc[p] = Idle
        /\ Present = AllCidrs(BlacklistTargets) /\ white = AllCidrs(WhitelistTargets)
        /\ main.pc = "restore" => /\ policy = 0 /\ main.todo = {}
                                  /\ BlacklistTargets = {} /\ WhitelistTargets = {}
        /\ main.pc # "restore" => file.kind = "ok" /\ policy = file.content.policy
        /\ main.pc = "black" => /\ BlacklistTargets \cup main.todo = file.content.black
                                /\ WhitelistTargets = {}
        /\ main.pc = "white" => /\ BlacklistTargets = file.content.black
                                /\ WhitelistTargets \cup main.todo = file.content.white
        /\ main.pc # "up"

\* What p has read so far is what the node has.
ReadCurrent(p) ==
    LET read == proc[p].data
    IN  /\ proc[p].pc # "read policy" => read.policy = policy
        /\ proc[p].pc \notin {"read policy", "read black"} => read.black = BlacklistTargets
        /\ proc[p].pc \in {"truncate", "write"} => read.white = WhitelistTargets

\* One goroutine saves at a time.  Unless a change is still on its way to a save, the
\* save under way will write what the node has, and without one the file holds that.
SaveInv ==
    /\ \A p \in Procs : proc[p].pc \in Locked <=> stateMutex = p
    /\ (main = Up /\ \A p \in Procs : proc[p].pc \notin Dirty) =>
        /\ \A p \in Procs : proc[p].pc \in Locked => ReadCurrent(p)
        /\ (stateMutex = Free /\ file.kind = "ok" /\ ~saveFailed) => file.content = Current

\* Whoever emptied the whitelist of a node in default drop has yet to set default pass.
Undoing(h) == proc[h].pc = "fallback" \/ (proc[h].pc = "policy" /\ proc[h].value = 0)

LockoutInv ==
    (crashes = 0 /\ ~lockedOut) =>
        /\ (main = Up /\ policy = 1 /\ WhitelistTargets = {}) => \E p \in Procs : Undoing(p)
        /\ (main # Up /\ file.kind = "ok") =>
                ~(file.content.policy = 1 /\ file.content.white = {})

LEMMA ConstantTypes ==
    /\ \A t \in Targets : CidrsOf[t] \subseteq Cidrs
    /\ BlackTargets \subseteq Targets /\ WhiteTargets \subseteq Targets
    /\ AttackSources \subseteq Cidrs /\ MaxRequests \in Nat /\ MaxCrashes \in Nat
    /\ Handlers \subseteq Procs /\ Engine \in Procs /\ Free \notin Procs
  BY StoreAssumption DEF StoreAssumption, Procs

LEMMA IdleTypes == Idle \in Locals /\ Nothing \in Contents
  BY DEF Idle, Locals, Records, Pcs, Nothing, Content, Contents

LEMMA IdlePc == Idle.pc = "idle"
  BY DEF Idle

\* A step of one goroutine leaves the others where they are.
LEMMA GoesTo ==
    ASSUME proc \in [Procs -> Locals], NEW p \in Procs, NEW r \in Locals, Goes(p, r)
    PROVE  /\ proc' \in [Procs -> Locals] /\ proc'[p] = r
           /\ \A q \in Procs \ {p} : proc'[q] = proc[q]
  BY DEF Goes

-----------------------------------------------------------------------------
(* Types *)

LEMMA TypesAreTyped == TypeInv => TypeOK
  BY DEF TypeInv, TypeOK, MapTypes, ListTypes, FileTypes, MainTypes, HistoryTypes, Locals,
         Records, Pcs

LEMMA TypeInit == Init => TypeInv
  <1> SUFFICES ASSUME Init PROVE TypeInv
    OBVIOUS
  <1>1. MapTypes /\ ListTypes /\ MainTypes
    BY DEF Init, MapTypes, ListTypes, MainTypes
  <1>2. file \in [kind : {"none", "torn", "ok"}, content : Contents]
    BY StoreAssumption DEF StoreAssumption, Init, Contents
  <1>3. FileTypes
    BY <1>2 DEF Init, FileTypes
  <1>4. lockedOut \in BOOLEAN
    BY Zenon DEF Init
  <1>5. HistoryTypes
    <2>1. requests = 0 /\ crashes = 0 /\ saveFailed = FALSE
      BY Zenon DEF Init
    <2>2. requests \in 0 .. MaxRequests /\ crashes \in 0 .. MaxCrashes
      BY <2>1, ConstantTypes
    <2>3. QED
      BY <1>4, <2>1, <2>2, Zenon DEF HistoryTypes
  <1>6. proc \in [Procs -> Locals]
    BY IdleTypes DEF Init
  <1>7. QED
    BY <1>1, <1>3, <1>5, <1>6 DEF TypeInv

\* A step of the handlers.
LEMMA RequestTypes ==
    ASSUME TypeInv, NEW h \in Handlers, Request(h), NEW r \in Locals, Goes(h, r)
    PROVE  TypeInv'
  <1>1. UNCHANGED <<maps, lists, stateMutex, file, main, crashes, saveFailed, lockedOut>>
    BY DEF Request
  <1>2. MapTypes' /\ ListTypes' /\ FileTypes' /\ MainTypes'
    BY <1>1 DEF maps, lists, MapTypes, ListTypes, FileTypes, MainTypes, TypeInv
  <1>3. HistoryTypes'
    BY <1>1, ConstantTypes DEF Request, HistoryTypes, TypeInv
  <1>4. (proc \in [Procs -> Locals])'
    BY ConstantTypes, GoesTo DEF TypeInv
  <1>5. QED
    BY <1>2, <1>3, <1>4 DEF TypeInv

LEMMA RequestsKeepTypes ==
    ASSUME TypeInv, NEW h \in Handlers,
           \/ \E t \in BlackTargets, op \in {"block", "unblock"} : BlacklistRequest(h, op, t)
           \/ \E t \in WhiteTargets, op \in {"allow", "disallow"} : WhitelistRequest(h, op, t)
           \/ \E value \in {0, 1} : PolicyRequest(h, value)
    PROVE  TypeInv'
  <1>1. ASSUME NEW t \in Targets, NEW op \in {"block", "unblock", "allow", "disallow"}
        PROVE  [Idle EXCEPT !.pc = "cidrs", !.op = op, !.target = t, !.todo = CidrsOf[t]] \in Locals
    BY IdleTypes, ConstantTypes DEF Idle, Locals, Records, Pcs
  <1>2. ASSUME NEW value \in {0, 1}
        PROVE  [Idle EXCEPT !.pc = "policy", !.op = "policy", !.value = value] \in Locals
    BY IdleTypes DEF Locals, Records, Pcs
  <1>3. QED
    BY <1>1, <1>2, ConstantTypes, RequestTypes
    DEF BlacklistRequest, WhitelistRequest, PolicyRequest

LEMMA HandleKeepsTypes ==
    ASSUME TypeInv, NEW h \in Handlers, Handle(h)
    PROVE  TypeInv'
  <1>1. h \in Procs /\ proc[h] \in Locals
    BY ConstantTypes DEF TypeInv
  <1>2. UNCHANGED <<stateMutex, file, main, requests, crashes, saveFailed>>
    BY DEF Handle, ApplyCidr, ListTarget, FallbackCheck, SetPolicy, history
  <1>3. FileTypes' /\ MainTypes'
    BY <1>2 DEF FileTypes, MainTypes, TypeInv
  <1>4. HistoryTypes'
    <2>1. lockedOut' = lockedOut \/ lockedOut' = (lockedOut \/ (proc[h].value = 1 /\ WhitelistTargets = {}))
      BY DEF Handle, ApplyCidr, ListTarget, FallbackCheck, SetPolicy, history
    <2>2. lockedOut \in BOOLEAN
      BY DEF HistoryTypes, TypeInv
    <2>3. lockedOut' \in BOOLEAN
      BY <2>1, <2>2, Zenon
    <2>4. QED
      BY <1>2, <2>3 DEF HistoryTypes, TypeInv
  <1>5. (proc \in [Procs -> Locals])'
    <2>1. ASSUME NEW pc \in {"policy", "save"}
          PROVE  [proc[h] EXCEPT !.pc = pc] \in Locals
      BY <1>1 DEF Locals, Records, Pcs
    <2>2. ASSUME NEW c \in Cidrs
          PROVE  [proc[h] EXCEPT !.todo = @ \ {c}] \in Locals
      BY <1>1 DEF Locals, Records
    <2>3. \/ \E pc \in {"policy", "save"} : Goes(h, [proc[h] EXCEPT !.pc = pc])
          \/ proc[h].pc = "cidrs" /\ Goes(h, [proc[h] EXCEPT !.pc = "fallback"])
          \/ \E c \in Cidrs : Goes(h, [proc[h] EXCEPT !.todo = @ \ {c}])
      <3>1. CASE ApplyCidr(h)
        BY <1>1, <3>1 DEF ApplyCidr, Locals, Records
      <3>2. CASE ListTarget(h) \/ FallbackCheck(h) \/ SetPolicy(h)
        BY <3>2, Zenon DEF ListTarget, FallbackCheck, SetPolicy, At
      <3>3. QED
        BY <3>1, <3>2 DEF Handle
    <2>4. proc[h].pc = "cidrs" => [proc[h] EXCEPT !.pc = "fallback"] \in Locals
      BY <1>1 DEF Locals, Records, Pcs
    <2>5. QED
      BY <1>1, <2>1, <2>2, <2>3, <2>4, GoesTo DEF TypeInv
  <1>6. MapTypes' /\ ListTypes'
    <2>1. CASE ApplyCidr(h)
      <3>1. UNCHANGED lists /\ UNCHANGED policy
        BY <2>1 DEF ApplyCidr
      <3>2. PICK c \in proc[h].todo :
              /\ black' = black \/ black' = [black EXCEPT ![c] = "fresh"]
                    \/ black' = [black EXCEPT ![c] = "absent"]
              /\ white' \in {white, white \cup {c}, white \ {c}}
        BY <2>1 DEF ApplyCidr
      <3>3. c \in Cidrs
        BY <1>1, <3>2 DEF Locals, Records
      <3>4. QED
        BY <3>1, <3>2, <3>3 DEF lists, MapTypes, ListTypes, TypeInv
    <2>2. CASE ListTarget(h)
      <3>1. proc[h].target \in Targets
        BY <1>1, <2>2 DEF ListTarget, At, Locals
      <3>2. QED
        BY <2>2, <3>1 DEF ListTarget, maps, MapTypes, ListTypes, TypeInv
    <2>3. CASE FallbackCheck(h)
      BY <2>3 DEF FallbackCheck, maps, lists, MapTypes, ListTypes, TypeInv
    <2>4. CASE SetPolicy(h)
      BY <1>1, <2>4 DEF SetPolicy, lists, MapTypes, ListTypes, Locals, Records, TypeInv
    <2>5. QED
      BY <2>1, <2>2, <2>3, <2>4 DEF Handle
  <1>7. QED
    BY <1>3, <1>4, <1>5, <1>6 DEF TypeInv

\* A step of a save.
LEMMA SaveKeepsTypes ==
    ASSUME TypeInv, NEW p \in Procs, SaveLock(p) \/ Save(p)
    PROVE  TypeInv'
  <1>1. proc[p] \in Locals /\ Current \in Contents
    BY DEF TypeInv, MapTypes, ListTypes, Current, Content, Contents
  <1>2. UNCHANGED <<maps, lists, main, requests, crashes, lockedOut>> /\ saveFailed' \in BOOLEAN
    BY DEF SaveLock, Save, SaveRead, SaveTruncate, SaveWrite, SaveFail, history, TypeInv, HistoryTypes
  <1>3. MapTypes' /\ ListTypes' /\ MainTypes' /\ HistoryTypes'
    BY <1>2 DEF maps, lists, MapTypes, ListTypes, MainTypes, HistoryTypes, TypeInv
  <1>4. (proc \in [Procs -> Locals])'
    <2>1. ASSUME NEW pc \in {"read policy", "write"}
          PROVE  [proc[p] EXCEPT !.pc = pc] \in Locals
      BY <1>1 DEF Locals, Records, Pcs
    <2>2. /\ [proc[p] EXCEPT !.pc = "read black", !.data.policy = policy] \in Locals
          /\ [proc[p] EXCEPT !.pc = "read white", !.data.black = BlacklistTargets] \in Locals
          /\ [proc[p] EXCEPT !.pc = "truncate", !.data.white = WhitelistTargets] \in Locals
      BY <1>1 DEF Locals, Records, Pcs, Contents, TypeInv, MapTypes, ListTypes
    <2>3. \/ \E pc \in {"read policy", "write"} : Goes(p, [proc[p] EXCEPT !.pc = pc])
          \/ Goes(p, [proc[p] EXCEPT !.pc = "read black", !.data.policy = policy])
          \/ Goes(p, [proc[p] EXCEPT !.pc = "read white", !.data.black = BlacklistTargets])
          \/ Goes(p, [proc[p] EXCEPT !.pc = "truncate", !.data.white = WhitelistTargets])
          \/ Goes(p, Idle)
      BY Zenon DEF SaveLock, Save, SaveRead, SaveTruncate, SaveWrite, SaveFail
    <2>4. QED
      BY <2>1, <2>2, <2>3, IdleTypes, GoesTo DEF TypeInv
  <1>5. FileTypes'
    <2>1. proc[p].data \in Contents
      BY <1>1 DEF Locals, Records
    <2>2. file' \in [kind : {"none", "torn", "ok"}, content : Contents]
      <3>1. \/ file' = file \/ file' = [kind |-> "torn", content |-> Nothing]
            \/ file' = [kind |-> "ok", content |-> proc[p].data]
        BY Zenon DEF SaveLock, Save, SaveRead, SaveTruncate, SaveWrite, SaveFail, Saved
      <3>2. QED
        BY <2>1, <3>1, IdleTypes DEF TypeInv, FileTypes
    <2>3. stateMutex' \in Procs \cup {Free}
      BY DEF SaveLock, Save, SaveRead, SaveTruncate, SaveWrite, SaveFail, TypeInv, FileTypes
    <2>4. QED
      BY <2>2, <2>3 DEF FileTypes
  <1>6. QED
    BY <1>3, <1>4, <1>5 DEF TypeInv

\* The engine, and the time that passes.
LEMMA EngineKeepsTypes ==
    ASSUME TypeInv,
           \/ \E c \in Cidrs : EngineBlock(c) \/ CleanRead(c) \/ Age(c)
           \/ CleanDelete \/ CleanUnlist \/ CleanAbort
    PROVE  TypeInv'
  <1>1. proc[Engine] \in Locals /\ Engine \in Procs
    BY ConstantTypes DEF TypeInv
  <1>2. UNCHANGED <<white, policy, WhitelistTargets, stateMutex, file, main, history>>
    BY DEF EngineBlock, CleanRead, Age, CleanDelete, CleanUnlist, CleanAbort, maps, lists
  <1>3. FileTypes' /\ MainTypes' /\ HistoryTypes'
    BY <1>2 DEF history, FileTypes, MainTypes, HistoryTypes, TypeInv
  <1>4. ListTypes' /\ MapTypes'
    <2>1. BlacklistTargets' \subseteq BlacklistTargets
      BY DEF EngineBlock, CleanRead, Age, CleanDelete, CleanUnlist, CleanAbort, lists
    <2>2. black' \in [Cidrs -> {"absent", "fresh", "old"}]
      BY DEF EngineBlock, CleanRead, Age, CleanDelete, CleanUnlist, CleanAbort, maps,
             TypeInv, MapTypes
    <2>3. QED
      BY <1>2, <2>1, <2>2 DEF ListTypes, MapTypes, TypeInv
  <1>5. (proc \in [Procs -> Locals])'
    <2>1. CASE UNCHANGED proc
      BY <2>1 DEF TypeInv
    <2>2. ASSUME NEW c \in Cidrs, CleanRead(c)
          PROVE  (proc \in [Procs -> Locals])'
      <3>1. [proc[Engine] EXCEPT !.pc = "delete", !.todo = {c}] \in Locals
        BY <1>1 DEF Locals, Records, Pcs
      <3>2. QED
        BY <1>1, <2>2, <3>1, GoesTo DEF CleanRead, TypeInv
    <2>3. CASE CleanDelete
      <3>1. [proc[Engine] EXCEPT !.pc = "idle", !.todo = {},
                                 !.done = @ \cup proc[Engine].todo] \in Locals
        BY <1>1 DEF Locals, Records, Pcs
      <3>2. QED
        BY <1>1, <2>3, <3>1, GoesTo DEF CleanDelete, TypeInv
    <2>4. CASE CleanUnlist
      <3>1. [proc[Engine] EXCEPT !.pc = "save"] \in Locals
        BY <1>1 DEF Locals, Records, Pcs
      <3>2. QED
        BY <1>1, <2>4, <3>1, GoesTo DEF CleanUnlist, TypeInv
    <2>5. CASE CleanAbort
      BY <1>1, <2>5, IdleTypes, GoesTo DEF CleanAbort, TypeInv
    <2>6. QED
      BY <2>1, <2>2, <2>3, <2>4, <2>5 DEF EngineBlock, Age
  <1>6. QED
    BY <1>3, <1>4, <1>5 DEF TypeInv

LEMMA RestartKeepsTypes ==
    ASSUME TypeInv, Crash \/ Restore
    PROVE  TypeInv'
  <1>1. CASE Crash
    <2>1. MapTypes' /\ ListTypes' /\ FileTypes' /\ MainTypes'
      BY <1>1 DEF Crash, MapTypes, ListTypes, FileTypes, MainTypes, TypeInv
    <2>2. HistoryTypes'
      <3>1. /\ requests' = requests /\ crashes' = crashes + 1 /\ crashes < MaxCrashes
            /\ saveFailed' = FALSE /\ lockedOut' = lockedOut
        BY <1>1, Zenon DEF Crash
      <3>2. requests' \in 0 .. MaxRequests /\ crashes' \in 0 .. MaxCrashes
        BY <3>1, ConstantTypes DEF HistoryTypes, TypeInv
      <3>3. lockedOut \in BOOLEAN
        BY DEF HistoryTypes, TypeInv
      <3>4. QED
        BY <3>1, <3>2, <3>3, Zenon DEF HistoryTypes
    <2>3. (proc \in [Procs -> Locals])'
      BY <1>1, IdleTypes DEF Crash
    <2>4. QED
      BY <2>1, <2>2, <2>3 DEF TypeInv
  <1>2. CASE Restore
    <2>1. UNCHANGED <<stateMutex, file, proc, history>>
      BY <1>2 DEF Restore, RestoreNothing, RestorePolicy, RestoreBlack, RestoreBlackDone,
                  RestoreWhite, RestoreDone
    <2>2. FileTypes' /\ HistoryTypes' /\ (proc \in [Procs -> Locals])'
      BY <2>1 DEF history, FileTypes, HistoryTypes, TypeInv
    <2>3. file.content \in Contents /\ main.todo \subseteq Targets
      BY DEF TypeInv, FileTypes, MainTypes
    <2>4. MainTypes'
      BY <1>2, <2>3 DEF Restore, RestoreNothing, RestorePolicy, RestoreBlack, RestoreBlackDone,
             RestoreWhite, RestoreDone, Up, Contents, TypeInv, MainTypes
    <2>5. MapTypes' /\ ListTypes'
      BY <1>2, <2>3, ConstantTypes DEF Restore, RestoreNothing, RestorePolicy, RestoreBlack,
             RestoreBlackDone, RestoreWhite, RestoreDone, Contents, maps, lists, TypeInv,
             MapTypes, ListTypes
    <2>6. QED
      BY <2>2, <2>4, <2>5 DEF TypeInv
  <1>3. QED
    BY <1>1, <1>2

LEMMA TypeNext == TypeInv /\ [Next]_vars => TypeInv'
  <1> SUFFICES ASSUME TypeInv, [Next]_vars PROVE TypeInv'
    OBVIOUS
  <1>1. CASE UNCHANGED vars
    BY <1>1 DEF vars, maps, lists, history, TypeInv, MapTypes, ListTypes, FileTypes, MainTypes,
                HistoryTypes
  <1>2. QED
    BY <1>1, ConstantTypes, RequestsKeepTypes, HandleKeepsTypes, SaveKeepsTypes, EngineKeepsTypes,
       RestartKeepsTypes DEF Next, Clean

\* The state keeps the shape the program gives it, over any number of crashes.
THEOREM TypeCorrect == Spec => []TypeOK
  BY TypeInit, TypeNext, TypesAreTyped, PTL DEF Spec

-----------------------------------------------------------------------------
(* Restarts *)

\* While rules are restored nothing else happens, but that entries age.
LEMMA Steps ==
    ASSUME [Next]_vars
    PROVE  \/ Crash \/ Restore
           \/ /\ UNCHANGED <<main, file>> /\ Present' = Present
              /\ UNCHANGED <<white, policy, lists, stateMutex, proc, history>>
           \/ main = Up /\ UNCHANGED main
  <1>1. CASE UNCHANGED vars
    BY <1>1 DEF vars, maps, Present
  <1>2. ASSUME NEW c \in Cidrs, Age(c)
        PROVE  /\ UNCHANGED <<main, file>> /\ Present' = Present
               /\ UNCHANGED <<white, policy, lists, stateMutex, proc, history>>
    BY <1>2 DEF Age, Present
  <1>3. ASSUME NEW h \in Handlers,
               \/ \E t \in BlackTargets, op \in {"block", "unblock"} : BlacklistRequest(h, op, t)
               \/ \E t \in WhiteTargets, op \in {"allow", "disallow"} : WhitelistRequest(h, op, t)
               \/ \E value \in {0, 1} : PolicyRequest(h, value)
        PROVE  main = Up /\ UNCHANGED main
    BY <1>3 DEF BlacklistRequest, WhitelistRequest, PolicyRequest, Request, At
  <1>4. ASSUME NEW h \in Handlers, Handle(h)
        PROVE  main = Up /\ UNCHANGED main
    BY <1>4 DEF Handle, ApplyCidr, ListTarget, FallbackCheck, SetPolicy, At
  <1>5. ASSUME NEW p \in Procs, SaveLock(p) \/ Save(p)
        PROVE  main = Up /\ UNCHANGED main
    BY <1>5 DEF SaveLock, Save, SaveRead, SaveTruncate, SaveWrite, SaveFail, At
  <1>6. ASSUME \/ \E c \in AttackSources : EngineBlock(c)
               \/ Clean \/ CleanDelete \/ CleanUnlist \/ CleanAbort
        PROVE  main = Up /\ UNCHANGED main
    BY <1>6 DEF EngineBlock, Clean, CleanRead, CleanDelete, CleanUnlist, CleanAbort, At
  <1>7. QED
    BY <1>1, <1>2, <1>3, <1>4, <1>5, <1>6 DEF Next

LEMMA UpIsUp == TypeInv => (main = Up => main.pc = "up")
  BY DEF Up

LEMMA RestoreInit == Init => RestoreInv
  BY DEF Init, RestoreInv, Present, AllCidrs

LEMMA RestoreNext == TypeInv /\ RestoreInv /\ [Next]_vars => RestoreInv'
  <1> SUFFICES ASSUME TypeInv, RestoreInv, [Next]_vars PROVE RestoreInv'
    OBVIOUS
  <1>1. CASE Crash
    BY <1>1 DEF Crash, RestoreInv, Present, AllCidrs
  <1>2. CASE main = Up /\ UNCHANGED main
    BY <1>2 DEF RestoreInv
  <1>3. CASE /\ UNCHANGED <<main, file>> /\ Present' = Present
             /\ UNCHANGED <<white, policy, lists, stateMutex, proc, history>>
    BY <1>3 DEF RestoreInv, lists, AllCidrs
  <1>4. CASE RestoreNothing \/ RestoreDone
    BY <1>4 DEF RestoreNothing, RestoreDone, RestoreInv
  <1>5. CASE RestorePolicy
    <2>1. main # Up /\ main.pc = "restore"
      BY <1>5 DEF RestorePolicy, Up
    <2>2. main'.pc = "black" /\ main'.todo = file.content.black
      BY <1>5 DEF RestorePolicy
    <2>3. BlacklistTargets' = {} /\ WhitelistTargets' = {} /\ UNCHANGED <<black, white, stateMutex, proc, file>>
      BY <1>5, <2>1 DEF RestorePolicy, RestoreInv, lists
    <2>4. Present' = Present /\ AllCidrs(BlacklistTargets)' = AllCidrs(BlacklistTargets)
            /\ AllCidrs(WhitelistTargets)' = AllCidrs(WhitelistTargets)
      BY <1>5 DEF RestorePolicy, lists, Present, AllCidrs
    <2>5. file'.kind = "ok" /\ policy' = file'.content.policy
      BY <1>5 DEF RestorePolicy
    <2>6. QED
      BY <2>1, <2>2, <2>3, <2>4, <2>5 DEF RestoreInv
  <1>6. CASE RestoreBlack
    <2>1. main # Up /\ main.pc = "black"
      BY <1>6 DEF RestoreBlack, Up
    <2>2. PICK t \in main.todo :
            /\ BlacklistTargets' = BlacklistTargets \cup {t}
            /\ black' = [c \in Cidrs |-> IF c \in CidrsOf[t] THEN "fresh" ELSE black[c]]
            /\ main' = [main EXCEPT !.todo = @ \ {t}]
      BY <1>6 DEF RestoreBlack
    <2>3. t \in Targets /\ CidrsOf[t] \subseteq Cidrs
      BY <2>2, ConstantTypes DEF TypeInv, MainTypes
    <2>4. main'.pc = "black" /\ main'.todo = main.todo \ {t}
      BY <2>1, <2>2 DEF TypeInv, MainTypes
    <2>5. Present' = AllCidrs(BlacklistTargets')
      <3>1. Present' = Present \cup CidrsOf[t]
        BY <2>2, <2>3 DEF Present
      <3>2. AllCidrs(BlacklistTargets') = AllCidrs(BlacklistTargets) \cup CidrsOf[t]
        BY <2>2 DEF AllCidrs
      <3>3. QED
        BY <2>1, <3>1, <3>2 DEF RestoreInv
    <2>6. UNCHANGED <<white, policy, WhitelistTargets, stateMutex, file, proc>>
      BY <1>6 DEF RestoreBlack
    <2>7. AllCidrs(WhitelistTargets') = AllCidrs(WhitelistTargets)
      BY <2>6 DEF AllCidrs
    <2>8. BlacklistTargets' \cup main'.todo = file'.content.black
      BY <2>1, <2>2, <2>4, <2>6 DEF RestoreInv
    <2>9. QED
      BY <2>1, <2>4, <2>5, <2>6, <2>7, <2>8 DEF RestoreInv
  <1>7. CASE RestoreBlackDone
    <2>1. main # Up /\ main.pc = "black" /\ main.todo = {}
      BY <1>7 DEF RestoreBlackDone, Up
    <2>2. main'.pc = "white" /\ main'.todo = file.content.white
      BY <1>7 DEF RestoreBlackDone
    <2>3. UNCHANGED <<black, white, policy, BlacklistTargets, WhitelistTargets, stateMutex, file, proc>>
      BY <1>7 DEF RestoreBlackDone, maps, lists
    <2>4. Present' = Present /\ AllCidrs(BlacklistTargets') = AllCidrs(BlacklistTargets)
            /\ AllCidrs(WhitelistTargets') = AllCidrs(WhitelistTargets)
      BY <2>3 DEF Present, AllCidrs
    <2>5. QED
      BY <2>1, <2>2, <2>3, <2>4 DEF RestoreInv
  <1>8. CASE RestoreWhite
    <2>1. main # Up /\ main.pc = "white"
      BY <1>8 DEF RestoreWhite, Up
    <2>2. PICK t \in main.todo :
            /\ WhitelistTargets' = WhitelistTargets \cup {t}
            /\ white' = white \cup CidrsOf[t]
            /\ main' = [main EXCEPT !.todo = @ \ {t}]
      BY <1>8 DEF RestoreWhite
    <2>3. main'.pc = "white" /\ main'.todo = main.todo \ {t}
      BY <2>1, <2>2 DEF TypeInv, MainTypes
    <2>4. UNCHANGED <<black, policy, BlacklistTargets, stateMutex, file, proc>>
      BY <1>8 DEF RestoreWhite
    <2>5. AllCidrs(WhitelistTargets') = AllCidrs(WhitelistTargets) \cup CidrsOf[t]
      BY <2>2 DEF AllCidrs
    <2>6. Present' = Present /\ AllCidrs(BlacklistTargets') = AllCidrs(BlacklistTargets)
      BY <2>4 DEF Present, AllCidrs
    <2>7. WhitelistTargets' \cup main'.todo = file'.content.white
      BY <2>1, <2>2, <2>3, <2>4 DEF RestoreInv
    <2>8. QED
      BY <2>1, <2>2, <2>3, <2>4, <2>5, <2>6, <2>7 DEF RestoreInv
  <1>9. QED
    BY <1>1, <1>2, <1>3, <1>4, <1>5, <1>6, <1>7, <1>8, Steps DEF Restore

\* The step that ends the restoration.
LEMMA RestoreEnds ==
    ASSUME TypeInv, RestoreInv, [Next]_vars, main # Up, main' = Up
    PROVE  /\ UNCHANGED <<maps, lists, stateMutex, file, proc, history>>
           /\ Present = AllCidrs(BlacklistTargets) /\ white = AllCidrs(WhitelistTargets)
           /\ file.kind = "ok" => Current = file.content
           /\ file.kind # "ok" => policy = 0
  <1>1. RestoreNothing \/ RestoreDone
    <2>1. CASE Crash
      BY <2>1 DEF Crash, Up
    <2>2. CASE Restore
      <3>1. RestorePolicy \/ RestoreBlackDone => main'.pc \in {"black", "white"}
        BY DEF RestorePolicy, RestoreBlackDone
      <3>2. RestoreBlack \/ RestoreWhite => main'.pc \in {"black", "white"}
        BY DEF RestoreBlack, RestoreWhite, TypeInv, MainTypes
      <3>3. QED
        BY <2>2, <3>1, <3>2 DEF Restore, Up
    <2>3. QED
      BY <2>1, <2>2, Steps
  <1>2. UNCHANGED <<maps, lists, stateMutex, file, proc, history>>
    BY <1>1 DEF RestoreNothing, RestoreDone
  <1>3. CASE RestoreNothing
    BY <1>2, <1>3 DEF RestoreNothing, RestoreInv
  <1>4. CASE RestoreDone
    <2>1. main.pc = "white" /\ main.todo = {}
      BY <1>4 DEF RestoreDone
    <2>2. /\ policy = file.content.policy /\ BlacklistTargets = file.content.black
          /\ WhitelistTargets = file.content.white /\ file.kind = "ok"
      BY <2>1 DEF RestoreInv
    <2>3. file.content \in Contents
      BY DEF TypeInv, FileTypes
    <2>4. Current = file.content
      BY <2>2, <2>3 DEF Current, Content, Contents
    <2>5. QED
      BY <1>2, <2>2, <2>4 DEF RestoreInv
  <1>5. QED
    BY <1>1, <1>3, <1>4

\* A node that comes up again has in its tries what its lists resolve to, and in its lists
\* what the file holds, wherever the crashes fell.
THEOREM RestoresExactly == Spec => RestoredExactly
  <1>1. TypeInv /\ RestoreInv /\ [Next]_vars =>
            [(main # Up /\ main' = Up) =>
                /\ Present' = AllCidrs(BlacklistTargets') /\ white' = AllCidrs(WhitelistTargets')
                /\ file.kind = "ok" => Current' = file.content]_vars
    <2> SUFFICES ASSUME TypeInv, RestoreInv, [Next]_vars, main # Up, main' = Up
                 PROVE  /\ Present' = AllCidrs(BlacklistTargets')
                        /\ white' = AllCidrs(WhitelistTargets')
                        /\ file.kind = "ok" => Current' = file.content
      OBVIOUS
    <2>1. UNCHANGED <<black, white, policy, BlacklistTargets, WhitelistTargets>>
      BY RestoreEnds DEF maps, lists
    <2>2. /\ Present' = Present /\ Current' = Current
          /\ AllCidrs(BlacklistTargets') = AllCidrs(BlacklistTargets)
          /\ AllCidrs(WhitelistTargets') = AllCidrs(WhitelistTargets)
      BY <2>1 DEF Present, Current, Content, AllCidrs
    <2>3. QED
      BY <2>1, <2>2, RestoreEnds
  <1>2. QED
    BY <1>1, TypeInit, TypeNext, RestoreInit, RestoreNext, PTL DEF Spec, RestoredExactly

-----------------------------------------------------------------------------
(* Saves *)

\* p takes a step that is no part of a save, nor starts a change to be saved.
LEMMA QuietKeepsSaves ==
    ASSUME SaveInv, NEW p \in Procs, \A q \in Procs \ {p} : proc'[q] = proc[q],
           proc[p].pc \notin Dirty \cup Locked, proc'[p].pc \notin Dirty \cup Locked,
           UNCHANGED <<policy, lists, stateMutex, file, main, saveFailed>>
    PROVE  SaveInv'
  <1>1. Current' = Current
    BY DEF Current, Content, lists
  <1>2. \A q \in Procs : proc'[q].pc \in Locked => proc'[q] = proc[q]
    OBVIOUS
  <1>3. \A q \in Procs : proc'[q].pc \in Locked <=> proc[q].pc \in Locked
    OBVIOUS
  <1>4. (\A q \in Procs : proc'[q].pc \notin Dirty) => (\A q \in Procs : proc[q].pc \notin Dirty)
    OBVIOUS
  <1>5. ASSUME NEW q \in Procs, proc'[q] = proc[q], ReadCurrent(q)
        PROVE  ReadCurrent(q)'
    BY <1>5 DEF ReadCurrent, lists
  <1>6. QED
    BY <1>1, <1>2, <1>3, <1>4, <1>5 DEF SaveInv

\* p has a change to save.
LEMMA DirtyKeepsSaves ==
    ASSUME SaveInv, NEW p \in Procs, \A q \in Procs \ {p} : proc'[q] = proc[q],
           proc[p].pc \notin Locked, proc'[p].pc \in Dirty, UNCHANGED stateMutex
    PROVE  SaveInv'
  BY DEF SaveInv, Dirty, Locked

\* saveRulesState itself.
LEMMA SaveKeepsSaves ==
    ASSUME TypeInv, SaveInv, NEW p \in Procs, SaveLock(p) \/ Save(p)
    PROVE  SaveInv'
  <1>1. proc \in [Procs -> Locals] /\ proc[p] \in Locals /\ Free \notin Procs
    BY ConstantTypes DEF TypeInv
  <1>2. main = Up /\ UNCHANGED <<policy, lists, main>>
    BY DEF SaveLock, Save, SaveRead, SaveTruncate, SaveWrite, SaveFail, At, maps
  <1>3. ASSUME NEW r, Goes(p, r)
        PROVE  proc'[p] = r /\ \A q \in Procs \ {p} : proc'[q] = proc[q]
    BY <1>1, <1>3 DEF Goes
  <1>4. CASE SaveLock(p)
    <2>1. /\ proc'[p] = [proc[p] EXCEPT !.pc = "read policy"]
          /\ \A q \in Procs \ {p} : proc'[q] = proc[q]
          /\ stateMutex = Free /\ stateMutex' = p
      BY <1>3, <1>4 DEF SaveLock
    <2>2. proc'[p].pc = "read policy"
      BY <1>1, <2>1 DEF Locals, Records
    <2>3. \A q \in Procs : proc[q].pc \notin Locked
      BY <1>1, <2>1 DEF SaveInv
    <2>4. ReadCurrent(p)'
      BY <2>2 DEF ReadCurrent
    <2>5. QED
      BY <1>1, <2>1, <2>2, <2>3, <2>4 DEF SaveInv, Locked
  <1>5. CASE SaveRead(p) \/ SaveTruncate(p)
    <2>1. /\ UNCHANGED stateMutex /\ saveFailed' = saveFailed
          /\ proc[p].pc \in {"read policy", "read black", "read white", "truncate"}
      BY <1>5 DEF SaveRead, SaveTruncate, history, At
    <2>2. /\ stateMutex = p
          /\ \A q \in Procs \ {p} : proc[q].pc \notin Locked
      BY <2>1 DEF SaveInv, Locked
    <2>3. /\ \A q \in Procs \ {p} : proc'[q] = proc[q]
          /\ proc'[p].pc \in Locked
          /\ ReadCurrent(p) => ReadCurrent(p)'
      <3>1. CASE At(p, "read policy") /\ SaveRead(p)
        <4>1. Goes(p, [proc[p] EXCEPT !.pc = "read black", !.data.policy = policy])
          BY <3>1 DEF SaveRead, At
        <4>2. /\ proc'[p].pc = "read black" /\ proc'[p].data.policy = policy
          <5>1. proc'[p] = [proc[p] EXCEPT !.pc = "read black", !.data.policy = policy]
            BY <1>3, <4>1, Zenon
          <5>2. QED
            BY <1>1, <5>1 DEF Locals, Records, Contents
        <4>3. QED
          BY <1>2, <1>3, <4>1, <4>2 DEF ReadCurrent, Locked
      <3>2. CASE At(p, "read black") /\ SaveRead(p)
        <4>1. Goes(p, [proc[p] EXCEPT !.pc = "read white", !.data.black = BlacklistTargets])
          BY <3>2 DEF SaveRead, At
        <4>2. /\ proc'[p].pc = "read white" /\ proc'[p].data.black = BlacklistTargets
              /\ proc'[p].data.policy = proc[p].data.policy
          <5>1. proc'[p] = [proc[p] EXCEPT !.pc = "read white", !.data.black = BlacklistTargets]
            BY <1>3, <4>1, Zenon
          <5>2. QED
            BY <1>1, <5>1 DEF Locals, Records, Contents
        <4>3. QED
          BY <1>2, <1>3, <3>2, <4>1, <4>2 DEF ReadCurrent, Locked, lists, At
      <3>3. CASE At(p, "read white") /\ SaveRead(p)
        <4>1. Goes(p, [proc[p] EXCEPT !.pc = "truncate", !.data.white = WhitelistTargets])
          BY <3>3 DEF SaveRead, At
        <4>2. /\ proc'[p].pc = "truncate" /\ proc'[p].data.white = WhitelistTargets
              /\ proc'[p].data.policy = proc[p].data.policy
              /\ proc'[p].data.black = proc[p].data.black
          <5>1. proc'[p] = [proc[p] EXCEPT !.pc = "truncate", !.data.white = WhitelistTargets]
            BY <1>3, <4>1, Zenon
          <5>2. QED
            BY <1>1, <5>1 DEF Locals, Records, Contents
        <4>3. QED
          BY <1>2, <1>3, <3>3, <4>1, <4>2 DEF ReadCurrent, Locked, lists, At
      <3>4. CASE SaveTruncate(p)
        <4>1. Goes(p, [proc[p] EXCEPT !.pc = "write"]) /\ proc[p].pc = "truncate"
          BY <3>4 DEF SaveTruncate, At
        <4>2. proc'[p].pc = "write" /\ proc'[p].data = proc[p].data
          BY <1>1, <1>3, <4>1 DEF Locals, Records
        <4>3. QED
          BY <1>2, <1>3, <4>1, <4>2 DEF ReadCurrent, Locked, lists
      <3>5. QED
        BY <1>5, <3>1, <3>2, <3>3, <3>4 DEF SaveRead
    <2>4. (\A q \in Procs : proc'[q].pc \notin Dirty) => (\A q \in Procs : proc[q].pc \notin Dirty)
      BY <2>1, <2>3 DEF Dirty
    <2>5. stateMutex' # Free
      BY <1>1, <2>1, <2>2
    <2>6. \A q \in Procs : proc'[q].pc \in Locked <=> stateMutex' = q
      BY <2>1, <2>2, <2>3
    <2>7. proc[p].pc \in Locked
      BY <2>1 DEF Locked
    <2>8. (\A q \in Procs : proc'[q].pc \notin Dirty) =>
            \A q \in Procs : proc'[q].pc \in Locked => ReadCurrent(q)'
      BY <1>2, <2>2, <2>3, <2>4, <2>7 DEF SaveInv
    <2>9. QED
      BY <2>5, <2>6, <2>8 DEF SaveInv
  <1>6. CASE SaveWrite(p) \/ SaveFail(p)
    <2>1. proc[p].pc \in {"truncate", "write"} /\ stateMutex' = Free
      BY <1>6 DEF SaveWrite, SaveFail, At
    <2>2. \A q \in Procs \ {p} : proc[q].pc \notin Locked
      BY <2>1 DEF SaveInv, Locked
    <2>3. proc'[p] = Idle /\ \A q \in Procs \ {p} : proc'[q] = proc[q]
      BY <1>3, <1>6 DEF SaveWrite, SaveFail
    <2>4. \A q \in Procs : proc'[q].pc \notin Locked
      BY <2>2, <2>3, IdlePc DEF Locked
    <2>5. ASSUME \A q \in Procs : proc'[q].pc \notin Dirty, ~saveFailed'
          PROVE  file'.content = Current'
      <3>1. SaveWrite(p)
        BY <1>6, <2>5 DEF SaveFail
      <3>2. \A q \in Procs : proc[q].pc \notin Dirty
        BY <2>1, <2>3, <2>5 DEF Dirty
      <3>3. ReadCurrent(p)
        BY <1>2, <2>1, <3>2 DEF SaveInv, Locked
      <3>4. proc[p].data \in Contents
        BY <1>1 DEF Locals, Records
      <3>5. proc[p].data = Current
        BY <2>1, <3>3, <3>4 DEF ReadCurrent, Current, Content, Contents
      <3>6. Current' = Current
        BY <1>2 DEF Current, Content, lists
      <3>7. QED
        BY <3>1, <3>5, <3>6 DEF SaveWrite, Saved
    <2>6. QED
      BY <1>1, <2>1, <2>4, <2>5 DEF SaveInv
  <1>7. QED
    BY <1>4, <1>5, <1>6 DEF Save

LEMMA SaveInit == Init => SaveInv
  <1> SUFFICES ASSUME Init PROVE SaveInv
    OBVIOUS
  <1>1. \A p \in Procs : proc[p].pc = "idle"
    BY IdlePc DEF Init
  <1>2. stateMutex = Free /\ main # Up
    BY DEF Init, Up
  <1>3. QED
    BY <1>1, <1>2, ConstantTypes DEF SaveInv, Locked

LEMMA SaveNext == TypeInv /\ RestoreInv /\ SaveInv /\ [Next]_vars => SaveInv'
  <1> SUFFICES ASSUME TypeInv, RestoreInv, SaveInv, [Next]_vars PROVE SaveInv'
    OBVIOUS
  <1>1. proc \in [Procs -> Locals] /\ Handlers \subseteq Procs /\ Engine \in Procs
    BY ConstantTypes DEF TypeInv
  <1>2. ASSUME NEW p \in Procs, NEW r, Goes(p, r)
        PROVE  proc'[p] = r /\ \A q \in Procs \ {p} : proc'[q] = proc[q]
    BY <1>1, <1>2 DEF Goes
  <1>3. ASSUME UNCHANGED <<policy, lists, stateMutex, file, proc, main, saveFailed>>
        PROVE  SaveInv'
    BY <1>3 DEF SaveInv, ReadCurrent, Current, Content, lists
  <1>4. ASSUME NEW h \in Handlers,
               \/ \E t \in BlackTargets, op \in {"block", "unblock"} : BlacklistRequest(h, op, t)
               \/ \E t \in WhiteTargets, op \in {"allow", "disallow"} : WhitelistRequest(h, op, t)
        PROVE  SaveInv'
    <2>1. /\ proc[h].pc = "idle"
          /\ UNCHANGED <<policy, lists, stateMutex, file, main, saveFailed>>
      BY <1>4 DEF BlacklistRequest, WhitelistRequest, Request, At, maps
    <2>2. PICK op, t : Goes(h, [Idle EXCEPT !.pc = "cidrs", !.op = op, !.target = t,
                                            !.todo = CidrsOf[t]])
      BY <1>4, Zenon DEF BlacklistRequest, WhitelistRequest
    <2>3. proc'[h].pc = "cidrs"
      <3>1. proc'[h] = [Idle EXCEPT !.pc = "cidrs", !.op = op, !.target = t, !.todo = CidrsOf[t]]
        BY <1>1, <1>2, <2>2, Zenon
      <3>2. QED
        BY <3>1 DEF Idle
    <2>4. QED
      BY <1>1, <1>2, <2>1, <2>2, <2>3, QuietKeepsSaves DEF Dirty, Locked
  <1>5. ASSUME NEW h \in Handlers, NEW value \in {0, 1}, PolicyRequest(h, value)
        PROVE  SaveInv'
    <2>1. proc[h].pc = "idle" /\ UNCHANGED stateMutex
      BY <1>5 DEF PolicyRequest, Request, At
    <2>2. Goes(h, [Idle EXCEPT !.pc = "policy", !.op = "policy", !.value = value])
      BY <1>5 DEF PolicyRequest
    <2>3. proc'[h].pc = "policy"
      <3>1. proc'[h] = [Idle EXCEPT !.pc = "policy", !.op = "policy", !.value = value]
        BY <1>1, <1>2, <2>2, Zenon
      <3>2. QED
        BY <3>1 DEF Idle
    <2>4. QED
      BY <1>1, <1>2, <2>1, <2>2, <2>3, DirtyKeepsSaves DEF Dirty, Locked
  <1>6. ASSUME NEW h \in Handlers, ApplyCidr(h)
        PROVE  SaveInv'
    <2>1. /\ proc[h].pc = "cidrs"
          /\ UNCHANGED <<policy, lists, stateMutex, file, main, saveFailed>>
      BY <1>6 DEF ApplyCidr, At, history
    <2>2. PICK c : Goes(h, [proc[h] EXCEPT !.todo = @ \ {c}])
      BY <1>6 DEF ApplyCidr
    <2>3. proc'[h].pc = "cidrs"
      BY <1>1, <1>2, <2>1, <2>2 DEF Locals, Records
    <2>4. QED
      BY <1>1, <1>2, <2>1, <2>2, <2>3, QuietKeepsSaves DEF Dirty, Locked
  <1>7. ASSUME NEW h \in Handlers, ListTarget(h) \/ FallbackCheck(h) \/ SetPolicy(h)
        PROVE  SaveInv'
    <2>1. proc[h].pc \in {"cidrs", "fallback", "policy"} /\ UNCHANGED stateMutex
      BY <1>7 DEF ListTarget, FallbackCheck, SetPolicy, At
    <2>2. PICK pc \in {"fallback", "policy", "save"} : Goes(h, [proc[h] EXCEPT !.pc = pc])
      BY <1>7, Zenon DEF ListTarget, FallbackCheck, SetPolicy
    <2>3. proc'[h].pc = pc
      BY <1>1, <1>2, <2>2 DEF Locals, Records
    <2>4. QED
      BY <1>1, <1>2, <2>1, <2>2, <2>3, DirtyKeepsSaves DEF Dirty, Locked
  <1>8. CASE \E c \in Cidrs : EngineBlock(c) \/ Age(c)
    BY <1>3, <1>8 DEF EngineBlock, Age, history
  <1>9. CASE (\E c \in Cidrs : CleanRead(c)) \/ CleanDelete \/ CleanAbort
    <2>1. /\ proc[Engine].pc \in {"idle", "delete"}
          /\ UNCHANGED <<policy, lists, stateMutex, file, main, saveFailed>>
      BY <1>9 DEF CleanRead, CleanDelete, CleanAbort, At, maps, history
    <2>2. /\ proc'[Engine].pc \in {"idle", "delete"}
          /\ \A q \in Procs \ {Engine} : proc'[q] = proc[q]
      <3>1. CASE \E c \in Cidrs : CleanRead(c)
        <4>1. PICK c \in Cidrs : Goes(Engine, [proc[Engine] EXCEPT !.pc = "delete", !.todo = {c}])
          BY <3>1 DEF CleanRead
        <4>2. proc'[Engine] = [proc[Engine] EXCEPT !.pc = "delete", !.todo = {c}]
          BY <1>1, <1>2, <4>1, Zenon
        <4>3. proc'[Engine].pc = "delete"
          BY <1>1, <4>2 DEF Locals, Records
        <4>4. QED
          BY <1>1, <1>2, <4>1, <4>3
      <3>2. CASE CleanDelete
        <4>1. Goes(Engine, [proc[Engine] EXCEPT !.pc = "idle", !.todo = {},
                                                !.done = @ \cup proc[Engine].todo])
          BY <3>2 DEF CleanDelete
        <4>2. proc'[Engine] = [proc[Engine] EXCEPT !.pc = "idle", !.todo = {},
                                                   !.done = @ \cup proc[Engine].todo]
          BY <1>1, <1>2, <4>1, Zenon
        <4>3. proc'[Engine].pc = "idle"
          BY <1>1, <4>2 DEF Locals, Records
        <4>4. QED
          BY <1>1, <1>2, <4>1, <4>3
      <3>3. CASE CleanAbort
        BY <1>1, <1>2, <3>3, IdlePc DEF CleanAbort
      <3>4. QED
        BY <1>9, <3>1, <3>2, <3>3
    <2>3. QED
      BY <1>1, <2>1, <2>2, QuietKeepsSaves DEF Dirty, Locked
  <1>10. CASE CleanUnlist
    <2>1. proc[Engine].pc = "idle" /\ UNCHANGED stateMutex
      BY <1>10 DEF CleanUnlist, At
    <2>2. Goes(Engine, [proc[Engine] EXCEPT !.pc = "save"])
      BY <1>10 DEF CleanUnlist
    <2>3. proc'[Engine].pc = "save"
      BY <1>1, <1>2, <2>2 DEF Locals, Records
    <2>4. QED
      BY <1>1, <1>2, <2>1, <2>2, <2>3, DirtyKeepsSaves DEF Dirty, Locked
  <1>11. CASE Crash
    BY <1>11, ConstantTypes, IdlePc DEF Crash, SaveInv, Locked, Up
  <1>12. CASE Restore
    <2>1. UNCHANGED <<stateMutex, file, proc, saveFailed>> /\ main # Up
      BY <1>12 DEF Restore, RestoreNothing, RestorePolicy, RestoreBlack, RestoreBlackDone,
                   RestoreWhite, RestoreDone, history, Up
    <2>2. \A p \in Procs : proc[p].pc \notin Locked
      BY <2>1, IdlePc DEF RestoreInv, Locked
    <2>3. main' = Up /\ file.kind = "ok" => file.content = Current'
      <3>1. main' = Up => Current' = Current
        BY <2>1, RestoreEnds DEF maps, lists, Current, Content
      <3>2. QED
        BY <2>1, <3>1, RestoreEnds
    <2>4. QED
      BY <2>1, <2>2, <2>3 DEF SaveInv
  <1>13. CASE UNCHANGED vars
    BY <1>3, <1>13 DEF vars, maps, history
  <1>14. QED
    BY <1>4, <1>5, <1>6, <1>7, <1>8, <1>9, <1>10, <1>11, <1>12, <1>13, SaveKeepsSaves,
       ConstantTypes DEF Next, Handle, Clean

\* When no change is on its way to a save and no write failed, the file holds what the node
\* has, in whatever order the requests changed, read and wrote.
THEOREM FileIsCurrent == Spec => []FileCurrent
  <1>1. TypeInv /\ SaveInv => FileCurrent
    <2> SUFFICES ASSUME TypeInv, SaveInv, Settled, file.kind = "ok", ~saveFailed
                 PROVE  file.content = Current
      BY DEF FileCurrent
    <2>1. \A p \in Procs : proc[p].pc \notin Dirty \cup Locked
      BY DEF Settled, Dirty, Locked
    <2>2. stateMutex = Free
      BY <2>1 DEF SaveInv, TypeInv, FileTypes
    <2>3. QED
      BY <2>1, <2>2 DEF SaveInv, Settled
  <1>2. QED
    BY <1>1, TypeInit, TypeNext, RestoreInit, RestoreNext, SaveInit, SaveNext, PTL DEF Spec

-----------------------------------------------------------------------------
(* The default drop *)

LEMMA LockoutInit == Init => LockoutInv
  <1> SUFFICES ASSUME Init PROVE LockoutInv
    OBVIOUS
  <1>1. ~lockedOut => ~(file.content.policy = 1 /\ file.content.white = {})
    BY Zenon DEF Init
  <1>2. main # Up
    BY DEF Init, Up
  <1>3. QED
    BY <1>1, <1>2 DEF LockoutInv

\* A step of p that leaves the policy and the whitelist alone, and undoes nothing.
LEMMA OthersUndo ==
    ASSUME LockoutInv, main = Up, UNCHANGED <<main, policy, WhitelistTargets, crashes, lockedOut>>,
           NEW p \in Procs, \A q \in Procs \ {p} : proc'[q] = proc[q], ~Undoing(p)
    PROVE  LockoutInv'
  BY DEF LockoutInv, Undoing

LEMMA HandleKeepsLockout ==
    ASSUME TypeInv, LockoutInv, NEW h \in Handlers, Handle(h)
    PROVE  LockoutInv'
  <1>1. /\ proc \in [Procs -> Locals] /\ h \in Procs /\ proc[h] \in Locals
        /\ main = Up /\ UNCHANGED <<main, crashes>>
    BY ConstantTypes DEF TypeInv, Handle, ApplyCidr, ListTarget, FallbackCheck, SetPolicy, At, history
  <1>2. ASSUME NEW r, Goes(h, r)
        PROVE  proc'[h] = r /\ \A q \in Procs \ {h} : proc'[q] = proc[q]
    BY <1>1, <1>2 DEF Goes
  <1>3. CASE ApplyCidr(h)
    <2>1. proc[h].pc = "cidrs" /\ UNCHANGED <<policy, WhitelistTargets, lockedOut>>
      BY <1>3 DEF ApplyCidr, At, lists, history
    <2>2. PICK r : Goes(h, r)
      BY <1>3 DEF ApplyCidr
    <2>3. QED
      BY <1>1, <1>2, <2>1, <2>2, OthersUndo DEF Undoing
  <1>4. CASE ListTarget(h)
    <2>1. proc[h].pc = "cidrs" /\ UNCHANGED <<policy, lockedOut>>
      BY <1>4 DEF ListTarget, At, maps, history
    <2>2. PICK r : Goes(h, r)
      BY <1>4 DEF ListTarget
    <2>3. \A q \in Procs \ {h} : proc'[q] = proc[q]
      BY <1>2, <2>2
    <2>4. CASE proc[h].op = "disallow"
      <3>1. Goes(h, [proc[h] EXCEPT !.pc = "fallback"])
        BY <1>4, <2>4 DEF ListTarget
      <3>2. proc'[h] = [proc[h] EXCEPT !.pc = "fallback"]
        BY <1>2, <3>1, Zenon
      <3>3. proc'[h].pc = "fallback"
        BY <1>1, <3>2 DEF Locals, Records
      <3>4. Undoing(h)'
        BY <3>3 DEF Undoing
      <3>5. QED
        BY <1>1, <3>4 DEF LockoutInv
    <2>5. CASE proc[h].op # "disallow" /\ WhitelistTargets' # {}
      BY <1>1, <2>5 DEF LockoutInv
    <2>6. CASE proc[h].op # "disallow" /\ WhitelistTargets' = {}
      <3>1. WhitelistTargets = {}
        BY <1>4, <2>6 DEF ListTarget
      <3>2. ~Undoing(h)
        BY <2>1 DEF Undoing
      <3>3. QED
        BY <1>1, <2>1, <2>3, <2>6, <3>1, <3>2, OthersUndo
    <2>7. QED
      BY <2>4, <2>5, <2>6
  <1>5. CASE FallbackCheck(h)
    <2>1. proc[h].pc = "fallback" /\ UNCHANGED <<policy, WhitelistTargets, lockedOut>>
      BY <1>5 DEF FallbackCheck, At, maps, lists, history
    <2>2. CASE WhitelistTargets = {}
      <3>1. Goes(h, [proc[h] EXCEPT !.pc = "policy"])
        BY <1>5, <2>2 DEF FallbackCheck
      <3>2. proc'[h] = [proc[h] EXCEPT !.pc = "policy"]
        BY <1>2, <3>1, Zenon
      <3>3. proc[h].value = 0
        BY <1>1, <2>1 DEF Locals
      <3>4. Undoing(h)'
        BY <1>1, <3>2, <3>3 DEF Undoing, Locals, Records
      <3>5. QED
        BY <1>1, <3>4 DEF LockoutInv
    <2>3. CASE WhitelistTargets # {}
      BY <1>1, <2>1, <2>3 DEF LockoutInv
    <2>4. QED
      BY <2>2, <2>3
  <1>6. CASE SetPolicy(h)
    <2>1. /\ policy' = proc[h].value /\ UNCHANGED WhitelistTargets
          /\ ~lockedOut' => ~lockedOut /\ ~(proc[h].value = 1 /\ WhitelistTargets = {})
      BY <1>6 DEF SetPolicy, lists
    <2>2. QED
      BY <1>1, <2>1 DEF LockoutInv
  <1>7. QED
    BY <1>3, <1>4, <1>5, <1>6 DEF Handle

LEMMA LockoutNext == TypeInv /\ RestoreInv /\ LockoutInv /\ [Next]_vars => LockoutInv'
  <1> SUFFICES ASSUME TypeInv, RestoreInv, LockoutInv, [Next]_vars PROVE LockoutInv'
    OBVIOUS
  <1>1. proc \in [Procs -> Locals] /\ Handlers \subseteq Procs /\ Engine \in Procs
    BY ConstantTypes DEF TypeInv
  <1>2. ASSUME NEW p \in Procs, NEW r, Goes(p, r)
        PROVE  \A q \in Procs \ {p} : proc'[q] = proc[q]
    BY <1>1, <1>2 DEF Goes
  <1>3. ASSUME NEW p \in Procs, proc[p].pc \notin {"fallback", "policy"}, main = Up,
               NEW r, Goes(p, r), UNCHANGED <<main, policy, WhitelistTargets, crashes, lockedOut>>
        PROVE  LockoutInv'
    BY <1>2, <1>3, OthersUndo DEF Undoing
  <1>4. ASSUME NEW h \in Handlers,
               \/ \E t \in BlackTargets, op \in {"block", "unblock"} : BlacklistRequest(h, op, t)
               \/ \E t \in WhiteTargets, op \in {"allow", "disallow"} : WhitelistRequest(h, op, t)
               \/ \E value \in {0, 1} : PolicyRequest(h, value)
        PROVE  LockoutInv'
    <2>1. Request(h)
      BY <1>4 DEF BlacklistRequest, WhitelistRequest, PolicyRequest
    <2>2. PICK r : Goes(h, r)
      BY <1>4, Zenon DEF BlacklistRequest, WhitelistRequest, PolicyRequest
    <2>3. QED
      BY <1>1, <1>3, <2>1, <2>2 DEF Request, At, maps, lists
  <1>5. ASSUME NEW p \in Procs, SaveLock(p) \/ Save(p)
        PROVE  LockoutInv'
    <2>1. /\ proc[p].pc \notin {"fallback", "policy"} /\ main = Up
          /\ UNCHANGED <<main, policy, WhitelistTargets, crashes, lockedOut>>
      BY <1>5 DEF SaveLock, Save, SaveRead, SaveTruncate, SaveWrite, SaveFail, At, maps, lists,
                  history
    <2>2. PICK r : Goes(p, r)
      BY <1>5, Zenon DEF SaveLock, Save, SaveRead, SaveTruncate, SaveWrite, SaveFail
    <2>3. QED
      BY <1>3, <2>1, <2>2
  <1>6. CASE \E c \in Cidrs : EngineBlock(c) \/ Age(c)
    BY <1>6 DEF EngineBlock, Age, LockoutInv, Undoing, lists, history
  <1>7. CASE (\E c \in Cidrs : CleanRead(c)) \/ CleanDelete \/ CleanUnlist \/ CleanAbort
    <2>1. /\ proc[Engine].pc \notin {"fallback", "policy"} /\ main = Up
          /\ UNCHANGED <<main, policy, WhitelistTargets, crashes, lockedOut>>
      BY <1>7 DEF CleanRead, CleanDelete, CleanUnlist, CleanAbort, At, maps, lists, history
    <2>2. PICK r : Goes(Engine, r)
      BY <1>7, Zenon DEF CleanRead, CleanDelete, CleanUnlist, CleanAbort
    <2>3. QED
      BY <1>1, <1>3, <2>1, <2>2
  <1>8. CASE Crash
    <2>1. crashes' # 0
      BY <1>8 DEF Crash, TypeInv, HistoryTypes
    <2>2. QED
      BY <2>1 DEF LockoutInv
  <1>9. CASE Restore
    <2>1. UNCHANGED <<file, crashes, lockedOut>> /\ main # Up
      BY <1>9 DEF Restore, RestoreNothing, RestorePolicy, RestoreBlack, RestoreBlackDone,
                  RestoreWhite, RestoreDone, history, Up
    <2>2. CASE main' = Up
      <3>1. UNCHANGED <<policy, WhitelistTargets>>
        BY <2>1, <2>2, RestoreEnds DEF maps, lists
      <3>2. file.kind = "ok" => /\ policy = file.content.policy
                                /\ WhitelistTargets = file.content.white
        BY <2>1, <2>2, RestoreEnds DEF Current, Content
      <3>3. file.kind # "ok" => policy = 0
        BY <2>1, <2>2, RestoreEnds
      <3>4. QED
        BY <2>1, <2>2, <3>1, <3>2, <3>3 DEF LockoutInv
    <2>3. CASE main' # Up
      BY <2>1, <2>3 DEF LockoutInv
    <2>4. QED
      BY <2>2, <2>3
  <1>10. CASE UNCHANGED vars
    BY <1>10 DEF vars, maps, lists, history, LockoutInv, Undoing
  <1>11. QED
    BY <1>4, <1>5, <1>6, <1>7, <1>8, <1>9, <1>10, HandleKeepsLockout, ConstantTypes
    DEF Next, Clean

\* Without a crash, no order of requests leaves a node dropping everything behind an
\* operator's back.
THEOREM NodeIsNotLockedOut == Spec => []NoLockout
  <1>1. LockoutInv => NoLockout
    BY DEF LockoutInv, NoLockout, Settled, Undoing
  <1>2. QED
    BY <1>1, TypeInit, TypeNext, RestoreInit, RestoreNext, LockoutInit, LockoutNext, PTL DEF Spec
==============================================================================
