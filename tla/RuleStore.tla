----------------------------- MODULE RuleStore ------------------------------
(***************************************************************************)
(* The blacklist, the whitelist and the default policy of one node: the    *)
(* HTTP handlers of src/control_plane/main.go, each request in a goroutine *)
(* of its own, the auto-mitigation engine, the two BPF tries and the policy *)
(* entry they write, the lists of targets, and the state file of persist.go *)
(* across crashes and restarts.                                            *)
(*                                                                         *)
(* A target (an address, a range or a country code) stands for the set of  *)
(* trie keys it resolves to.  Each write to a trie, each access to a list  *)
(* under its lock, each read of saveRulesState and the truncation and the  *)
(* writing of the file are steps of their own.  An entry of the blacklist  *)
(* trie carries the time of its last Put: here, whether its TTL has passed. *)
(***************************************************************************)
EXTENDS Integers, FiniteSets

CONSTANTS
    Cidrs,          \* keys of the tries
    Targets,        \* what an operator may list
    CidrsOf,        \* target |-> the keys it resolves to
    NameOf,         \* key |-> the target formatLpmKey writes for it, or NoTarget
    NoTarget,
    Handlers,       \* goroutines serving a request
    Engine,         \* the goroutine of startAutoMitigation
    Free,           \* nobody holds stateMutex
    BlackTargets,   \* targets requests blacklist,
    WhiteTargets,   \* and whitelist
    AttackSources,  \* keys ScanAndMitigate may block
    EarlierFiles,   \* state files an earlier life of the node may have left
    MaxRequests,    \* bound: requests in a behaviour
    MaxCrashes      \* bound: crashes in a behaviour

ASSUME StoreAssumption ==
    /\ CidrsOf \in [Targets -> SUBSET Cidrs]
    /\ NameOf \in [Cidrs -> Targets \cup {NoTarget}]
    /\ BlackTargets \subseteq Targets /\ WhiteTargets \subseteq Targets
    /\ AttackSources \subseteq Cidrs
    /\ NoTarget \notin Targets /\ Engine \notin Handlers
    /\ Free \notin Handlers \cup {Engine}
    /\ EarlierFiles \subseteq [kind : {"none", "torn", "ok"}, content :
            [policy : {0, 1}, black : SUBSET Targets, white : SUBSET Targets]]
    /\ MaxRequests \in Nat /\ MaxCrashes \in Nat

VARIABLES
    black,      \* cidr_blacklist_map: key |-> "absent", "fresh" or "old" (TTL passed)
    white,      \* cidr_whitelist_map: set of keys
    policy,     \* config_map[2]: 0 default pass, 1 default drop
    BlacklistTargets,
    WhitelistTargets,
    stateMutex, \* its holder
    file,       \* conf/rules_state.json
    proc,       \* goroutine |-> program counter and locals
    main,       \* the main goroutine: restoring, or up and serving
    requests,   \* history: requests so far
    crashes,    \* history: crashes so far
    saveFailed, \* history: the last attempt to save failed
    lockedOut   \* history: an operator chose default drop with an empty whitelist

maps == <<black, white, policy>>
lists == <<BlacklistTargets, WhitelistTargets>>
history == <<requests, crashes, saveFailed, lockedOut>>
vars == <<maps, lists, stateMutex, file, proc, main, history>>

Procs == Handlers \cup {Engine}

Content(p, b, w) == [policy |-> p, black |-> b, white |-> w]
Nothing == Content(0, {}, {})

\* What saveRulesState saves.
Current == Content(policy, BlacklistTargets, WhitelistTargets)

Idle == [pc |-> "idle", op |-> "none", target |-> NoTarget, todo |-> {}, done |-> {},
         value |-> 0, data |-> Nothing]

Up == [pc |-> "up", todo |-> {}]

NoFile == [kind |-> "none", content |-> Nothing]
Saved(content) == [kind |-> "ok", content |-> content]

\* The program has been loaded with new maps; restoreRulesState comes next.
Init ==
    /\ black = [c \in Cidrs |-> "absent"] /\ white = {} /\ policy = 0
    /\ BlacklistTargets = {} /\ WhitelistTargets = {}
    /\ stateMutex = Free
    /\ file \in EarlierFiles
    /\ proc = [p \in Procs |-> Idle]
    /\ main = [pc |-> "restore", todo |-> {}]
    /\ requests = 0 /\ crashes = 0 /\ saveFailed = FALSE
    /\ lockedOut = (file.content.policy = 1 /\ file.content.white = {})

\* Goroutine p, at pc, goes on with the locals r.
At(p, pc) == main = Up /\ proc[p].pc = pc
Goes(p, r) == proc' = [proc EXCEPT ![p] = r]

-----------------------------------------------------------------------------
(* handleBlacklist, handleWhitelist, handleRulesPolicy *)

Request(h) ==
    /\ At(h, "idle")
    /\ requests < MaxRequests
    /\ requests' = requests + 1
    /\ UNCHANGED <<maps, lists, stateMutex, file, main, crashes, saveFailed, lockedOut>>

\* Mutant: a country code is not resolved.
BlacklistRequest_Unresolved(h, op, t) ==
    /\ Request(h)
    /\ op \in {"block", "unblock"}
    /\ Goes(h, [Idle EXCEPT !.pc = "cidrs", !.op = op, !.target = t, !.todo = {t}])

BlacklistRequest(h, op, t) ==
    /\ Request(h)
    /\ op \in {"block", "unblock"}
    /\ Goes(h, [Idle EXCEPT !.pc = "cidrs", !.op = op, !.target = t, !.todo = CidrsOf[t]])

WhitelistRequest(h, op, t) ==
    /\ Request(h)
    /\ op \in {"allow", "disallow"}
    /\ Goes(h, [Idle EXCEPT !.pc = "cidrs", !.op = op, !.target = t, !.todo = CidrsOf[t]])

PolicyRequest(h, value) ==
    /\ Request(h)
    /\ Goes(h, [Idle EXCEPT !.pc = "policy", !.op = "policy", !.value = value])

\* One BlockCIDR, AllowCIDR, AddWhitelistCIDR or RemoveWhitelistCIDR.
ApplyCidr(h) ==
    /\ At(h, "cidrs")
    /\ \E c \in proc[h].todo :
        /\ black' = CASE proc[h].op = "block" -> [black EXCEPT ![c] = "fresh"]
                      [] proc[h].op = "unblock" -> [black EXCEPT ![c] = "absent"]
                      [] OTHER -> black
        /\ white' = CASE proc[h].op = "allow" -> white \cup {c}
                      [] proc[h].op = "disallow" -> white \ {c}
                      [] OTHER -> white
        /\ Goes(h, [proc[h] EXCEPT !.todo = @ \ {c}])
    /\ UNCHANGED <<policy, lists, stateMutex, file, main, history>>

\* AddBlacklistTarget and its three siblings; a whitelist DELETE goes on to the
\* fallback, everything else to saveRulesState.
ListTarget(h) ==
    /\ At(h, "cidrs")
    /\ proc[h].todo = {}
    /\ LET t == proc[h].target
       IN  /\ BlacklistTargets' =
                CASE proc[h].op = "block" -> BlacklistTargets \cup {t}
                  [] proc[h].op = "unblock" -> BlacklistTargets \ {t}
                  [] OTHER -> BlacklistTargets
           /\ WhitelistTargets' =
                CASE proc[h].op = "allow" -> WhitelistTargets \cup {t}
                  [] proc[h].op = "disallow" -> WhitelistTargets \ {t}
                  [] OTHER -> WhitelistTargets
    /\ Goes(h, [proc[h] EXCEPT !.pc = IF proc[h].op = "disallow" THEN "fallback" ELSE "save"])
    /\ UNCHANGED <<maps, stateMutex, file, main, history>>

\* Mutant: the list is not looked at before the answer.
FallbackCheck_Skipped(h) ==
    /\ At(h, "fallback")
    /\ Goes(h, [proc[h] EXCEPT !.pc = "save"])
    /\ UNCHANGED <<maps, lists, stateMutex, file, main, history>>

\* An empty whitelist makes the handler fall back to default pass.
FallbackCheck(h) ==
    /\ At(h, "fallback")
    /\ Goes(h, [proc[h] EXCEPT !.pc = IF WhitelistTargets = {} THEN "policy" ELSE "save"])
    /\ UNCHANGED <<maps, lists, stateMutex, file, main, history>>

\* SetGeoIPPolicy.
SetPolicy(h) ==
    /\ At(h, "policy")
    /\ policy' = proc[h].value
    /\ lockedOut' = (lockedOut \/ (proc[h].value = 1 /\ WhitelistTargets = {}))
    /\ Goes(h, [proc[h] EXCEPT !.pc = "save"])
    /\ UNCHANGED <<black, white, lists, stateMutex, file, main, requests, crashes, saveFailed>>

-----------------------------------------------------------------------------
(* saveRulesState *)

\* Mutant: the mutex is not waited for.
SaveLock_NoMutex(p) ==
    /\ At(p, "save")
    /\ stateMutex' = p
    /\ Goes(p, [proc[p] EXCEPT !.pc = "read policy"])
    /\ UNCHANGED <<maps, lists, file, main, history>>

SaveLock(p) ==
    /\ At(p, "save")
    /\ stateMutex = Free
    /\ stateMutex' = p
    /\ Goes(p, [proc[p] EXCEPT !.pc = "read policy"])
    /\ UNCHANGED <<maps, lists, file, main, history>>

\* The policy, the blacklist and the whitelist are read one after the other.
SaveRead(p) ==
    /\ \/ /\ At(p, "read policy")
          /\ Goes(p, [proc[p] EXCEPT !.pc = "read black", !.data.policy = policy])
       \/ /\ At(p, "read black")
          /\ Goes(p, [proc[p] EXCEPT !.pc = "read white", !.data.black = BlacklistTargets])
       \/ /\ At(p, "read white")
          /\ Goes(p, [proc[p] EXCEPT !.pc = "truncate", !.data.white = WhitelistTargets])
    /\ UNCHANGED <<maps, lists, stateMutex, file, main, history>>

\* os.WriteFile truncates the file, then writes it: what is in between cannot be
\* parsed.
SaveTruncate(p) ==
    /\ At(p, "truncate")
    /\ file' = [kind |-> "torn", content |-> Nothing]
    /\ Goes(p, [proc[p] EXCEPT !.pc = "write"])
    /\ UNCHANGED <<maps, lists, stateMutex, main, history>>

\* The deferred Unlock ends the save, and with it the request.
SaveWrite(p) ==
    /\ At(p, "write")
    /\ file' = Saved(proc[p].data)
    /\ saveFailed' = FALSE
    /\ stateMutex' = Free
    /\ Goes(p, Idle)
    /\ UNCHANGED <<maps, lists, main, requests, crashes, lockedOut>>

\* Mutant: an early return that keeps the mutex.
SaveFail_KeepsLock(p) ==
    /\ At(p, "truncate") \/ At(p, "write")
    /\ saveFailed' = TRUE
    /\ Goes(p, Idle)
    /\ UNCHANGED <<maps, lists, stateMutex, file, main, requests, crashes, lockedOut>>

\* The file cannot be opened (it stays as it was) or written (it stays torn); the
\* error is logged, the request answered all the same.
SaveFail(p) ==
    /\ At(p, "truncate") \/ At(p, "write")
    /\ saveFailed' = TRUE
    /\ stateMutex' = Free
    /\ Goes(p, Idle)
    /\ UNCHANGED <<maps, lists, file, main, requests, crashes, lockedOut>>

-----------------------------------------------------------------------------
(* startAutoMitigation, as far as the rules are concerned *)

\* ScanAndMitigate blocks an address over the threshold; no target is listed and
\* nothing saved.
EngineBlock(c) ==
    /\ main = Up /\ proc[Engine] = Idle
    /\ black' = [black EXCEPT ![c] = "fresh"]
    /\ UNCHANGED <<white, policy, lists, stateMutex, file, proc, main, history>>

\* CleanExpiredBlacklist: the iterator reads an entry past its TTL ...
CleanRead(c) ==
    /\ At(Engine, "idle")
    /\ black[c] = "old"
    /\ Goes(Engine, [proc[Engine] EXCEPT !.pc = "delete", !.todo = {c}])
    /\ UNCHANGED <<maps, lists, stateMutex, file, main, history>>

\* ... and the key is deleted, whatever its value has become.
CleanDelete ==
    /\ At(Engine, "delete")
    /\ black' = [c \in Cidrs |-> IF c \in proc[Engine].todo THEN "absent" ELSE black[c]]
    /\ Goes(Engine, [proc[Engine] EXCEPT !.pc = "idle", !.todo = {},
                                         !.done = @ \cup proc[Engine].todo])
    /\ UNCHANGED <<white, policy, lists, stateMutex, file, main, history>>

\* The iteration is over: the deleted keys are taken off the list by name.
CleanUnlist ==
    /\ At(Engine, "idle")
    /\ proc[Engine].done # {}
    /\ Goes(Engine, [proc[Engine] EXCEPT !.pc = "save"])
    /\ BlacklistTargets' = BlacklistTargets \ {NameOf[c] : c \in proc[Engine].done}
    /\ UNCHANGED <<maps, WhitelistTargets, stateMutex, file, main, history>>

\* An iteration that ends in an error: its deletions are neither unlisted nor saved.
CleanAbort ==
    /\ At(Engine, "idle")
    /\ proc[Engine].done # {}
    /\ Goes(Engine, Idle)
    /\ UNCHANGED <<maps, lists, stateMutex, file, main, history>>

\* The TTL of an entry passes.
Age(c) ==
    /\ black[c] = "fresh"
    /\ black' = [black EXCEPT ![c] = "old"]
    /\ UNCHANGED <<white, policy, lists, stateMutex, file, proc, main, history>>

-----------------------------------------------------------------------------
(* Crash, restart and restoreRulesState *)

\* The process dies; the next one loads the program with new maps.
Crash ==
    /\ crashes < MaxCrashes
    /\ crashes' = crashes + 1
    /\ black' = [c \in Cidrs |-> "absent"] /\ white' = {} /\ policy' = 0
    /\ BlacklistTargets' = {} /\ WhitelistTargets' = {}
    /\ stateMutex' = Free
    /\ proc' = [p \in Procs |-> Idle]
    /\ main' = [pc |-> "restore", todo |-> {}]
    /\ saveFailed' = FALSE
    /\ UNCHANGED <<file, requests, lockedOut>>

\* No file, or one that cannot be parsed: the node starts with no rules.
RestoreNothing ==
    /\ main.pc = "restore"
    /\ file.kind # "ok"
    /\ main' = Up
    /\ UNCHANGED <<maps, lists, stateMutex, file, proc, history>>

RestorePolicy ==
    /\ main.pc = "restore"
    /\ file.kind = "ok"
    /\ policy' = file.content.policy
    /\ main' = [pc |-> "black", todo |-> file.content.black]
    /\ UNCHANGED <<black, white, lists, stateMutex, file, proc, history>>

\* Mutant: the target is listed, but not applied to the trie.
RestoreBlack_ListOnly ==
    /\ main.pc = "black"
    /\ \E t \in main.todo :
        /\ BlacklistTargets' = BlacklistTargets \cup {t}
        /\ black' = black
        /\ main' = [main EXCEPT !.todo = @ \ {t}]
    /\ UNCHANGED <<white, policy, WhitelistTargets, stateMutex, file, proc, history>>

\* AddBlacklistTarget and applyTargetToMap; nothing else runs yet.
RestoreBlack ==
    /\ main.pc = "black"
    /\ \E t \in main.todo :
        /\ BlacklistTargets' = BlacklistTargets \cup {t}
        /\ black' = [c \in Cidrs |-> IF c \in CidrsOf[t] THEN "fresh" ELSE black[c]]
        /\ main' = [main EXCEPT !.todo = @ \ {t}]
    /\ UNCHANGED <<white, policy, WhitelistTargets, stateMutex, file, proc, history>>

RestoreBlackDone ==
    /\ main = [pc |-> "black", todo |-> {}]
    /\ main' = [pc |-> "white", todo |-> file.content.white]
    /\ UNCHANGED <<maps, lists, stateMutex, file, proc, history>>

RestoreWhite ==
    /\ main.pc = "white"
    /\ \E t \in main.todo :
        /\ WhitelistTargets' = WhitelistTargets \cup {t}
        /\ white' = white \cup CidrsOf[t]
        /\ main' = [main EXCEPT !.todo = @ \ {t}]
    /\ UNCHANGED <<black, policy, BlacklistTargets, stateMutex, file, proc, history>>

RestoreDone ==
    /\ main = [pc |-> "white", todo |-> {}]
    /\ main' = Up
    /\ UNCHANGED <<maps, lists, stateMutex, file, proc, history>>

-----------------------------------------------------------------------------
Save(p) == SaveRead(p) \/ SaveTruncate(p) \/ SaveWrite(p) \/ SaveFail(p)

Handle(h) == ApplyCidr(h) \/ ListTarget(h) \/ FallbackCheck(h) \/ SetPolicy(h)

Clean == \E c \in Cidrs : CleanRead(c)

Restore ==
    \/ RestoreNothing \/ RestorePolicy \/ RestoreBlack \/ RestoreBlackDone
    \/ RestoreWhite \/ RestoreDone

Next ==
    \/ \E h \in Handlers :
        \/ \E t \in BlackTargets, op \in {"block", "unblock"} : BlacklistRequest(h, op, t)
        \/ \E t \in WhiteTargets, op \in {"allow", "disallow"} : WhitelistRequest(h, op, t)
        \/ \E value \in {0, 1} : PolicyRequest(h, value)
        \/ Handle(h)
    \/ \E p \in Procs : SaveLock(p) \/ Save(p)
    \/ \E c \in AttackSources : EngineBlock(c)
    \/ Clean \/ CleanDelete \/ CleanUnlist \/ CleanAbort
    \/ \E c \in Cidrs : Age(c)
    \/ Crash \/ Restore

Spec == Init /\ [][Next]_vars

\* The Go scheduler runs every goroutine, and sync.Mutex hands the lock to a
\* goroutine that has waited for long (its starvation mode).  Of this, the part
\* that the answer to h's request needs.
FairTo(h) ==
    /\ WF_vars(Handle(h))
    /\ SF_vars(SaveLock(h))
    /\ WF_vars(\E p \in Procs : Save(p))

-----------------------------------------------------------------------------
Contents == [policy : {0, 1}, black : SUBSET Targets, white : SUBSET Targets]

TypeOK ==
    /\ black \in [Cidrs -> {"absent", "fresh", "old"}]
    /\ white \subseteq Cidrs /\ policy \in {0, 1}
    /\ BlacklistTargets \subseteq Targets /\ WhitelistTargets \subseteq Targets
    /\ stateMutex \in Procs \cup {Free}
    /\ file \in [kind : {"none", "torn", "ok"}, content : Contents]
    /\ proc \in [Procs ->
        [pc : {"idle", "cidrs", "fallback", "policy", "save", "read policy", "read black",
               "read white", "truncate", "write", "delete"},
         op : {"none", "block", "unblock", "allow", "disallow", "policy"},
         target : Targets \cup {NoTarget}, todo : SUBSET Cidrs, done : SUBSET Cidrs,
         value : {0, 1}, data : Contents]]
    /\ main \in [pc : {"restore", "black", "white", "up"}, todo : SUBSET Targets]
    /\ requests \in 0 .. MaxRequests /\ crashes \in 0 .. MaxCrashes
    /\ saveFailed \in BOOLEAN /\ lockedOut \in BOOLEAN

\* No goroutine has a change of a list or of the policy still to be saved.
Settled ==
    main = Up /\ \A p \in Procs : proc[p].pc \in {"idle", "cidrs", "delete"}

\* "Gọi sau mỗi thay đổi": once every request has been answered, the file holds
\* what the node has, in whatever order the requests ran, unless a write failed.
FileCurrent ==
    (Settled /\ file.kind = "ok" /\ ~saveFailed) => file.content = Current

\* Deleting the last whitelist target falls back to default pass: as long as the
\* node does not crash, no order of requests leaves it dropping everything,
\* unless an operator asks for that.
NoLockout ==
    (Settled /\ crashes = 0 /\ ~lockedOut) => (policy = 1 => WhitelistTargets # {})

Present == {c \in Cidrs : black[c] # "absent"}

AllCidrs(ts) == UNION {CidrsOf[t] : t \in ts}

\* When the node comes up again, the tries hold exactly what its lists resolve
\* to, and the lists what the file does.
RestoredExactly ==
    [][(main # Up /\ main' = Up) =>
        /\ Present' = AllCidrs(BlacklistTargets') /\ white' = AllCidrs(WhitelistTargets')
        /\ file.kind = "ok" => Current' = file.content]_vars

\* A request is answered, whoever else saves and whatever fails.
RequestAnswered(h) == proc[h].pc # "idle" ~> proc[h].pc = "idle"

\* maps.h: the blacklist holds addresses, ranges and countries "blocked for good":
\* what the API lists as blocked is blocked.
ListedIsBlocked ==
    (main = Up /\ \A p \in Procs : proc[p] = Idle) =>
        AllCidrs(BlacklistTargets) \subseteq Present
=============================================================================
