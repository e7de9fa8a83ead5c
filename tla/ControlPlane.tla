---------------------------- MODULE ControlPlane ----------------------------
(***************************************************************************)
(* The life of the control plane: main of src/control_plane/main.go and    *)
(* LoadXDPProgram, Close and UnpinMaps of loader.go, around the GeoIP      *)
(* manager its requests share.                                             *)
(*                                                                         *)
(* Every start loads a new program with new maps: a generation.  The       *)
(* program on the interface and the pins in /sys/fs/bpf/shield_core belong *)
(* to the kernel and outlive the process, so each is a generation or None. *)
(* The five pins come and go together.  What restoreRulesState does to the *)
(* maps is in RuleStore.                                                   *)
(***************************************************************************)
EXTENDS GeoIPManager

CONSTANT MaxStarts  \* bound: starts of the control plane

ASSUME ControlPlaneAssumption == MaxStarts \in Nat

VARIABLES
    phase,      \* where main is
    generation, \* of this start: the number of starts so far
    mapMgr,     \* whether it has a program, and then a map manager
    attached,   \* the program on the interface
    pins,       \* the maps the pins lead to
    dropped,    \* whether the process has become nobody
    orphaned,   \* history: the pins are those of a start that ended or failed
    undetached, \* history: the program attached is that of a start that ended
    overrun     \* history: Shutdown gave up waiting for requests

kernel == <<attached, pins>>
past == <<orphaned, undetached, overrun>>
lifeVars == <<phase, generation, mapMgr, kernel, dropped, past>>
vars == <<geoVars, lifeVars>>

Init ==
    /\ GeoInit
    /\ phase = "down" /\ generation = 0 /\ mapMgr = FALSE
    /\ attached = None /\ pins = None
    /\ dropped = FALSE
    /\ orphaned = FALSE /\ undetached = FALSE /\ overrun = FALSE

Running == phase # "down"
Moves(from, to) == phase = from /\ phase' = to

-----------------------------------------------------------------------------
(* Starting *)

\* InitGeoIPManager, the first Reload.
Start ==
    /\ Moves("down", "loading")
    /\ generation < MaxStarts
    /\ generation' = generation + 1
    /\ Reloaded
    /\ UNCHANGED <<files, mu, requests, mapMgr, kernel, dropped, past>>

\* No such interface, no object file, or the verifier refuses: whatever was attached
\* before stays.
LoadFails ==
    /\ Moves("loading", "ready")
    /\ UNCHANGED <<geoVars, generation, mapMgr, kernel, dropped, past>>

\* An attached program is removed.  Pin fails where there is a pin, and nobody looks.
LoadAndPin ==
    /\ Moves("loading", "pinned")
    /\ attached' = None /\ undetached' = FALSE
    /\ pins' = IF pins = None THEN generation ELSE pins
    /\ UNCHANGED <<geoVars, generation, mapMgr, dropped, orphaned, overrun>>

\* Neither driver nor generic mode: LoadXDPProgram returns no program, so nobody will
\* call UnpinMaps.
AttachFails ==
    /\ Moves("pinned", "ready")
    /\ orphaned' = TRUE
    /\ UNCHANGED <<geoVars, generation, mapMgr, kernel, dropped, undetached, overrun>>

\* NewMapManager, the rate limits, restoreRulesState, the engine.
Attach ==
    /\ Moves("pinned", "ready")
    /\ attached' = generation
    /\ mapMgr' = TRUE
    /\ UNCHANGED <<geoVars, generation, pins, dropped, past>>

\* Started by root it becomes nobody, if setuid succeeds.
Serve ==
    /\ Moves("ready", "serving")
    /\ dropped' \in BOOLEAN
    /\ UNCHANGED <<geoVars, generation, mapMgr, kernel, past>>

-----------------------------------------------------------------------------
(* Stopping: SIGINT or SIGTERM *)

\* Mutant: the GeoIP manager is closed first.
Signal_CloseFirst ==
    /\ Moves("serving", "draining")
    /\ CloseReaders
    /\ UNCHANGED <<generation, mapMgr, kernel, dropped, past>>

Signal ==
    /\ Moves("serving", "draining")
    /\ UNCHANGED <<geoVars, generation, mapMgr, kernel, dropped, past>>

\* server.Shutdown returns when no request is left, or after 5 seconds.
Shutdown ==
    /\ Moves("draining", "drained")
    /\ overrun' = (\E h \in Requests : pc[h] # "idle")
    /\ UNCHANGED <<geoVars, generation, mapMgr, kernel, dropped, orphaned, undetached>>

\* Mutant: the pins are left for the next start.
UnpinMaps_Never ==
    /\ Moves("drained", "unpinned")
    /\ UNCHANGED <<geoVars, generation, mapMgr, kernel, dropped, past>>

\* Without a program there is no call.  Nobody may not reach the pins where bpffs is
\* mounted with mode=700, as systemd does; the error is ignored.
UnpinMaps ==
    /\ Moves("drained", "unpinned")
    /\ \/ /\ mapMgr
          /\ pins' = None /\ orphaned' = FALSE
       \/ /\ ~mapMgr \/ dropped
          /\ orphaned' = (pins # None)
          /\ UNCHANGED pins
    /\ UNCHANGED <<geoVars, generation, mapMgr, attached, dropped, undetached, overrun>>

\* Mutant: prog.Close is not deferred.
Close_Never ==
    /\ Moves("unpinned", "closing")
    /\ UNCHANGED <<geoVars, generation, mapMgr, kernel, dropped, past>>

\* The deferred prog.Close: nobody may not detach a program, and the error is ignored.
Close ==
    /\ Moves("unpinned", "closing")
    /\ attached' = IF mapMgr /\ ~dropped THEN None ELSE attached
    /\ undetached' = (undetached \/ (mapMgr /\ dropped))
    /\ UNCHANGED <<geoVars, generation, mapMgr, pins, dropped, orphaned, overrun>>

\* The deferred geoIPMgr.Close waits for mu.
CloseGeoIP ==
    /\ Moves("closing", "closed")
    /\ CloseReaders
    /\ UNCHANGED <<generation, mapMgr, kernel, dropped, past>>

Ends ==
    /\ phase' = "down"
    /\ Forget
    /\ mapMgr' = FALSE /\ dropped' = FALSE /\ overrun' = FALSE
    /\ UNCHANGED <<generation, kernel>>

Exit ==
    /\ phase = "closed"
    /\ Ends
    /\ UNCHANGED <<orphaned, undetached>>

\* A kill, a panic of the engine, or log.Fatalf, which runs no deferred call: as when
\* the port of the API is taken.
Crash ==
    /\ Running
    /\ Ends
    /\ orphaned' = (orphaned \/ pins # None)
    /\ undetached' = (undetached \/ attached # None)

-----------------------------------------------------------------------------
\* Requests begin while the server accepts them, and go on while the process does.
Request(h) ==
    /\ \/ phase = "serving" /\ Begin(h)
       \/ Running /\ (TakeLock(h) \/ Step(h))
    /\ UNCHANGED lifeVars

Update == (\E d \in Databases : UpdateFile(d)) /\ UNCHANGED lifeVars

Next ==
    \/ Start \/ LoadFails \/ LoadAndPin \/ AttachFails \/ Attach \/ Serve
    \/ Signal \/ Shutdown \/ UnpinMaps \/ Close \/ CloseGeoIP \/ Exit
    \/ Crash
    \/ Update
    \/ \E h \in Requests : Request(h)

Spec == Init /\ [][Next]_vars

\* Goroutines run, and sync.RWMutex lets neither readers nor writers starve: a writer
\* that waits holds new readers off, and those that wait go before the next writer.
Fairness ==
    \A h \in Requests :
        /\ WF_vars(Running /\ Step(h) /\ UNCHANGED lifeVars)
        /\ SF_vars(Running /\ TakeLock(h) /\ UNCHANGED lifeVars)

FairSpec == Spec /\ Fairness

-----------------------------------------------------------------------------
TypeOK ==
    /\ GeoTypeOK
    /\ phase \in {"down", "loading", "pinned", "ready", "serving", "draining",
                  "drained", "unpinned", "closing", "closed"}
    /\ generation \in 0 .. MaxStarts
    /\ attached \in 0 .. MaxStarts /\ pins \in 0 .. MaxStarts
    /\ mapMgr \in BOOLEAN /\ dropped \in BOOLEAN
    /\ orphaned \in BOOLEAN /\ undetached \in BOOLEAN /\ overrun \in BOOLEAN

\* A reader is found closed only by a request that Shutdown no longer waited for: the
\* order of main's last steps and of the deferred calls keeps it from all others.
NoNilReader == \A h \in Requests : answer[h] = Panic => overrun

\* README: the fastpath finds the program's maps under /sys/fs/bpf/shield_core.  The
\* pins lead to the maps of the program that runs, unless an earlier start left its own
\* in place: by a crash, a port in use, an attach that failed, or as nobody.
PinsOwn == (phase = "serving" /\ mapMgr /\ ~orphaned) => pins = generation

\* main.go:160 "no datapath filtering": with a map manager the filter on the interface
\* is the one whose maps it changes, and without one there is none, unless an earlier
\* start crashed or could not detach its program.
FilterOwn ==
    phase = "serving" =>
        IF mapMgr THEN attached = generation ELSE (attached = None \/ undetached)

\* Every request is answered, or ends with its process.
RequestAnswered == \A h \in Requests : (pc[h] # "idle") ~> (pc[h] = "idle")
=============================================================================
