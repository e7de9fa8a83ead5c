--------------------------- MODULE AutoMitigation ---------------------------
(***************************************************************************)
(* The level machine of startAutoMitigation, src/control_plane/main.go:    *)
(* once a second the goroutine measures the host, moves the defence level  *)
(* under asymmetric hysteresis and writes the level's limits into          *)
(* config_map, one Put at a time, where the datapath reads them.  Level 0  *)
(* is Normal, 1 to 4 are rising defence (4 is Survival), 5 is Recovery.    *)
(* What the rest of a tick does to the blacklist is modelled by RuleStore. *)
(***************************************************************************)
EXTENDS Integers

CONSTANTS
    Measurements,   \* the readings of a tick, in per mille
    WarmupCycles,   \* 3
    SurvivalHold,   \* 30: ticks a raise by the emergency trigger is kept
    PromoteHold,    \* 5
    DemoteHold,     \* 30
    RecoveryHold    \* 60

Readings == [cpu : 0 .. 1000, ram : 0 .. 1000, drop : 0 .. 1000, ring : 0 .. 1000]

ASSUME HoldsAssumption ==
    /\ {WarmupCycles, SurvivalHold, PromoteHold, DemoteHold, RecoveryHold} \subseteq Nat
    /\ PromoteHold <= DemoteHold
    /\ DemoteHold <= SurvivalHold
    /\ SurvivalHold <= RecoveryHold

ASSUME MeasurementsAssumption ==
    Measurements \subseteq Readings

VARIABLES
    warmupCycles,
    currentLevel,
    levelHoldTime,
    load,           \* the last measurement acted upon
    pc,             \* what the goroutine does next: wait for the ticker, or a Put
    limits,         \* config_map: the pps and kbps limits the datapath reads
    survived,       \* history: ticks since the last emergency raise, up to SurvivalHold
    behind          \* history: ticks in a row the level protected less than demanded

vars == <<warmupCycles, currentLevel, levelHoldTime, load, pc, limits, survived, behind>>

-----------------------------------------------------------------------------
(* What a measurement demands *)

\* The level of one reading, given the four thresholds it must exceed.
LevelOf(x, t4, t3, t2, t1) ==
    IF x > t4 THEN 4 ELSE IF x > t3 THEN 3 ELSE IF x > t2 THEN 2 ELSE IF x > t1 THEN 1 ELSE 0

\* The map level is always 0: ip_blacklist_map is not a map of the program and
\* the usage of ip_stats_map is not counted (GetMapHealth).
ComponentLevels(m) ==
    {LevelOf(m.cpu, 950, 900, 800, 600), LevelOf(m.ram, 950, 920, 850, 700),
     LevelOf(m.drop, 100, 50, 30, 10), LevelOf(m.ring, 950, 900, 800, 600)}

Emergency(m) == m.cpu > 980 \/ m.ram > 980 \/ m.drop > 500 \/ m.ring > 980

TargetLevel(m) ==
    IF Emergency(m) THEN 4
    ELSE CHOOSE l \in ComponentLevels(m) : \A k \in ComponentLevels(m) : k <= l

-----------------------------------------------------------------------------
(* What a level sets *)

PpsThreshold(l) == <<5000, 3000, 1000, 500, 300, 3000>>[l + 1]
KbpsThreshold(l) == <<10240, 5120, 2048, 1024, 500, 5120>>[l + 1]

\* Recovery applies the limits of level 1: it protects against no more than that.
Protection(l) == IF l = 5 THEN 1 ELSE l

-----------------------------------------------------------------------------
\* main writes the limits of Normal before it starts the goroutine.
Init ==
    /\ warmupCycles = WarmupCycles
    /\ currentLevel = 0
    /\ levelHoldTime = 0
    /\ load \in {m \in Measurements : TargetLevel(m) = 0}
    /\ pc = "wait"
    /\ limits = [pps |-> PpsThreshold(0), kbps |-> KbpsThreshold(0)]
    /\ survived = SurvivalHold
    /\ behind = 0

\* The first ticks only reset the queue counters.
Warmup ==
    /\ pc = "wait"
    /\ warmupCycles > 0
    /\ warmupCycles' = warmupCycles - 1
    /\ UNCHANGED <<currentLevel, levelHoldTime, load, pc, limits, survived, behind>>

\* A tick that measures m and moves the machine to level l with hold time h.
Tick(m, l, h) ==
    /\ pc = "wait"
    /\ warmupCycles = 0
    /\ load' = m
    /\ currentLevel' = l
    /\ levelHoldTime' = h
    /\ pc' = "pps"
    /\ survived' = IF Emergency(m) /\ currentLevel # 4 THEN 0
                   ELSE IF survived < SurvivalHold THEN survived + 1 ELSE survived
    /\ behind' = IF TargetLevel(m) > Protection(l) THEN behind + 1 ELSE 0
    /\ UNCHANGED <<warmupCycles, limits>>

\* The emergency trigger overrides the hysteresis.
Raise(m) ==
    /\ Emergency(m)
    /\ currentLevel # 4
    /\ Tick(m, 4, SurvivalHold)

Rising(m) == TargetLevel(m) > currentLevel /\ ~(Emergency(m) /\ currentLevel # 4)
Falling(m) == TargetLevel(m) < currentLevel /\ ~(Emergency(m) /\ currentLevel # 4)

\* A higher level is entered when the hold time is over, or at once from
\* Recovery: no target exceeds 5, so the code's way out of Recovery is dead.
Promote(m) ==
    /\ Rising(m)
    /\ currentLevel = 5 \/ levelHoldTime = 0
    /\ Tick(m, TargetLevel(m), PromoteHold)

\* Mutant: the hold time runs down without end.
HoldRising_BelowZero(m) ==
    /\ Rising(m)
    /\ currentLevel # 5
    /\ Tick(m, currentLevel, levelHoldTime - 1)

HoldRising(m) ==
    /\ Rising(m)
    /\ currentLevel # 5 /\ levelHoldTime > 0
    /\ Tick(m, currentLevel, levelHoldTime - 1)

\* Mutant: a falling target is followed at once.
HoldFalling_Impatient(m) ==
    /\ Falling(m)
    /\ levelHoldTime > 0
    /\ Tick(m, TargetLevel(m), levelHoldTime - 1)

HoldFalling(m) ==
    /\ Falling(m)
    /\ levelHoldTime > 0
    /\ Tick(m, currentLevel, levelHoldTime - 1)

\* From a defence level to Recovery, when nothing demands a level any more.
Recover(m) ==
    /\ Falling(m)
    /\ levelHoldTime = 0
    /\ currentLevel \in 1 .. 4 /\ TargetLevel(m) = 0
    /\ Tick(m, 5, RecoveryHold)

\* Mutant: the cooldown of Recovery starts over instead of ending.
Normalise_Again(m) ==
    /\ Falling(m)
    /\ levelHoldTime = 0
    /\ currentLevel = 5
    /\ Tick(m, 5, RecoveryHold)

\* Mutant: Recovery ends one level down instead of in Normal.
Normalise_StepDown(m) ==
    /\ Falling(m)
    /\ levelHoldTime = 0
    /\ currentLevel = 5
    /\ Tick(m, 1, DemoteHold)

\* From Recovery to Normal, whatever the target is.
Normalise(m) ==
    /\ Falling(m)
    /\ levelHoldTime = 0
    /\ currentLevel = 5
    /\ Tick(m, 0, 0)

\* Mutant: the hold of Recovery is taken for that of a lower level.
Demote_RecoveryHold(m) ==
    /\ Falling(m)
    /\ levelHoldTime = 0
    /\ currentLevel \in 1 .. 4 /\ TargetLevel(m) > 0
    /\ Tick(m, TargetLevel(m), RecoveryHold)

Demote(m) ==
    /\ Falling(m)
    /\ levelHoldTime = 0
    /\ currentLevel \in 1 .. 4 /\ TargetLevel(m) > 0
    /\ Tick(m, TargetLevel(m), DemoteHold)

Stay(m) ==
    /\ TargetLevel(m) = currentLevel
    /\ Tick(m, currentLevel, levelHoldTime)

\* Mutant: the pps limit is only ever tightened.
PutPps_Tighten ==
    /\ pc = "pps"
    /\ limits' = [limits EXCEPT !.pps = IF PpsThreshold(currentLevel) < @
                                       THEN PpsThreshold(currentLevel) ELSE @]
    /\ pc' = "bps"
    /\ UNCHANGED <<warmupCycles, currentLevel, levelHoldTime, load, survived, behind>>

\* UpdateRateLimits: two Puts, between which the datapath reads one limit of
\* each level.
PutPps ==
    /\ pc = "pps"
    /\ limits' = [limits EXCEPT !.pps = PpsThreshold(currentLevel)]
    /\ pc' = "bps"
    /\ UNCHANGED <<warmupCycles, currentLevel, levelHoldTime, load, survived, behind>>

PutBps ==
    /\ pc = "bps"
    /\ limits' = [limits EXCEPT !.kbps = KbpsThreshold(currentLevel)]
    /\ pc' = "wait"
    /\ UNCHANGED <<warmupCycles, currentLevel, levelHoldTime, load, survived, behind>>

Next ==
    \/ Warmup
    \/ \E m \in Measurements :
        \/ Raise(m) \/ Promote(m) \/ HoldRising(m) \/ HoldFalling(m)
        \/ Recover(m) \/ Normalise(m) \/ Demote(m) \/ Stay(m)
    \/ PutPps \/ PutBps

Spec == Init /\ [][Next]_vars

\* The ticker fires every second for ever and no step of a tick blocks.
FairSpec == Spec /\ WF_vars(Next)

-----------------------------------------------------------------------------
TypeOK ==
    /\ warmupCycles \in 0 .. WarmupCycles
    /\ currentLevel \in 0 .. 5
    /\ levelHoldTime \in Nat
    /\ load \in Measurements
    /\ pc \in {"wait", "pps", "bps"}
    /\ limits \in [pps : {PpsThreshold(l) : l \in 0 .. 5}, kbps : {KbpsThreshold(l) : l \in 0 .. 5}]
    /\ survived \in 0 .. SurvivalHold
    /\ behind \in Nat

\* "Giu survival toi thieu 30s": for SurvivalHold ticks after the emergency
\* trigger raised the level, nothing lowers it, whatever is measured.
SurvivalKept == survived < SurvivalHold => currentLevel = 4

\* The answer to an attack is bounded: however the load moves, the level never
\* protects less than demanded for more than RecoveryHold + 1 ticks in a row.
ReactionBounded == behind <= RecoveryHold + 1

\* The hold times bound each other: the machine has no debt of hold time in
\* Normal, and outside Recovery never more than the survival hold.
HoldBounded ==
    /\ currentLevel = 0 => levelHoldTime = 0
    /\ levelHoldTime <= (IF currentLevel = 5 THEN RecoveryHold ELSE SurvivalHold)

\* Whatever happened before, a demand that stays at level t brings the machine
\* to t and keeps it there: hysteresis delays the level but never loses it.
Settles(t) == <>[](TargetLevel(load) = t) => <>[](currentLevel = t)

Converges == \A t \in 0 .. 4 : Settles(t)

\* Between two ticks the datapath reads the limits of the current level.
LimitsFollowLevel ==
    pc = "wait" => limits = [pps |-> PpsThreshold(currentLevel), kbps |-> KbpsThreshold(currentLevel)]

\* "Dang Recovery mà bi tan cong lai -> Cancel Recovery, nhay len Level moi
\* ngay": a demand measured during Recovery ends Recovery in that tick.
RecoveryCancelled ==
    [][ currentLevel = 5 /\ pc = "wait" /\ pc' = "pps" /\ TargetLevel(load') > 0
            => currentLevel' = TargetLevel(load') ]_vars
=============================================================================
