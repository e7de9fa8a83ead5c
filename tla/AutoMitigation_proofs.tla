------------------------ MODULE AutoMitigation_proofs ------------------------
(***************************************************************************)
(* Proofs about AutoMitigation for all hold times and all measurements.    *)
(* Survival and the bounded reaction both rest on what is left of the hold *)
(* time: an emergency raise still has at least the ticks it owes, and the  *)
(* ticks an attack has waited plus the hold time left never exceed the     *)
(* longest hold of the level.                                              *)
(***************************************************************************)
EXTENDS AutoMitigation, TLAPS

MitigationInv ==
    /\ TypeOK
    /\ HoldBounded
    /\ survived < SurvivalHold =>
           currentLevel = 4 /\ levelHoldTime + survived >= SurvivalHold
    /\ currentLevel = 0 => behind <= RecoveryHold + 1
    /\ currentLevel = 5 => behind + levelHoldTime <= RecoveryHold
    /\ currentLevel \in 1 .. 4 => behind + levelHoldTime <= SurvivalHold

\* The demanded level is one of 0 to 4: never the 5 of Recovery.
LEMMA TargetRange ==
    ASSUME NEW m \in Measurements
    PROVE  TargetLevel(m) \in 0 .. 4 /\ (Emergency(m) => TargetLevel(m) = 4)
  <1>1. \A x, a, b, c, d : LevelOf(x, a, b, c, d) \in 0 .. 4
    BY DEF LevelOf
  <1>2. PICK p, q, r, s \in 0 .. 4 : ComponentLevels(m) = {p, q, r, s}
    BY <1>1 DEF ComponentLevels
  <1>3. \E l \in {p, q, r, s} : \A k \in {p, q, r, s} : k <= l
    BY SMT
  <1>4. (CHOOSE l \in ComponentLevels(m) : \A k \in ComponentLevels(m) : k <= l) \in 0 .. 4
    BY <1>2, <1>3
  <1>5. QED
    BY <1>4 DEF TargetLevel

\* The goroutine starts in Normal with nothing owed.
LEMMA InitInv == Init => MitigationInv
  BY HoldsAssumption DEF Init, MitigationInv, TypeOK, HoldBounded

\* Each outcome of a tick, and each Put, keeps the invariant.
LEMMA NextInv == MitigationInv /\ [Next]_vars => MitigationInv'
  <1> SUFFICES ASSUME MitigationInv, [Next]_vars PROVE MitigationInv'
    OBVIOUS
  <1> USE HoldsAssumption
  <1>1. CASE Warmup
    BY <1>1 DEF Warmup, MitigationInv, TypeOK, HoldBounded
  <1>2. ASSUME NEW m \in Measurements, Raise(m)
        PROVE  MitigationInv'
    BY <1>2, TargetRange DEF Raise, Tick, Protection, MitigationInv, TypeOK, HoldBounded
  <1>3. ASSUME NEW m \in Measurements, Promote(m)
        PROVE  MitigationInv'
    BY <1>3, TargetRange DEF Promote, Rising, Tick, Protection, MitigationInv, TypeOK, HoldBounded
  <1>4. ASSUME NEW m \in Measurements, HoldRising(m)
        PROVE  MitigationInv'
    BY <1>4, TargetRange DEF HoldRising, Rising, Tick, Protection, MitigationInv, TypeOK, HoldBounded
  <1>5. ASSUME NEW m \in Measurements, HoldFalling(m)
        PROVE  MitigationInv'
    BY <1>5, TargetRange DEF HoldFalling, Falling, Tick, Protection, MitigationInv, TypeOK, HoldBounded
  <1>6. ASSUME NEW m \in Measurements, Recover(m)
        PROVE  MitigationInv'
    BY <1>6, TargetRange DEF Recover, Falling, Tick, Protection, MitigationInv, TypeOK, HoldBounded
  <1>7. ASSUME NEW m \in Measurements, Normalise(m)
        PROVE  MitigationInv'
    BY <1>7, TargetRange DEF Normalise, Falling, Tick, Protection, MitigationInv, TypeOK, HoldBounded
  <1>8. ASSUME NEW m \in Measurements, Demote(m)
        PROVE  MitigationInv'
    BY <1>8, TargetRange DEF Demote, Falling, Tick, Protection, MitigationInv, TypeOK, HoldBounded
  <1>9. ASSUME NEW m \in Measurements, Stay(m)
        PROVE  MitigationInv'
    BY <1>9, TargetRange DEF Stay, Tick, Protection, MitigationInv, TypeOK, HoldBounded
  <1>10. CASE PutPps
    BY <1>10 DEF PutPps, MitigationInv, TypeOK, HoldBounded
  <1>11. CASE PutBps
    BY <1>11 DEF PutBps, MitigationInv, TypeOK, HoldBounded
  <1>12. CASE UNCHANGED vars
    BY <1>12 DEF vars, MitigationInv, TypeOK, HoldBounded
  <1>13. QED
    BY <1>1, <1>2, <1>3, <1>4, <1>5, <1>6, <1>7, <1>8, <1>9, <1>10, <1>11, <1>12 DEF Next

\* The invariant holds for every hold time and every set of measurements.
THEOREM MitigationInvariant == Spec => []MitigationInv
  BY InitInv, NextInv, PTL DEF Spec

\* currentLevel is one of the six levels, levelHoldTime is never lowered below
\* zero, and config_map holds limits of some level.
THEOREM TypeCorrect == Spec => []TypeOK
  <1>1. MitigationInv => TypeOK
    BY DEF MitigationInv
  <1>2. QED
    BY <1>1, MitigationInvariant, PTL

\* An emergency raise is kept for the whole survival hold.
THEOREM SurvivalIsKept == Spec => []SurvivalKept
  <1>1. MitigationInv => SurvivalKept
    BY DEF MitigationInv, SurvivalKept
  <1>2. QED
    BY <1>1, MitigationInvariant, PTL

\* No attack waits longer than the recovery hold plus one tick for its level.
THEOREM ReactionIsBounded == Spec => []ReactionBounded
  <1>1. MitigationInv => ReactionBounded
    BY HoldsAssumption DEF MitigationInv, ReactionBounded, TypeOK
  <1>2. QED
    BY <1>1, MitigationInvariant, PTL

\* Normal owes no hold time, and no level more than its hold.
THEOREM HoldIsBounded == Spec => []HoldBounded
  <1>1. MitigationInv => HoldBounded
    BY DEF MitigationInv
  <1>2. QED
    BY <1>1, MitigationInvariant, PTL

\* Half way through UpdateRateLimits one of the two limits is that of the level.
LimitsInv ==
    /\ limits = [pps |-> limits.pps, kbps |-> limits.kbps]
    /\ pc \in {"wait", "pps", "bps"}
    /\ pc = "bps" => limits.pps = PpsThreshold(currentLevel)
    /\ LimitsFollowLevel

\* A tick touches no limit and leaves both Puts to be done.
LEMMA TickKeepsLimits ==
    ASSUME LimitsInv, NEW m, NEW l, NEW h, Tick(m, l, h)
    PROVE  LimitsInv'
  BY DEF Tick, LimitsInv, LimitsFollowLevel

\* Between two ticks config_map holds both limits of the current level, whatever the
\* levels were.
THEOREM LimitsAreOfTheLevel == Spec => []LimitsFollowLevel
  <1>1. Init => LimitsInv
    BY DEF Init, LimitsInv, LimitsFollowLevel
  <1>2. LimitsInv /\ [Next]_vars => LimitsInv'
    <2> SUFFICES ASSUME LimitsInv, [Next]_vars PROVE LimitsInv'
      OBVIOUS
    <2>1. CASE Warmup
      BY <2>1 DEF Warmup, LimitsInv, LimitsFollowLevel
    <2>2. ASSUME NEW m \in Measurements, NEW l, NEW h, Tick(m, l, h)
          PROVE  LimitsInv'
      BY <2>2, TickKeepsLimits
    <2>3. CASE PutPps
      BY <2>3 DEF PutPps, LimitsInv, LimitsFollowLevel
    <2>4. CASE PutBps
      BY <2>4 DEF PutBps, LimitsInv, LimitsFollowLevel
    <2>5. CASE UNCHANGED vars
      BY <2>5 DEF vars, LimitsInv, LimitsFollowLevel
    <2>6. QED
      BY <2>1, <2>2, <2>3, <2>4, <2>5
      DEF Next, Raise, Promote, HoldRising, HoldFalling, Recover, Normalise, Demote, Stay
  <1>3. LimitsInv => LimitsFollowLevel
    BY DEF LimitsInv
  <1>4. QED
    BY <1>1, <1>2, <1>3, PTL DEF Spec
=============================================================================
