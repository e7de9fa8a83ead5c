-------------------------- MODULE MCAutoMitigation --------------------------
(***************************************************************************)
(* The instances of AutoMitigation that TLC checks: the hold times of the  *)
(* source, and one measurement for each target level and cause.            *)
(***************************************************************************)
EXTENDS AutoMitigation

Reading(cpu, ram, drop, ring) == [cpu |-> cpu, ram |-> ram, drop |-> drop, ring |-> ring]

\* Calm, just below and above a threshold of each component, 50% drops.
MCMeasurements ==
    {Reading(600, 700, 10, 600), Reading(601, 0, 0, 0), Reading(0, 851, 0, 0),
     Reading(0, 0, 51, 0), Reading(0, 0, 0, 951), Reading(0, 0, 501, 0)}
=============================================================================
