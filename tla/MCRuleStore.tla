---------------------------- MODULE MCRuleStore -----------------------------
(***************************************************************************)
(* The instances of RuleStore that TLC checks: a country of two ranges, an  *)
(* address of one of them, and an allowed address.                         *)
(***************************************************************************)
EXTENDS RuleStore, TLC

CONSTANTS country, addr, friend, r1, r2, r3

MCCidrsOf == (country :> {r1, r2}) @@ (addr :> {r1}) @@ (friend :> {r3})

\* An address is listed by its name; a range of the country has no target.
MCNameOf == (r1 :> addr) @@ (r2 :> NoTarget) @@ (r3 :> friend)
\* A node in default drop, with a blocked and an allowed address.
MCEarlierFiles == {Saved(Content(1, {addr}, {friend}))}

NoEarlierFile == {NoFile}

CONSTANTS h1, h2

\* The handlers are alike, so one is watched.
WatchedSpec == Spec /\ FairTo(h1)

WatchedRequestAnswered == RequestAnswered(h1)
=============================================================================
