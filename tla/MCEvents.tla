------------------------------ MODULE MCEvents ------------------------------
(* A small instance of Events: one event of no vehicle, one of a vehicle *)
(* that has no row, and one of a vehicle that has one.                   *)
EXTENDS Events, TLC

CONSTANTS x, y, w1, w2

MCAbout == (1 :> {}) @@ (2 :> {y}) @@ (3 :> {x})

\* The timeline cannot digest the third event; its pose is claimed before.
MCRaising == {<<"twin_timeline", 3>>}

\* A replay for all consumers, and one for the timeline alone.
MCNamed == {Consumer, {"twin_timeline"}}

=============================================================================
