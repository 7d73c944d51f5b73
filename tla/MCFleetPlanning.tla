-------------------------- MODULE MCFleetPlanning --------------------------
(***************************************************************************)
(* FleetPlanning over candidate lists drawn from a few profiles, chosen so *)
(* that each tier of both rankings decides between some two of them: ties, *)
(* absent, stale, undated and invalid signals included.                    *)
(***************************************************************************)
EXTENDS FleetPlanning

Base == [own |-> 0, warmth |-> "Warm", util |-> None, count |-> None,
         hit |-> None, hitAge |-> None, tpj |-> None, tpjAge |-> None]

MCProfiles ==
    { Base,
      [Base EXCEPT !.own = 1],
      [Base EXCEPT !.warmth = "Warming", !.count = 0],
      [Base EXCEPT !.count = 1, !.util = 0],
      [Base EXCEPT !.count = 0, !.util = 90],
      [Base EXCEPT !.util = 50],
      [Base EXCEPT !.util = Invalid, !.tpj = 3, !.tpjAge = 0],
      [Base EXCEPT !.tpj = 4, !.tpjAge = 2, !.count = 1],
      [Base EXCEPT !.tpj = 5, !.hit = 90, !.hitAge = 1],
      [Base EXCEPT !.tpj = 0 - 1, !.tpjAge = 0, !.hit = 150, !.hitAge = 0],
      [Base EXCEPT !.hit = 40, !.hitAge = 0, !.tpj = 9, !.tpjAge = 0 - 1] }

MCHorizons == {None, 1}
=============================================================================
