---------------------------- MODULE MCCandidates ----------------------------
(***************************************************************************)
(* Candidates on two nodes, one of which may have two NodeStates, with a   *)
(* service of another fleet on one of them and a child of this fleet on    *)
(* each.                                                                   *)
(***************************************************************************)
EXTENDS Candidates

Plain == [warmth |-> "Cold", util |-> None, count |-> 0, hit |-> None,
          hitAt |-> None, tpj |-> None, tpjAt |-> None, notice |-> FALSE]

MCStatuses ==
    { [Plain EXCEPT !.tpj = 5, !.tpjAt = Invalid],
      [Plain EXCEPT !.hit = 90, !.hitAt = 12],
      [Plain EXCEPT !.warmth = "Warming", !.tpj = 4, !.tpjAt = 9],
      [Plain EXCEPT !.notice = TRUE] }

MCNodeObjects ==
    { [labelled |-> TRUE,  cordoned |-> FALSE, gpus |-> 1],
      [labelled |-> TRUE,  cordoned |-> TRUE,  gpus |-> None],
      [labelled |-> FALSE, cordoned |-> FALSE, gpus |-> NoKey] }

MCPlaces == {<<"a", 1>>, <<"a", 2>>, <<"b", 1>>}

MCInstances ==
    { [id |-> 1, node |-> "a", own |-> TRUE],
      [id |-> 2, node |-> "b", own |-> FALSE],
      [id |-> 3, node |-> "b", own |-> TRUE] }
=============================================================================
