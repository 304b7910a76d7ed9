------------------------------- MODULE MCGame --------------------------------
(***************************************************************************)
(* The game as its players meet it: logging in, making a role, and walking *)
(* among others.  One of the three at a time; what of the others is fair   *)
(* to expect is not enabled then.                                          *)
(***************************************************************************)
EXTENDS MCLoginProtocol, AreaOfInterest

gameVars == <<loginVars, aoiVars>>

gameInit == part \in {"login", "roles", "scene"} /\ Init /\ roleInit /\ Idle /\ aoiInit

gameNext ==
    \/ loginNext /\ UNCHANGED aoiVars
    \/ part = "scene" /\ aoiNext /\ UNCHANGED loginVars

gameSpec == gameInit /\ [][gameNext]_gameVars /\ Fairness /\ roleFairness
=============================================================================
