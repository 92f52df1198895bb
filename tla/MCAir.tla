------------------------------- MODULE MCAir -------------------------------
(***************************************************************************)
(* An instance of Air for TLC: the third node hears both the others, who    *)
(* are hidden from each other except that the second hears the first; the   *)
(* second radiates and does not listen.                                     *)
(***************************************************************************)
EXTENDS Air

Hidden == <<<<0, 2, 2>>, <<0, 0, 1>>, <<1, 1, 0>>>>
=============================================================================
