------------------------------ MODULE MCServer ------------------------------
(* Module Server with a page that may send two requests (a double click)   *)
(* and one other client; Server.cfg gives it the first click only.         *)
EXTENDS Server, TLC

CONSTANTS c1, c2, a1

MCOneClick == {c1}
MCClicks == {c1, c2}
MCCalls == {a1}
MCNoCalls == {}
=============================================================================
