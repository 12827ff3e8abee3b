----------------------------- MODULE MCStartup ------------------------------
(***************************************************************************)
(* Instances of Startup for TLC: a server and its successor on one host, a *)
(* third process on another one; a migration that creates two names, and   *)
(* one that only changes data.                                             *)
(***************************************************************************)
EXTENDS Startup, TLC

CONSTANTS p1, p2, p3, h1, h2

MCProcesses == {p1, p2, p3}
MCHosts == {h1, h2}
MCHost == (p1 :> h1) @@ (p2 :> h1) @@ (p3 :> h2)
MCStatements == <<2, 1>>
MCCreates == {<<1, 1>>, <<1, 2>>}
=============================================================================
