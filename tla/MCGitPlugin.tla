---------------------------- MODULE MCGitPlugin ----------------------------
(***************************************************************************)
(* GitPlugin for TLC: two files, and commits that change one file and      *)
(* delete or add the other.                                                *)
(***************************************************************************)
EXTENDS GitPlugin, TLC

CONSTANTS f, g, a, b, c1, c2

MCTreeOf == (c1 :> ((f :> a) @@ (g :> a))) @@ (c2 :> ((f :> b) @@ (g :> None)))
=============================================================================
