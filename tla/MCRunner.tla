------------------------------ MODULE MCRunner ------------------------------
(***************************************************************************)
(* Runner for TLC: two tasks; the configuration file either enables both   *)
(* or has the second one disabled (a disabled task can still be triggered).*)
(***************************************************************************)
EXTENDS Runner, TLC

CONSTANTS docs, pics

Both     == (docs :> "enabled") @@ (pics :> "enabled")
OnlyDocs == (docs :> "enabled") @@ (pics :> "disabled")

MCConfigs == {Both, OnlyDocs}
=============================================================================
