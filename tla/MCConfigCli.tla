---------------------------- MODULE MCConfigCli ----------------------------
(***************************************************************************)
(* ConfigCli for TLC: task doc can be given a definition that validate     *)
(* rejects, and its source changes in one file of two; task pic is         *)
(* disabled.                                                               *)
(***************************************************************************)
EXTENDS ConfigCli, TLC

CONSTANTS doc, pic, doc1, doc2, pic1, f, g, a, b

MCNameIn == (doc1 :> doc) @@ (doc2 :> doc) @@ (pic1 :> pic)

MCFirstFile == (doc :> doc1) @@ (pic :> pic1)

MCSources == (doc :> {(f :> a) @@ (g :> a), (f :> b) @@ (g :> a)})
          @@ (pic :> {(f :> a) @@ (g :> a)})
=============================================================================
