-------------------------- MODULE MCIndexLifecycle --------------------------
EXTENDS IndexLifecycle, TLC

CONSTANTS c1, c2, c3, c4, a, b, k, x, y, g, v1, v2, v3, v4

(* Two files of code, a configuration file, two assets and an ignored file. *)
MCClass == (a :> "code") @@ (b :> "code") @@ (k :> "config") @@ (x :> "asset")
             @@ (y :> "asset") @@ (g :> "ignored")

Files6(fa, fb, fk, fx, fy, fg) ==
  (a :> fa) @@ (b :> fb) @@ (k :> fk) @@ (x :> fx) @@ (y :> fy) @@ (g :> fg)

(* c1 to c2 changes an asset; c1 to c3 renames a to b and adds an asset: c3 has four
   nodes, one more than NodeLimit; c1 to c4 changes a and the configuration and moves
   the asset to an ignored path. *)
MCTree ==
     (c1 :> Files6(v1, Absent, v1, v3, Absent, Absent))
  @@ (c2 :> Files6(v1, Absent, v1, v4, Absent, Absent))
  @@ (c3 :> Files6(Absent, v1, v1, v3, v4, Absent))
  @@ (c4 :> Files6(v2, Absent, v2, Absent, Absent, v3))

CleanTrees == [c \in Commits |-> {MCTree[c]}]

Opt(mode, force, name) == [mode |-> mode, force |-> force, name |-> name]
MCOptions ==
  {Opt("auto", FALSE, "free"), Opt("off", FALSE, "taken"), Opt("on", TRUE, "free")}
=============================================================================
