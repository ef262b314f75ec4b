----------------------------- MODULE MCUpdates -----------------------------
(* Small instances of Updates for TLC. *)
EXTENDS Updates, TLC

\* A release, a smaller one without a second platform, a larger one.
ThreeReleases == << (Default :> 4 @@ "appimage" :> 3), (Default :> 2),
                    (Default :> 5 @@ "appimage" :> 4) >>
=============================================================================
