------------------------------ MODULE Examples ------------------------------
(***************************************************************************)
(* One example program runs: g2d_demo, or one that uses the camera.        *)
(***************************************************************************)
EXTENDS CameraApps, G2dDemo

vars == <<cameraAppVars, g2dVars>>

Init == CameraAppsInit /\ G2dInit

Camera_demo == app.name # "g2d_demo" /\ CameraAppsNext /\ UNCHANGED g2dVars
G2d_demo == app.name = "g2d_demo" /\ G2dNext /\ UNCHANGED cameraAppVars

HasEnded == IF app.name = "g2d_demo" THEN G2dEnded ELSE pc["main"] = Ended

Next == Camera_demo \/ G2d_demo \/ (HasEnded /\ UNCHANGED vars)
Spec == Init /\ [][Next]_vars
FairSpec == Spec /\ CameraAppsFairness
=============================================================================
