-------------------------- MODULE MCCameraSession ---------------------------
(* The instances of CameraMenu the runs check.                             *)
EXTENDS CameraMenu

OneChannel == {0}
TwoChannels == {0, 1}
OneMore == {3}
=============================================================================
