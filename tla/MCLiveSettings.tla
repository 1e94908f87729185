--------------------------- MODULE MCLiveSettings ---------------------------
(***************************************************************************)
(* Browser tabs and what they do, for the instances TLC checks.            *)
(***************************************************************************)
EXTENDS LiveSettings, TLC

CONSTANTS a, b

TwoTabs == {a, b}

(* One tab has the tone controls, the other one the settings drawer and    *)
(* the volume.                                                             *)
ToneAndDrawer == a :> ToneOperations @@ b :> {"volume", "drawer"}
=============================================================================
