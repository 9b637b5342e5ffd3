-------------------------------- MODULE MCBoot --------------------------------
(***************************************************************************)
(* The features and actions of the firmware with every ENABLE_ flag set, as *)
(* src/config.h has them; of actions that behave alike here, one is kept.   *)
(***************************************************************************)
EXTENDS Boot, Commands

MCOrder == <<"systemFeatures", "LittleFs", "SdCard", "i2c", "OTA", "UI", "Berry">>

MCFeatures == {MCOrder[i] : i \in DOMAIN MCOrder}

MCEarly ==
  [f \in MCFeatures |->
     CASE f = "LittleFs" -> {"format"} [] f = "SdCard" -> {"sd"} [] OTHER -> {}]

MCLate ==
  [f \in MCFeatures |->
     CASE f = "systemFeatures" -> {"features"}
       [] f = "LittleFs"       -> {"list"}
       [] f = "i2c"            -> {"i2c"}
       [] f = "UI"             -> {"wm"}
       [] f = "Berry"          -> {"berry"}
       [] OTHER                -> {}]

(* Commands of up to six characters, and names that begin like each other   *)
ASSUME ParametersAreWords({"x", "y"}, 6)
ASSUME CommandsReachTheirAction(<<<<"x">>, <<"x", "y">>, <<"y">>>>, {"x", "y"}, 6)
ASSUME CommandsReachTheirAction(<<<<"x", "y">>, <<"x">>>>, {"x", "y"}, 6)
=============================================================================
