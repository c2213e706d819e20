---------------------------- MODULE MCZ21Client ----------------------------
(* A small instance of Z21Client for TLC: two power commands, one attribute  *)
(* beside the track status and the subscriptions.                            *)
EXTENDS Z21Client

MCTrackStatus   == {"PowerOff", "PowerOn"}
MCCommands      == {"enableTrackPower", "disableTrackPower"}
MCOutcome       == [enableTrackPower |-> "PowerOn", disableTrackPower |-> "PowerOff"]
MCInfoQueries   == {"lockState"}
MCDeviceQueries == <<"trackStatus", "lockState", "subscriptions">>
=============================================================================
