---------------------- MODULE MCEspNowBroadcastDriver ----------------------
(* A Director that may take channel 6 or the show channel, with two ids to *)
(* draw from on the latter.                                                *)
EXTENDS EspNowBroadcastDriver

MCDerivedId == [ch \in {6} |-> 1]
=============================================================================
