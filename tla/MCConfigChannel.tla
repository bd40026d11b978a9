--------------------------- MODULE MCConfigChannel ---------------------------
(* One Lume, which a factory reset makes a second one to the register: uid 0. *)
EXTENDS ConfigChannel

CONSTANT a

SettingsValue == <<1, 2>>
=============================================================================
