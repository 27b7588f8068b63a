---------------------------- MODULE MCReceivers ----------------------------
(* Small logs for the four receivers. *)
EXTENDS Receivers

CONSTANTS sv1, sv2, glonass

const_Models == {"ublox", "javad", "nvs", "resolution"}
const_SVs == {sv1, sv2, glonass}
const_GPSSVs == {sv1, sv2}
\* With MaxChannels = 2, two satellites of GPS and one of GLONASS are one too
\* many for a Resolution, and with MaxRaw = 2 two are for an NVS receiver
const_Views ==
    [m \in const_Models |-> IF m \in {"ublox", "javad"} THEN SUBSET {sv1}
                           ELSE IF m = "nvs" THEN {{}, {sv1}, {sv1, glonass}}
                           ELSE {{}, {sv1}, {sv1, sv2, glonass}}]
const_Damage == {"lost", "bad", "size", "outlier", "late"}
const_JavadOrder ==
    <<"RD", "~~", "SI", "TO", "YA", "ZA", "SS", "EL", "AZ", "FC", "rc", "RC">>
============================================================================
