--------------------------- MODULE MCWifiConnect ----------------------------
EXTENDS WifiConnect, TLC

Symmetry == Permutations(Caller)

Record(f, s, k, u) == [fn |-> f, sec |-> s, keyOk |-> k, user |-> u, full |-> {}]

(* wifi_connect with its own semaphore: every security whose events the    *)
(* handlers know, and one password of a wrong length.                      *)
SsidCalls ==
    {Record("ssid", s, TRUE, FALSE) : s \in {"open", "wep", "aes", "wpa"}}
        \cup {Record("ssid", "aes", FALSE, FALSE)}

(* Both functions, with and without a password, and with a semaphore of    *)
(* the user's.                                                             *)
BothCalls ==
    {Record(f, s, TRUE, FALSE) : f \in {"ssid", "bssid"}, s \in {"open", "aes"}}
        \cup {Record("bssid", "aes", FALSE, FALSE)}
        \cup {Record(f, "aes", TRUE, TRUE) : f \in {"ssid", "bssid"}}

(* Calls whose handler for the handshake's event finds no row: nothing     *)
(* tells a join with a password that the link is up.                       *)
UnheardCalls == {[p EXCEPT !.full = {"FOURWAY_HANDSHAKE_DONE"}] : p \in BothCalls}

EveryCall == SsidCalls \cup BothCalls \cup UnheardCalls
OpenCalls == {Record("ssid", "open", TRUE, FALSE)}
=============================================================================
