----------------------------- MODULE MCConsole ------------------------------
EXTENDS Console

(* The data of line 1 have an Enter, those of line 3 an 'A', and those of  *)
(* line 4 an 'A' and then an Enter.                                        *)
AnA == {<<3, 3>>, <<4, 3>>}
AnEnter == {<<1, 3>>, <<4, 4>>}

(* A host on the log UART while connections print, or a host on the AT     *)
(* UART without connections.                                               *)
OneHost == {[hosts |-> {"log"}, messages |-> TRUE], [hosts |-> {"at"}, messages |-> FALSE]}

(* A host on the AT UART that is misled by the prompt of a message. *)
Misled == {[hosts |-> {"at"}, messages |-> TRUE]}
=============================================================================
