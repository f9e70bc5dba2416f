----------------------------- MODULE DhcpServer -----------------------------
(***************************************************************************)
(* The DHCP server of the access point, dhcps.c: one state machine, one    *)
(* allocated address and one bound client for all exchanges, a table with  *)
(* a bit per address that is never cleared. It runs in the TCP/IP thread,  *)
(* one datagram after the other; datagrams are lost, overtaken, sent again *)
(* and arrive after their exchange is over. The clients are external: they *)
(* do what RFC 2131 has them do.                                           *)
(*                                                                         *)
(* An address of the network is its last byte.                             *)
(***************************************************************************)
EXTENDS Integers, FiniteSets, FiniteSetsExt

CONSTANTS
    Client,
    Nobody,
    Word,           \* addresses in one word of the table: 32
    Own,            \* dhcps_local_address
    Gateway,        \* dhcps_local_gateway
    PoolStart,      \* dhcps_addr_pool_start and _end, 0 and 255 when not set
    PoolEnd,
    MaxInFlight,    \* bound: datagrams of a client on their way when it sends one
                    \* that does not answer an offer
    MaxTroubles     \* bound: datagrams lost, clients that leave, unknown
                    \* messages, restarts

ASSUME DhcpAssumption ==
    /\ Word \in Nat \ {0}
    /\ {Own, Gateway} \subseteq 1 .. 4 * Word
    /\ {PoolStart, PoolEnd} \subseteq 0 .. 8 * Word - 1
    /\ MaxInFlight \in Nat /\ MaxTroubles \in Nat
    /\ Nobody \notin Client

VARIABLES
    machine,    \* dhcp_server_state_machine
    table,      \* the addresses whose bit is set in ip_table
    allocated,  \* dhcps_allocated_client_address
    bound,      \* bound_client_ethernet_address
    requested,  \* client_request_ip
    phase,      \* of each client
    address,    \* that a client has, asks for or remembers
    toServer,
    toClient,
    troubles,
    taken       \* for properties: addresses acknowledged to another client
                \* than the one that was offered them last

server  == <<machine, table, allocated, bound, requested, taken>>
clients == <<phase, address>>
vars    == <<server, clients, toServer, toClient, troubles>>

Nowhere == -1       \* an address of another network, 0.0.0.0 among them
Absent  == -2       \* no option 50 in the message
Host(a) == IF a = Nowhere THEN 0 ELSE a
WordOf(a) == (a - 1) \div Word
Address == 0 .. 8 * Word

Message == [from : Client, type : {"discover", "request", "release", "decline", "inform"},
            ip : Address \cup {Nowhere, Absent}, fresh : BOOLEAN]
Reply   == [to : Client, type : {"offer", "ack", "nak"}, ip : Address \cup {Nowhere}]

-----------------------------------------------------------------------------
(* The table.                                                              *)

(* mark_ip_in_table. For the fifth word the shift is by a - 1, without the *)
(* 128 to subtract: the processor shifts the bit out, and none is set.     *)
Latched(t, a) == IF a = 0 \/ WordOf(a) = 4 THEN t ELSE t \cup {a}

(* search_next_ip: the first address, 0 when there is none.                *)
Free == {a \in 1 .. 8 * Word : a \notin table /\ PoolStart <= a /\ a <= PoolEnd}
NextIp == IF Free = {} THEN 0 ELSE Min(Free)

(* A request is looked up in the first four words only, and not compared   *)
(* with the pool.                                                          *)
Available(ip) == ip # Nowhere /\ ip # 0 /\ WordOf(ip) <= 3 /\ ip \notin table

HoldsForAnyone(c, ip) == Host(allocated) # 0 /\ allocated = ip        \* mutant
(* The address is the one allocated last, and to this client.              *)
Holds(c, ip) == Host(allocated) # 0 /\ allocated = ip /\ bound = c

-----------------------------------------------------------------------------
(* The handler.                                                            *)

(* client_request_ip keeps the address of the last message that had one.   *)
Asked(msg) == IF msg.ip = Absent THEN requested ELSE msg.ip

AcceptsAnyOffer(ip) == allocated = ip                                 \* mutant
(* A request while an offer is out: whose it is is not looked at.          *)
AcceptsOffer(ip) == Host(allocated) # 0 /\ allocated = ip

Accepts(c, ip) ==
    \/ machine = "offer" /\ AcceptsOffer(ip)
    \/ machine = "idle" /\ (Holds(c, ip) \/ Available(ip))

(* dhcps_handle_state_machine_change *)
Change(msg) ==
    CASE msg.type \in {"decline", "release"} -> "idle"
      [] msg.type = "discover" -> IF machine = "idle" THEN "offer" ELSE machine
      [] msg.type = "request"  -> IF Accepts(msg.from, Asked(msg)) THEN "ack" ELSE "nak"
      [] OTHER -> machine

(* A client ignores replies to a message whose answer it no longer awaits.  *)
Send(msg, type, ip) ==
    toClient' = IF msg.fresh THEN toClient \cup {[to |-> msg.from, type |-> type, ip |-> ip]}
                             ELSE toClient

Offered(c, ip) == IF Holds(c, ip) \/ Available(ip) THEN ip ELSE NextIp

SendOffer(msg) ==
    LET ip == Offered(msg.from, Asked(msg))
    IN  /\ allocated' = ip /\ bound' = msg.from
        /\ machine' = "offer"
        /\ Send(msg, "offer", ip)
        /\ UNCHANGED <<table, taken>>

SendAck(msg) ==
    /\ allocated' = Asked(msg)
    /\ bound' = IF machine = "idle" THEN msg.from ELSE bound
    /\ Send(msg, "ack", Asked(msg))
    /\ table' = Latched(table, Asked(msg))
    /\ machine' = "idle"
    /\ taken' = IF machine = "offer" /\ bound # msg.from THEN taken \cup {Asked(msg)} ELSE taken

AfterNakRefusing == "nak"                                             \* mutant
AfterNak == "idle"
SendNak(msg) ==
    /\ Send(msg, "nak", Nowhere)
    /\ machine' = AfterNak
    /\ UNCHANGED <<table, allocated, bound, taken>>

(* dhcps_receive_udp_packet_handler *)
Handle(msg) ==
    /\ msg \in toServer
    /\ toServer' = toServer \ {msg}
    /\ requested' = Asked(msg)
    /\ CASE Change(msg) = "offer" -> SendOffer(msg)
         [] Change(msg) = "ack"   -> SendAck(msg)
         [] Change(msg) = "nak"   -> SendNak(msg)
         [] OTHER -> /\ machine' = "idle"
                     /\ UNCHANGED <<toClient, table, allocated, bound, taken>>
    /\ UNCHANGED <<clients, troubles>>

Trouble == troubles < MaxTroubles /\ troubles' = troubles + 1

(* wifi_restart_ap and its like: dhcps_deinit, the radio off and on, which *)
(* every client notices, dhcps_init. The state machine and the address     *)
(* requested last are kept.                                                *)
Restart ==
    /\ Trouble
    /\ table' = Latched(Latched({}, Own), Gateway)
    /\ allocated' = Nowhere /\ bound' = Nobody
    /\ taken' = {}
    /\ phase' = [c \in Client |-> "init"]
    /\ toServer' = {} /\ toClient' = {}
    /\ UNCHANGED <<machine, requested, address>>

-----------------------------------------------------------------------------
(* The clients.                                                            *)

InFlight(c) == {msg \in toServer : msg.from = c}
CanSend(c) == Cardinality(InFlight(c)) < MaxInFlight

(* What is on its way when a client has moved on is stale.                 *)
Stale(c) == {IF msg.from = c THEN [msg EXCEPT !.fresh = FALSE] ELSE msg : msg \in toServer}
Unanswered(c) == {r \in toClient : r.to # c}
NewExchange(c, type, ip, fresh) ==
    /\ CanSend(c)
    /\ toServer' = Stale(c) \cup {[from |-> c, type |-> type, ip |-> ip, fresh |-> fresh]}
    /\ toClient' = Unanswered(c)

(* DISCOVER, with the address a client remembers as a wish or without.     *)
Discover(c) ==
    /\ phase[c] = "init"
    /\ \E ip \in {Absent} \cup ({address[c]} \ {Nowhere}) : NewExchange(c, "discover", ip, TRUE)
    /\ phase' = [phase EXCEPT ![c] = "selecting"]
    /\ UNCHANGED <<server, address, troubles>>

(* INIT-REBOOT: a REQUEST for the address remembered.                      *)
Reboot(c) ==
    /\ phase[c] = "init" /\ address[c] # Nowhere
    /\ NewExchange(c, "request", address[c], TRUE)
    /\ phase' = [phase EXCEPT ![c] = "requesting"]
    /\ UNCHANGED <<server, address, troubles>>

(* RENEWING: a REQUEST without option 50.                                  *)
Renew(c) ==
    /\ phase[c] = "bound"
    /\ NewExchange(c, "request", Absent, TRUE)
    /\ phase' = [phase EXCEPT ![c] = "renewing"]
    /\ UNCHANGED <<server, address, troubles>>

(* A type that the server does not know.                                   *)
Inform(c) ==
    /\ phase[c] = "bound"
    /\ Trouble
    /\ NewExchange(c, "inform", Absent, TRUE)
    /\ UNCHANGED <<server, clients>>

(* A timeout: the message again.                                           *)
SendAgain(c) ==
    /\ phase[c] \in {"selecting", "requesting", "renewing"}
    /\ CanSend(c)
    /\ toServer' = toServer \cup
        {[from |-> c, type |-> IF phase[c] = "selecting" THEN "discover" ELSE "request",
          ip |-> IF phase[c] = "requesting" THEN address[c] ELSE Absent, fresh |-> TRUE]}
    /\ UNCHANGED <<server, clients, toClient, troubles>>

(* A client gives up, goes out of range, releases its address or finds it  *)
(* in use.                                                                 *)
Leave(c) ==
    /\ Trouble
    /\ phase' = [phase EXCEPT ![c] = "init"]
    /\ \/ /\ phase[c] # "init"
          /\ toServer' = Stale(c) /\ toClient' = Unanswered(c)
          /\ address' = address
       \/ /\ phase[c] = "bound"
          /\ NewExchange(c, "release", Absent, FALSE)
          /\ address' = address
       \/ /\ phase[c] = "bound"
          /\ NewExchange(c, "decline", address[c], FALSE)
          /\ address' = [address EXCEPT ![c] = Nowhere]
    /\ UNCHANGED server

(* A reply: an offer is taken up, an acknowledged address used. Whatever   *)
(* else is answered to the message sent is ignored from then on.           *)
Receive(c, r) ==
    /\ r \in toClient /\ r.to = c
    /\ address' = [address EXCEPT ![c] = r.ip]
    /\ phase' = [phase EXCEPT ![c] =
                    CASE r.type = "offer" -> "requesting"
                      [] r.type = "ack"   -> "bound"
                      [] r.type = "nak"   -> "init"]
    /\ toServer' = Stale(c) \cup
          IF r.type = "offer"
          THEN {[from |-> c, type |-> "request", ip |-> r.ip, fresh |-> TRUE]} ELSE {}
    /\ toClient' = Unanswered(c)
    /\ UNCHANGED <<server, troubles>>

Lose ==
    /\ Trouble
    /\ \/ \E msg \in toServer : toServer' = toServer \ {msg} /\ toClient' = toClient
       \/ \E r \in toClient : toClient' = toClient \ {r} /\ toServer' = toServer
    /\ UNCHANGED <<server, clients>>

-----------------------------------------------------------------------------
Init ==
    /\ machine = "idle"
    /\ table = Latched(Latched({}, Own), Gateway)
    /\ allocated = Nowhere /\ bound = Nobody /\ requested = Nowhere
    /\ phase = [c \in Client |-> "init"]
    /\ address = [c \in Client |-> Nowhere]
    /\ toServer = {} /\ toClient = {}
    /\ troubles = 0
    /\ taken = {}

Next ==
    \/ \E msg \in toServer : Handle(msg)
    \/ \E c \in Client :
        \/ Discover(c) \/ Reboot(c) \/ Renew(c) \/ Inform(c) \/ SendAgain(c) \/ Leave(c)
        \/ \E r \in toClient : Receive(c, r)
    \/ Lose
    \/ Restart

Spec == Init /\ [][Next]_vars

(* The TCP/IP thread handles what arrives; clients try until they have an  *)
(* address and take the replies that reach them.                           *)
Fairness ==
    \A c \in Client :
        /\ WF_vars(\E msg \in InFlight(c) : Handle(msg))
        /\ WF_vars(Discover(c)) /\ WF_vars(SendAgain(c))
        /\ WF_vars(\E r \in toClient : Receive(c, r))
FairSpec == Spec /\ Fairness

-----------------------------------------------------------------------------
(* Properties.                                                             *)

TypeOK ==
    /\ machine \in {"idle", "offer"}
    /\ table \subseteq 1 .. 8 * Word
    /\ allocated \in Address \cup {Nowhere}
    /\ bound \in Client \cup {Nobody}
    /\ requested \in Address \cup {Nowhere}
    /\ phase \in [Client -> {"init", "selecting", "requesting", "bound", "renewing"}]
    /\ address \in [Client -> Address \cup {Nowhere}]
    /\ toServer \subseteq Message /\ toClient \subseteq Reply
    /\ troubles \in 0 .. MaxTroubles
    /\ taken \subseteq Address

HasLease(c) == phase[c] \in {"bound", "renewing"}

(* No client is given the access point's address, the gateway's or the     *)
(* 0 that stands for an empty pool: not when the pool is used up, nor by   *)
(* asking for it, nor across a restart amid an exchange.                   *)
NeverReserved == \A c \in Client : HasLease(c) => address[c] \notin {0, Own, Gateway}

(* Two clients have the same address only when one of them was given what  *)
(* was on offer to the other, or when it is an address that mark_ip_in_    *)
(* table cannot mark.                                                      *)
UniqueUnlessTaken ==
    \A c, d \in Client :
        c # d /\ HasLease(c) /\ HasLease(d) /\ address[c] = address[d]
            => address[c] \in taken \/ WordOf(address[c]) = 4

(* "latch the specific ip in the ip table": a leased address is marked.    *)
LeasesLatched == \A c \in Client : HasLease(c) => address[c] \in table

(* Once the others have an address and are silent, a client gets one too,  *)
(* whatever the server went through before, unless the pool is used up.    *)
(* While several clients ask it does not hold: two that keep in step can   *)
(* have each other refused for ever.                                       *)
OthersSilent(c) == \A d \in Client \ {c} : HasLease(d) /\ InFlight(d) = {}
ServedWhenAlone ==
    \A c \in Client : <>[]OthersSilent(c) => []<>(HasLease(c) \/ Free = {})
=============================================================================
