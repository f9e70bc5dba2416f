------------------------- MODULE DhcpServer_proofs --------------------------
(***************************************************************************)
(* Proofs about DhcpServer for any clients, any pool and any number of     *)
(* datagrams, losses and restarts.                                         *)
(***************************************************************************)
EXTENDS DhcpServer, Extrema

(* What a client has a right to: the address it uses and those in          *)
(* acknowledgements that are on their way to it.                           *)
Acked(c) == {r.ip : r \in {x \in toClient : x.to = c /\ x.type = "ack"}}
Claims(c) == Acked(c) \cup {a \in {address[c]} : HasLease(c)}

(* The addresses that two clients may have. *)
Excused(a) == a \in taken \/ WordOf(a) = 4

ReservedMarked == {Own, Gateway} \subseteq table
AllocatedFree == allocated \notin {Own, Gateway}
ClaimsMarked ==
    \A c \in Client : \A a \in Claims(c) :
        a \notin {0, Own, Gateway, Nowhere} /\ (a \in table \/ WordOf(a) = 4)
(* Nobody but the bound client has a claim on what was allocated last.     *)
OffersAlone ==
    Host(allocated) # 0 =>
        \A c \in Client \ {bound} : allocated \in Claims(c) => Excused(allocated)
InFirstWords ==
    PoolEnd <= 4 * Word =>
        WordOf(allocated) # 4 /\ \A c \in Client : \A a \in Claims(c) : WordOf(a) # 4
ClaimsApart ==
    \A c, d \in Client : c # d => \A a \in Claims(c) \cap Claims(d) : Excused(a)

LInv ==
    /\ ReservedMarked /\ AllocatedFree
    /\ ClaimsMarked /\ OffersAlone /\ InFirstWords /\ ClaimsApart
IInv == TypeOK /\ LInv

-----------------------------------------------------------------------------
(* The table.                                                              *)

(* An address of the first four words is not in the fifth.                 *)
LEMMA FirstWords == ASSUME NEW a \in 1 .. 4 * Word PROVE WordOf(a) <= 3 /\ WordOf(a) # 4
<1>1. Word \in Nat \ {0} /\ a \in 1 .. 4 * Word
  BY DhcpAssumption
<1>2. (a - 1) \div Word <= 3 /\ (a - 1) \div Word \in Int
  BY <1>1, SMT
<1> QED
  BY <1>2 DEF WordOf

(* Neither 0 nor an address outside the network is in the fifth word. *)
LEMMA NotInFifth == WordOf(0) # 4 /\ WordOf(Nowhere) # 4
<1>1. Word \in Nat \ {0}
  BY DhcpAssumption
<1>2. (0 - 1) \div Word # 4 /\ (0 - 1 - 1) \div Word # 4
  BY <1>1, SMT
<1> QED
  BY <1>2 DEF WordOf, Nowhere

(* What is assumed of the constants, with the server's own addresses       *)
(* inside the first four words.                                            *)
LEMMA Constants ==
    /\ Word \in Nat \ {0} /\ Own \in Address \ {0} /\ Gateway \in Address \ {0}
    /\ Own \in 1 .. 8 * Word /\ Gateway \in 1 .. 8 * Word
    /\ WordOf(Own) # 4 /\ WordOf(Gateway) # 4
    /\ PoolStart \in Nat /\ PoolEnd \in Nat /\ MaxTroubles \in Nat
    /\ Nobody \notin Client
BY DhcpAssumption, FirstWords DEF Address

(* mark_ip_in_table adds the address, unless it is in the fifth word.      *)
LEMMA LatchedMarks ==
    ASSUME NEW t, NEW a
    PROVE  /\ t \subseteq Latched(t, a) /\ Latched(t, a) \subseteq t \cup {a}
           /\ a # 0 => a \in Latched(t, a) \/ WordOf(a) = 4
           /\ a # 0 /\ WordOf(a) # 4 => a \in Latched(t, a)
           /\ a = 0 => Latched(t, a) = t
BY DEF Latched

(* A new table marks the access point's address and the gateway's.         *)
LEMMA NewTable ==
    LET t == Latched(Latched({}, Own), Gateway)
    IN  {Own, Gateway} \subseteq t /\ t \subseteq 1 .. 8 * Word
BY Constants, LatchedMarks

(* search_next_ip gives an unmarked address or 0.                          *)
LEMMA NextIpFree ==
    NextIp \in Address /\ (NextIp # 0 => NextIp \notin table /\ NextIp \in 1 .. 8 * Word)
<1>1. CASE Free = {}
  BY <1>1, Constants DEF NextIp, Address
<1>2. CASE Free # {}
  <2>1. Free \in SUBSET Nat
    BY DEF Free
  <2>2. Min(Free) \in Free
    BY <1>2, <2>1, MinIs
  <2> QED
    BY <1>2, <2>2, Constants DEF NextIp, Free, Address
<1> QED
  BY <1>1, <1>2

(* What dhcps_send_offer offers: what this client holds, or an unmarked    *)
(* address, or 0.                                                          *)
LEMMA OfferedFree ==
    ASSUME NEW c \in Client, NEW ip \in Address \cup {Nowhere}
    PROVE  /\ Offered(c, ip) \in Address
           /\ \/ Offered(c, ip) = 0
              \/ Offered(c, ip) \notin table
              \/ Offered(c, ip) = allocated /\ bound = c /\ Host(allocated) # 0
<1>1. CASE Holds(c, ip)
  BY <1>1, NextIpFree, Constants DEF Offered, Holds, Host, Address, Nowhere
<1>2. CASE Available(ip)
  BY <1>2, NextIpFree, Constants DEF Offered, Available, Holds, Nowhere
<1>3. CASE ~Holds(c, ip) /\ ~Available(ip)
  BY <1>3, NextIpFree DEF Offered
<1> QED
  BY <1>1, <1>2, <1>3

(* With a pool in the first four words, nothing of the fifth is offered.   *)
LEMMA OfferedInFirstWords ==
    ASSUME NEW c \in Client, NEW ip, PoolEnd <= 4 * Word, WordOf(allocated) # 4
    PROVE  WordOf(Offered(c, ip)) # 4
<1>1. CASE Holds(c, ip)
  BY <1>1 DEF Offered, Holds
<1>2. CASE Available(ip)
  BY <1>2 DEF Offered, Available
<1>3. CASE ~Holds(c, ip) /\ ~Available(ip)
  <2>1. Offered(c, ip) = NextIp
    BY <1>3 DEF Offered
  <2>2. CASE Free = {}
    BY <2>1, <2>2, NotInFifth DEF NextIp
  <2>3. CASE Free # {}
    <3>1. Free \in SUBSET Nat
      BY DEF Free
    <3>2. NextIp \in Free
      BY <2>3, <3>1, MinIs DEF NextIp
    <3>3. NextIp \in 1 .. 4 * Word
      BY <3>2, Constants DEF Free
    <3> QED
      BY <2>1, <3>3, FirstWords
  <2> QED
    BY <2>2, <2>3
<1> QED
  BY <1>1, <1>2, <1>3

-----------------------------------------------------------------------------
(* The handler.                                                            *)

(* The parts of the type invariant. *)
ServerTypes ==
    /\ machine \in {"idle", "offer"}
    /\ table \subseteq 1 .. 8 * Word
    /\ allocated \in Address \cup {Nowhere}
    /\ bound \in Client \cup {Nobody}
    /\ requested \in Address \cup {Nowhere}
    /\ taken \subseteq Address
ClientTypes ==
    /\ phase \in [Client -> {"init", "selecting", "requesting", "bound", "renewing"}]
    /\ address \in [Client -> Address \cup {Nowhere}]
NetworkTypes == toServer \subseteq Message /\ toClient \subseteq Reply

(* The type invariant, by what keeps the variables. *)
LEMMA Types == TypeOK <=> ServerTypes /\ ClientTypes /\ NetworkTypes /\ troubles \in 0 .. MaxTroubles
BY DEF TypeOK, ServerTypes, ClientTypes, NetworkTypes

(* A reply changes no claim but, when it is an acknowledgement, that of    *)
(* the client it goes to.                                                  *)
LEMMA Sent ==
    ASSUME NEW msg \in Message, NEW type \in {"offer", "ack", "nak"},
           NEW ip \in Address \cup {Nowhere}, IInv, Send(msg, type, ip), UNCHANGED clients
    PROVE  /\ toClient' \subseteq Reply
           /\ \A c \in Client :
                 Claims(c)' \subseteq
                    Claims(c) \cup {a \in {ip} : type = "ack" /\ c = msg.from}
<1> DEFINE r == [to |-> msg.from, type |-> type, ip |-> ip]
<1>1. toClient' \subseteq toClient \cup {r} /\ toClient \subseteq Reply
  BY DEF Send, IInv, TypeOK
<1>2. r \in Reply
  BY DEF Reply, Message
<1>3. ASSUME NEW c \in Client
      PROVE  Claims(c)' \subseteq Claims(c) \cup {a \in {ip} : type = "ack" /\ c = msg.from}
  <2> SUFFICES ASSUME NEW a \in Acked(c)'
               PROVE  a \in Acked(c) \/ (a = ip /\ type = "ack" /\ c = msg.from)
    BY DEF Claims, HasLease, clients
  <2>1. PICK x \in toClient' : x.to = c /\ x.type = "ack" /\ x.ip = a
    BY DEF Acked
  <2> QED
    BY <2>1, <1>1 DEF Acked
<1> QED
  BY <1>1, <1>2, <1>3

(* dhcps_send_offer: the address offered is that of no other client that   *)
(* followed the protocol.                                                  *)
LEMMA OfferInv ==
    ASSUME IInv, NEW msg \in Message, SendOffer(msg), requested' \in Address \cup {Nowhere},
           Asked(msg) \in Address \cup {Nowhere}, UNCHANGED clients
    PROVE  ServerTypes' /\ toClient' \subseteq Reply /\ LInv'
<1> DEFINE ip == Offered(msg.from, Asked(msg))
<1>1. /\ allocated' = ip /\ bound' = msg.from /\ machine' = "offer"
      /\ Send(msg, "offer", ip) /\ table' = table /\ taken' = taken
  BY DEF SendOffer
<1>2. msg.from \in Client
  BY DEF Message
<1>3. /\ ip \in Address
      /\ ip = 0 \/ ip \notin table \/ (ip = allocated /\ bound = msg.from /\ Host(allocated) # 0)
  BY <1>2, OfferedFree
<1>9. PoolEnd <= 4 * Word /\ WordOf(allocated) # 4 => WordOf(ip) # 4
  BY <1>2, OfferedInFirstWords
<1> HIDE DEF ip
<1>4. toClient' \subseteq Reply /\ \A c \in Client : Claims(c)' \subseteq Claims(c)
  BY <1>1, <1>3, Sent
<1>5. ServerTypes'
  BY <1>1, <1>2, <1>3 DEF IInv, TypeOK, ServerTypes
<1>6. ReservedMarked' /\ AllocatedFree' /\ ClaimsMarked' /\ ClaimsApart'
  BY <1>1, <1>3, <1>4, Constants DEF IInv, LInv, ReservedMarked, AllocatedFree, ClaimsMarked, ClaimsApart, Excused
<1>7. OffersAlone'
  <2> SUFFICES ASSUME Host(ip) # 0, NEW c \in Client \ {msg.from}, ip \in Claims(c)
               PROVE  Excused(ip)
    BY <1>1, <1>4 DEF OffersAlone, Excused, Host
  <2>1. CASE ip \notin table
    BY <2>1 DEF IInv, LInv, ClaimsMarked, Excused
  <2>2. CASE ip = allocated /\ bound = msg.from /\ Host(allocated) # 0
    BY <2>2 DEF IInv, LInv, OffersAlone
  <2>3. CASE ip = 0
    BY <2>3 DEF Host
  <2> QED
    BY <1>3, <2>1, <2>2, <2>3
<1>8. InFirstWords'
  BY <1>1, <1>9, <1>4 DEF IInv, LInv, InFirstWords
<1> QED
  BY <1>4, <1>5, <1>6, <1>7, <1>8 DEF LInv

(* What is acknowledged is unmarked or what was allocated last; and then   *)
(* the state was waiting for its request, or it is the bound client's.     *)
LEMMA AcceptedFree ==
    ASSUME NEW c \in Client, NEW ip \in Address \cup {Nowhere}, Accepts(c, ip), IInv
    PROVE  /\ ip \in 1 .. 8 * Word /\ ip \notin {0, Own, Gateway, Nowhere}
           /\ \/ ip = allocated /\ Host(allocated) # 0 /\ (machine = "offer" \/ bound = c)
              \/ machine = "idle" /\ ip \notin table
<1>1. CASE machine = "offer" /\ AcceptsOffer(ip)
  BY <1>1, Constants DEF AcceptsOffer, IInv, LInv, AllocatedFree, Host, Address, Nowhere
<1>2. CASE machine = "idle" /\ Holds(c, ip)
  BY <1>2, Constants DEF Holds, IInv, LInv, AllocatedFree, Host, Address, Nowhere
<1>3. CASE machine = "idle" /\ Available(ip)
  BY <1>3, Constants DEF Available, IInv, LInv, ReservedMarked, Address, Nowhere
<1> QED
  BY <1>1, <1>2, <1>3 DEF Accepts

(* dhcps_send_ack: the address acknowledged becomes a claim, and is no     *)
(* claim of another.                                                       *)
LEMMA AckInv ==
    ASSUME IInv, NEW msg \in Message, SendAck(msg), requested' \in Address \cup {Nowhere},
           NEW ip \in Address \cup {Nowhere}, ip = Asked(msg), Accepts(msg.from, ip),
           UNCHANGED clients
    PROVE  ServerTypes' /\ toClient' \subseteq Reply /\ LInv'
<1> DEFINE me == msg.from
<1>1. /\ allocated' = ip /\ bound' = (IF machine = "idle" THEN me ELSE bound)
      /\ Send(msg, "ack", ip) /\ table' = Latched(table, ip) /\ machine' = "idle"
      /\ taken' = IF machine = "offer" /\ bound # me THEN taken \cup {ip} ELSE taken
  BY DEF SendAck
<1>2. me \in Client
  BY DEF Message
<1>3. /\ ip \in 1 .. 8 * Word /\ ip \notin {0, Own, Gateway, Nowhere}
      /\ \/ ip = allocated /\ Host(allocated) # 0 /\ (machine = "offer" \/ bound = me)
         \/ machine = "idle" /\ ip \notin table
  BY <1>2, AcceptedFree
<1>4. /\ toClient' \subseteq Reply
      /\ \A c \in Client : Claims(c)' \subseteq Claims(c) \cup {a \in {ip} : c = me}
  BY <1>1, Sent
<1>5. table \subseteq table' /\ table' \subseteq table \cup {ip} /\ (ip \in table' \/ WordOf(ip) = 4)
  BY <1>1, <1>3, LatchedMarks
<1>6. ServerTypes'
  BY <1>1, <1>2, <1>3, <1>5, Constants DEF IInv, TypeOK, ServerTypes, Address, Nowhere
<1>7. ReservedMarked' /\ AllocatedFree' /\ ClaimsMarked'
  BY <1>1, <1>3, <1>4, <1>5 DEF IInv, LInv, ReservedMarked, AllocatedFree, ClaimsMarked
<1>8. taken \subseteq taken' /\ \A a : Excused(a) => Excused(a)'
  BY <1>1 DEF Excused
(* Whoever else has a claim on the address, it was taken then.             *)
<1>9. ASSUME NEW c \in Client \ {me}, ip \in Claims(c) PROVE Excused(ip)'
  <2>1. CASE ip \notin table
    BY <2>1, <1>8, <1>9 DEF IInv, LInv, ClaimsMarked, Excused
  <2>2. CASE ip = allocated /\ Host(allocated) # 0 /\ bound = me
    BY <2>2, <1>8, <1>9 DEF IInv, LInv, OffersAlone
  <2>3. CASE machine = "offer" /\ bound # me
    BY <2>3, <1>1 DEF Excused
  <2> QED
    BY <1>3, <2>1, <2>2, <2>3
<1>10. OffersAlone'
  <2> SUFFICES ASSUME NEW c \in Client, c # bound', ip \in Claims(c)'
               PROVE  Excused(ip)'
    BY <1>1 DEF OffersAlone, Excused
  <2>1. CASE c # me
    BY <2>1, <1>4, <1>9
  <2>2. CASE c = me /\ machine = "offer" /\ bound # me
    BY <2>2, <1>1 DEF Excused
  <2> QED
    BY <2>1, <2>2, <1>1 DEF IInv, TypeOK
<1>11. ClaimsApart'
  <2> SUFFICES ASSUME NEW c \in Client, NEW d \in Client, c # d,
                      NEW a, a \in Claims(c)', a \in Claims(d)'
               PROVE  Excused(a)'
    BY DEF ClaimsApart, Excused
  <2>1. CASE a \in Claims(c) /\ a \in Claims(d)
    BY <2>1, <1>8 DEF IInv, LInv, ClaimsApart
  <2>2. CASE a = ip /\ c = me
    BY <2>2, <1>4, <1>9
  <2>3. CASE a = ip /\ d = me
    BY <2>3, <1>4, <1>9
  <2> QED
    BY <1>4, <2>1, <2>2, <2>3
<1>12. InFirstWords'
  <2>1. PoolEnd <= 4 * Word /\ WordOf(allocated) # 4 => WordOf(ip) # 4
    BY DEF Accepts, AcceptsOffer, Holds, Available
  <2> QED
    BY <1>1, <1>4, <2>1 DEF IInv, LInv, InFirstWords
<1> QED
  BY <1>12, <1>4, <1>6, <1>7, <1>10, <1>11 DEF LInv

(* dhcps_receive_udp_packet_handler keeps the invariant whatever it is     *)
(* sent.                                                                   *)
LEMMA HandleInv == ASSUME IInv, NEW msg \in toServer, Handle(msg) PROVE IInv'
<1>1. msg \in Message /\ Asked(msg) \in Address \cup {Nowhere} /\ msg.from \in Client
  BY DEF IInv, TypeOK, Message, Asked
<1>2. /\ requested' = Asked(msg) /\ UNCHANGED clients /\ troubles' = troubles
      /\ toServer' \subseteq Message
  BY DEF Handle, IInv, TypeOK
<1>3. ClientTypes' /\ troubles' \in 0 .. MaxTroubles
  BY <1>2 DEF IInv, TypeOK, ClientTypes, clients
<1>4. ServerTypes' /\ toClient' \subseteq Reply /\ LInv'
  <2>1. CASE Change(msg) = "offer"
    BY <2>1, <1>1, <1>2, OfferInv DEF Handle
  <2>2. CASE Change(msg) = "ack"
    <3>1. SendAck(msg)
      BY <2>2 DEF Handle
    <3>2. Accepts(msg.from, Asked(msg))
      BY <2>2 DEF Change, IInv, TypeOK
    <3> QED
      BY <3>1, <3>2, <1>1, <1>2, AckInv
  <2>3. CASE Change(msg) \notin {"offer", "ack"}
    <3>1. machine' = "idle" /\ UNCHANGED <<table, allocated, bound, taken>>
      BY <2>3 DEF Handle, SendNak, AfterNak
    <3>2. toClient' \subseteq Reply /\ \A c \in Client : Claims(c)' \subseteq Claims(c)
      <4>1. CASE Send(msg, "nak", Nowhere)
        BY <4>1, <1>1, <1>2, Sent
      <4>2. CASE toClient' = toClient
        BY <4>2, <1>2 DEF Claims, Acked, HasLease, clients, IInv, TypeOK
      <4> QED
        BY <4>1, <4>2, <2>3 DEF Handle, SendNak
    <3>3. ServerTypes'
      BY <3>1, <1>1, <1>2 DEF IInv, TypeOK, ServerTypes
    <3>4. LInv'
      BY <3>1, <3>2 DEF IInv, LInv, ReservedMarked, AllocatedFree, ClaimsMarked, OffersAlone,
             InFirstWords, ClaimsApart, Excused, Host
    <3> QED
      BY <3>2, <3>3, <3>4
  <2> QED
    BY <2>1, <2>2, <2>3
<1>5. NetworkTypes'
  BY <1>2, <1>4 DEF NetworkTypes
<1>6. TypeOK'
  BY <1>3, <1>4, <1>5 DEF TypeOK, ServerTypes, ClientTypes, NetworkTypes
<1> QED
  BY <1>4, <1>6 DEF IInv

-----------------------------------------------------------------------------
(* The clients and the network: nothing of theirs gives a claim to anyone  *)
(* who had none.                                                           *)

(* A step that leaves the server alone and adds no claim keeps what is     *)
(* said of leases.                                                         *)
LEMMA ClaimsShrink ==
    ASSUME LInv, UNCHANGED server, \A c \in Client : Claims(c)' \subseteq Claims(c)
    PROVE  LInv'
BY DEF LInv, server, ReservedMarked, AllocatedFree, ClaimsMarked, OffersAlone,
       InFirstWords, ClaimsApart, Excused, Host

(* Claims are kept by a client that is left alone, and given up by others. *)
LEMMA ClaimKept ==
    ASSUME NEW c \in Client, toClient' \subseteq toClient,
           HasLease(c)' => HasLease(c) /\ address'[c] = address[c]
    PROVE  Claims(c)' \subseteq Claims(c)
<1>1. Acked(c)' \subseteq Acked(c)
  BY DEF Acked
<1>2. ASSUME NEW a, HasLease(c)', a = address'[c] PROVE a \in Claims(c)
  BY <1>2 DEF Claims
<1> QED
  BY <1>1, <1>2 DEF Claims

(* What goes stale on its way stays a message.                             *)
LEMMA StaleTypes ==
    ASSUME toServer \subseteq Message, NEW c \in Client
    PROVE  Stale(c) \subseteq Message
<1> SUFFICES ASSUME NEW msg \in toServer PROVE [msg EXCEPT !.fresh = FALSE] \in Message
  BY DEF Stale
<1>1. msg \in Message
  OBVIOUS
<1> QED
  BY <1>1 DEF Message

(* What a client sends at the start of an exchange has its type. *)
LEMMA ExchangeTypes ==
    ASSUME NetworkTypes, NEW c \in Client,
           NEW type \in {"discover", "request", "release", "decline", "inform"},
           NEW ip \in Address \cup {Nowhere, Absent}, NEW fresh \in BOOLEAN,
           NewExchange(c, type, ip, fresh)
    PROVE  NetworkTypes' /\ toClient' \subseteq toClient
<1>1. [from |-> c, type |-> type, ip |-> ip, fresh |-> fresh] \in Message
  BY DEF Message
<1>2. Stale(c) \subseteq Message
  BY StaleTypes DEF NetworkTypes
<1> QED
  BY <1>1, <1>2 DEF NewExchange, NetworkTypes, Unanswered

(* What the client's part of a step has to establish.                      *)
LEMMA ClientStep ==
    ASSUME IInv, UNCHANGED server, ClientTypes', NetworkTypes', troubles' \in 0 .. MaxTroubles,
           \A c \in Client : Claims(c)' \subseteq Claims(c)
    PROVE  IInv'
<1>1. ServerTypes'
  BY DEF IInv, TypeOK, ServerTypes, server
<1>2. LInv'
  BY ClaimsShrink DEF IInv
<1> QED
  BY <1>1, <1>2 DEF IInv, TypeOK, ServerTypes, ClientTypes, NetworkTypes

(* The network troubles are as many as are allowed. *)
LEMMA TroubleBounded ==
    ASSUME troubles \in 0 .. MaxTroubles, Trouble PROVE troubles' \in 0 .. MaxTroubles
BY Constants DEF Trouble

(* A client begins an exchange: it has the lease it had, or none.          *)
LEMMA ExchangeInv ==
    ASSUME IInv, NEW c \in Client,
           Discover(c) \/ Reboot(c) \/ Renew(c) \/ Inform(c)
    PROVE  IInv'
<1> USE DEF IInv
<1>1. NetworkTypes /\ ClientTypes /\ troubles \in 0 .. MaxTroubles
  BY Types
<1>2. address[c] \in Address \cup {Nowhere}
  BY <1>1 DEF ClientTypes
<1>3. /\ NetworkTypes' /\ toClient' \subseteq toClient
      /\ UNCHANGED <<server, address>> /\ troubles' \in 0 .. MaxTroubles
      /\ phase' \in {phase, [phase EXCEPT ![c] = "selecting"],
                     [phase EXCEPT ![c] = "requesting"], [phase EXCEPT ![c] = "renewing"]}
      /\ phase' = [phase EXCEPT ![c] = "renewing"] => phase[c] = "bound"
  <2>1. CASE Discover(c)
    <3>1. PICK ip \in {Absent} \cup ({address[c]} \ {Nowhere}) : NewExchange(c, "discover", ip, TRUE)
      BY <2>1 DEF Discover
    <3>2. ip \in Address \cup {Nowhere, Absent}
      BY <3>1, <1>2
    <3>3. phase' # [phase EXCEPT ![c] = "renewing"]
      BY <2>1, <1>1 DEF Discover, ClientTypes
    <3> QED
      BY <2>1, <3>1, <3>2, <3>3, <1>1, ExchangeTypes DEF Discover
  <2>2. CASE Reboot(c)
    <3>1. phase' # [phase EXCEPT ![c] = "renewing"]
      BY <2>2, <1>1 DEF Reboot, ClientTypes
    <3> QED
      BY <2>2, <3>1, <1>1, <1>2, ExchangeTypes DEF Reboot
  <2>3. CASE Renew(c)
    BY <2>3, <1>1, ExchangeTypes DEF Renew
  <2>4. CASE Inform(c)
    <3>1. phase' = phase /\ phase[c] = "bound" /\ UNCHANGED <<server, address>>
      BY <2>4 DEF Inform, clients
    <3>2. troubles' \in 0 .. MaxTroubles
      BY <2>4, <1>1, TroubleBounded DEF Inform
    <3> QED
      BY <2>4, <3>1, <3>2, <1>1, ExchangeTypes DEF Inform
  <2> QED
    BY <2>1, <2>2, <2>3, <2>4
<1>4. ClientTypes'
  BY <1>1, <1>3 DEF ClientTypes
<1>5. ASSUME NEW d \in Client PROVE Claims(d)' \subseteq Claims(d)
  <2>1. HasLease(d)' => HasLease(d)
    BY <1>1, <1>3 DEF HasLease, ClientTypes
  <2> QED
    BY <2>1, <1>3, ClaimKept
<1> QED
  BY <1>1, <1>3, <1>4, <1>5, ClientStep

(* A retransmission keeps the invariant. *)
LEMMA SendAgainInv == ASSUME IInv, NEW c \in Client, SendAgain(c) PROVE IInv'
<1>1. NetworkTypes /\ ClientTypes /\ troubles \in 0 .. MaxTroubles
  BY Types DEF IInv
<1>2. UNCHANGED <<server, phase, address, toClient, troubles>>
  BY DEF SendAgain, clients
<1> DEFINE again == [from |-> c, type |-> IF phase[c] = "selecting" THEN "discover" ELSE "request",
                     ip |-> IF phase[c] = "requesting" THEN address[c] ELSE Absent, fresh |-> TRUE]
<1>3. again \in Message
  BY <1>1 DEF ClientTypes, Message
<1>4. toServer' = toServer \cup {again}
  BY DEF SendAgain
<1>5. NetworkTypes' /\ ClientTypes'
  BY <1>1, <1>2, <1>3, <1>4 DEF NetworkTypes, ClientTypes
<1>6. \A d \in Client : Claims(d)' \subseteq Claims(d)
  BY <1>2, ClaimKept DEF HasLease
<1> QED
  BY <1>1, <1>2, <1>5, <1>6, ClientStep

(* So does a release or a decline. *)
LEMMA LeaveInv == ASSUME IInv, NEW c \in Client, Leave(c) PROVE IInv'
<1>1. NetworkTypes /\ ClientTypes /\ troubles \in 0 .. MaxTroubles
  BY Types DEF IInv
<1>2. UNCHANGED server /\ phase' = [phase EXCEPT ![c] = "init"] /\ troubles' \in 0 .. MaxTroubles
  BY <1>1, TroubleBounded DEF Leave
<1>3. address[c] \in Address \cup {Nowhere}
  BY <1>1 DEF ClientTypes
<1>4. /\ NetworkTypes' /\ toClient' \subseteq toClient
      /\ address' \in {address, [address EXCEPT ![c] = Nowhere]}
  <2>1. CASE toServer' = Stale(c) /\ toClient' = Unanswered(c) /\ address' = address
    BY <2>1, <1>1, StaleTypes DEF NetworkTypes, Unanswered
  <2>2. CASE NewExchange(c, "release", Absent, FALSE) /\ address' = address
    BY <2>2, <1>1, ExchangeTypes
  <2>3. CASE NewExchange(c, "decline", address[c], FALSE)
             /\ address' = [address EXCEPT ![c] = Nowhere]
    BY <2>3, <1>1, <1>3, ExchangeTypes
  <2> QED
    BY <2>1, <2>2, <2>3 DEF Leave
<1>5. ClientTypes'
  BY <1>1, <1>2, <1>4 DEF ClientTypes
<1>6. ASSUME NEW d \in Client PROVE Claims(d)' \subseteq Claims(d)
  <2>1. HasLease(d)' => HasLease(d) /\ address'[d] = address[d]
    BY <1>1, <1>2, <1>4 DEF HasLease, ClientTypes
  <2> QED
    BY <2>1, <1>4, ClaimKept
<1> QED
  BY <1>2, <1>4, <1>5, <1>6, ClientStep

(* A claim by an acknowledgement becomes the claim of the address in use.  *)
LEMMA ReceiveInv == ASSUME IInv, NEW c \in Client, NEW r \in toClient, Receive(c, r) PROVE IInv'
<1>1. NetworkTypes /\ ClientTypes /\ troubles \in 0 .. MaxTroubles
  BY Types DEF IInv
<1>2. r \in Reply /\ r.to = c /\ r.type \in {"offer", "ack", "nak"} /\ r.ip \in Address \cup {Nowhere}
  BY <1>1 DEF NetworkTypes, Reply, Receive
<1>3. /\ UNCHANGED <<server, troubles>> /\ address' = [address EXCEPT ![c] = r.ip]
      /\ toClient' = Unanswered(c)
  BY DEF Receive
<1>4. PICK p \in {"init", "requesting", "bound"} :
         phase' = [phase EXCEPT ![c] = p] /\ (p = "bound" => r.type = "ack")
  BY <1>1, <1>2 DEF Receive, ClientTypes
<1>5. \A d \in Client \ {c} : phase'[d] = phase[d]
  BY <1>1 DEF Receive, ClientTypes
<1>6. ClientTypes'
  BY <1>1, <1>2, <1>3, <1>4 DEF ClientTypes
<1>7. NetworkTypes'
  <2>1. Stale(c) \subseteq Message
    BY <1>1, StaleTypes DEF NetworkTypes
  <2>2. [from |-> c, type |-> "request", ip |-> r.ip, fresh |-> TRUE] \in Message
    BY <1>2 DEF Message
  <2> QED
    BY <1>1, <1>3, <2>1, <2>2 DEF Receive, NetworkTypes, Unanswered
<1>8. ASSUME NEW d \in Client PROVE Claims(d)' \subseteq Claims(d)
  <2>1. CASE d # c
    <3>1. HasLease(d)' => HasLease(d) /\ address'[d] = address[d]
      BY <2>1, <1>1, <1>3, <1>5 DEF HasLease, ClientTypes
    <3> QED
      BY <3>1, <1>3, ClaimKept DEF Unanswered
  <2>2. CASE d = c
    <3>1. Acked(c)' = {}
      BY <1>3 DEF Acked, Unanswered
    <3>2. HasLease(c)' => r.type = "ack"
      BY <1>1, <1>4 DEF HasLease, ClientTypes
    <3>3. r.type = "ack" => r.ip \in Acked(c)
      BY <1>2 DEF Acked
    <3>4. address'[c] = r.ip
      BY <1>1, <1>3 DEF ClientTypes
    <3> QED
      BY <2>2, <3>1, <3>2, <3>3, <3>4 DEF Claims
  <2> QED
    BY <2>1, <2>2
<1> QED
  BY <1>1, <1>3, <1>6, <1>7, <1>8, ClientStep

(* So does the loss of messages. *)
LEMMA LoseInv == ASSUME IInv, Lose PROVE IInv'
<1>1. NetworkTypes /\ ClientTypes /\ troubles \in 0 .. MaxTroubles
  BY Types DEF IInv
<1>2. /\ UNCHANGED <<server, phase, address>> /\ troubles' \in 0 .. MaxTroubles
      /\ toClient' \subseteq toClient /\ toServer' \subseteq toServer
  BY <1>1, TroubleBounded DEF Lose, clients
<1>3. NetworkTypes' /\ ClientTypes'
  BY <1>1, <1>2 DEF NetworkTypes, ClientTypes
<1>4. \A d \in Client : Claims(d)' \subseteq Claims(d)
  BY <1>2, ClaimKept DEF HasLease
<1> QED
  BY <1>2, <1>3, <1>4, ClientStep

-----------------------------------------------------------------------------
(* A server that has just started, and nobody with a claim.                *)

(* A server that starts when no client has an address is in the invariant. *)
LEMMA Fresh ==
    ASSUME table = Latched(Latched({}, Own), Gateway), allocated = Nowhere,
           phase = [c \in Client |-> "init"], toClient = {}
    PROVE  LInv /\ table \subseteq 1 .. 8 * Word
<1>1. {Own, Gateway} \subseteq table /\ table \subseteq 1 .. 8 * Word
  BY NewTable
<1>2. \A c \in Client : Claims(c) = {}
  BY DEF Claims, Acked, HasLease
<1>3. AllocatedFree
  BY Constants DEF AllocatedFree, Nowhere, Address
<1> QED
  BY <1>1, <1>2, <1>3, NotInFifth
     DEF LInv, ReservedMarked, ClaimsMarked, OffersAlone, InFirstWords, ClaimsApart,
           Host, Nowhere

(* The system starts in the inductive invariant. *)
LEMMA InitInv == Init => IInv
<1> SUFFICES ASSUME Init PROVE IInv
  OBVIOUS
<1>1. LInv /\ table \subseteq 1 .. 8 * Word
  BY Fresh DEF Init
<1> QED
  BY <1>1, Constants DEF Init, IInv, TypeOK, Address, Nowhere

(* Restarting the access point, which makes every client begin again,      *)
(* keeps it.                                                               *)
LEMMA RestartInv == ASSUME IInv, Restart PROVE IInv'
<1>1. LInv' /\ table' \subseteq 1 .. 8 * Word
  <2>1. /\ table' = Latched(Latched({}, Own), Gateway) /\ allocated' = Nowhere
        /\ phase' = [c \in Client |-> "init"] /\ toClient' = {}
    BY DEF Restart
  <2>2. {Own, Gateway} \subseteq table' /\ table' \subseteq 1 .. 8 * Word
    BY <2>1, NewTable
  <2>3. \A c \in Client : Claims(c)' = {}
    BY <2>1 DEF Claims, Acked, HasLease
  <2>4. AllocatedFree'
    BY <2>1, Constants DEF AllocatedFree, Nowhere, Address
  <2> QED
    BY <2>1, <2>2, <2>3, <2>4, NotInFifth
       DEF LInv, ReservedMarked, ClaimsMarked, OffersAlone, InFirstWords, ClaimsApart,
           Host, Nowhere
<1>2. troubles' \in 0 .. MaxTroubles
  BY TroubleBounded DEF Restart, IInv, TypeOK
<1> QED
  BY <1>1, <1>2 DEF Restart, IInv, TypeOK, Address, Nowhere

(* Every step keeps the inductive invariant. *)
LEMMA NextInv == IInv /\ [Next]_vars => IInv'
<1> SUFFICES ASSUME IInv, [Next]_vars PROVE IInv'
  OBVIOUS
<1>1. ASSUME NEW msg \in toServer, Handle(msg) PROVE IInv'
  BY <1>1, HandleInv
<1>2. ASSUME NEW c \in Client, Discover(c) \/ Reboot(c) \/ Renew(c) \/ Inform(c) PROVE IInv'
  BY <1>2, ExchangeInv
<1>3. ASSUME NEW c \in Client, SendAgain(c) PROVE IInv'
  BY <1>3, SendAgainInv
<1>4. ASSUME NEW c \in Client, Leave(c) PROVE IInv'
  BY <1>4, LeaveInv
<1>5. ASSUME NEW c \in Client, NEW r \in toClient, Receive(c, r) PROVE IInv'
  BY <1>5, ReceiveInv
<1>6. CASE Lose
  BY <1>6, LoseInv
<1>7. CASE Restart
  BY <1>7, RestartInv
<1>8. CASE UNCHANGED vars
  <2>1. UNCHANGED <<server, phase, address, toServer, toClient, troubles>>
    BY <1>8 DEF vars, clients
  <2>2. \A d \in Client : Claims(d)' \subseteq Claims(d)
    BY <2>1, ClaimKept DEF HasLease
  <2>3. ClientTypes' /\ NetworkTypes' /\ troubles' \in 0 .. MaxTroubles
    BY <2>1, Types DEF IInv, ClientTypes, NetworkTypes
  <2> QED
    BY <2>1, <2>2, <2>3, ClientStep
<1> QED
  BY <1>1, <1>2, <1>3, <1>4, <1>5, <1>6, <1>7, <1>8 DEF Next

(* The inductive invariant of the server, its clients and the network      *)
(* between them, for any pool, clients and number of lost and repeated     *)
(* messages (dhcps.c:7-647).                                               *)
THEOREM Invariance == Spec => []IInv
BY InitInv, NextInv, PTL DEF Spec

(* The state, the messages and the clients keep their types.               *)
THEOREM TypeCorrect == Spec => []TypeOK
<1>1. IInv => TypeOK
  BY DEF IInv
<1> QED
  BY Invariance, <1>1, PTL

(* Whatever is lost, sent twice, overtaken or restarted, no client uses    *)
(* the access point's address, the gateway's or the 0 of an empty pool.    *)
THEOREM Reserved == Spec => []NeverReserved
<1>1. IInv => NeverReserved
  BY DEF IInv, LInv, ClaimsMarked, Claims, NeverReserved
<1> QED
  BY Invariance, <1>1, PTL

(* Two clients use the same address only when a request took what was on   *)
(* offer to another client, or the address is in the fifth word.           *)
THEOREM Unique == Spec => []UniqueUnlessTaken
<1>1. IInv => UniqueUnlessTaken
  BY DEF IInv, LInv, ClaimsApart, Claims, UniqueUnlessTaken, Excused
<1> QED
  BY Invariance, <1>1, PTL

(* "latch the specific ip in the ip table": it holds of every lease when   *)
(* the pool ends in the first four words, as the default one does not;     *)
(* then two clients share an address only by a request for another's offer.*)
THEOREM SmallPoolLatched ==
    ASSUME PoolEnd <= 4 * Word
    PROVE  Spec => [](LeasesLatched /\ \A c, d \in Client :
                        c # d /\ HasLease(c) /\ HasLease(d) /\ address[c] = address[d]
                            => address[c] \in taken)
<1>1. IInv => LeasesLatched /\ \A c, d \in Client :
                        c # d /\ HasLease(c) /\ HasLease(d) /\ address[c] = address[d]
                            => address[c] \in taken
  BY DEF IInv, LInv, ClaimsMarked, InFirstWords, ClaimsApart, Claims, LeasesLatched, Excused
<1> QED
  BY Invariance, <1>1, PTL
=============================================================================
