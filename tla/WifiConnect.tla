---------------------------- MODULE WifiConnect -----------------------------
(***************************************************************************)
(* Joining a network: wifi_connect and wifi_connect_bssid of               *)
(* component/common/api/wifi/wifi_conf.c, their four event handlers, which *)
(* wifi_ind.c calls on the thread of the WLAN driver                       *)
(* (CONFIG_WIFI_IND_USE_THREAD is 0), and LwIP_DHCP, which the caller runs *)
(* after a successful join.                                                *)
(*                                                                         *)
(* A call allocates a join record, a password and a semaphore, registers   *)
(* the handlers, starts the join in the driver, publishes the record in    *)
(* the global join_user_data and waits for the semaphore, at most          *)
(* RTW_JOIN_TIMEOUT.  The handlers test and dereference join_user_data     *)
(* with no lock.  A wild access (NULL, freed or uninitialized pointer)     *)
(* ends the behaviour: nothing is known of the program after it, and the   *)
(* variable fault says what it was.                                        *)
(***************************************************************************)
EXTENDS Naturals, Sequences, FiniteSets

CONSTANTS
    Caller,        \* the tasks that call wifi_connect*
    Null,          \* the NULL of join_user_data
    Params,        \* the parameter combinations used: a set of CallParams
    UsesConfig,    \* is cmd_simple_config used?
    DriverAbove    \* does the driver thread run at a higher priority than
                   \* the callers (so none runs during its handlers)?

(* RTW_SECURITY_OPEN, WEP_PSK, WEP_SHARED, WPA2_AES_PSK, the other WPA's. *)
Security == {"open", "wep", "wepshared", "aes", "wpa"}

Event == {"NO_NETWORK", "CONNECT", "DISCONNECT", "FOURWAY_HANDSHAKE_DONE"}

(* fn: wifi_connect or wifi_connect_bssid; keyOk: the password has a       *)
(* length the security type allows; user: the caller passes a semaphore;   *)
(* full: the events whose three rows other modules' handlers occupy then.  *)
CallParams ==
    {p \in [fn : {"ssid", "bssid"}, sec : Security, keyOk : BOOLEAN, user : BOOLEAN,
            full : SUBSET Event] :
        p.sec = "open" => p.keyOk}

ASSUME CallerAssumption == Null \notin Caller
ASSUME ParamsAssumption == Params \subseteq CallParams
ASSUME ModeAssumption == DriverAbove \in BOOLEAN /\ UsesConfig \in BOOLEAN

VARIABLES
    task,          \* what each caller is doing, see Task below
    join_user_data, rtw_join_status, error_flag,
    registered,    \* events whose wifi_conf.c handler is in the table
    link,          \* the driver's station: state and security of the network
    pending,       \* events the driver has yet to indicate
    driver,        \* its thread: the event and where it is in the handler
    configuring,   \* cmd_simple_config is running
    fault

globals == <<join_user_data, rtw_join_status, error_flag, registered>>
env == <<link, pending, driver, configuring>>
vars == <<task, globals, env, fault>>

-----------------------------------------------------------------------------
CallerPc ==
    {"idle", "enter", "alloc", "reg1", "reg2", "reg3", "reg4", "join", "publish",
     "wait", "woken", "timeout", "freesema", "null", "freerecord",
     "unreg1", "unreg2", "unreg3", "return", "dhcp", "dhcpdone"}

Result == {"SUCCESS", "ERROR", "INVALID_KEY", "NOMEM", "NORESOURCE", "TIMEOUT"}

Object == {"none", "live", "freed"}

(* A call: where it is, its parameters and result, what became of          *)
(* join_result, its password and its semaphore ("user" if the caller's),   *)
(* whether the semaphore has been given; and two history fields: the link  *)
(* came up during the call; an event that decides its join was handled.    *)
Task == [pc : CallerPc, p : Params, result : Result, record : Object, password : Object,
         sema : Object \cup {"user"}, given : BOOLEAN, joined : BOOLEAN, decided : BOOLEAN]

NewCall(l, p) ==
    [pc |-> l, p |-> p, result |-> "SUCCESS", record |-> "none", password |-> "none",
     sema |-> "none", given |-> FALSE, joined |-> FALSE, decided |-> FALSE]

(* rtw_join_status; COMPLETE stands for COMPLETE | SECURITY_COMPLETE |     *)
(* ASSOCIATED | AUTHENTICATED | LINK_READY, always set together.           *)
StatusFlag == {"NO_NETWORKS", "COMPLETE", "HANDSHAKE_DONE", "SIMPLE_CONFIG"}

Error == {"UNKNOWN", "NO_ERROR", "NONE_NETWORK", "CONNECT_FAIL", "WRONG_PASSWORD", "DHCP_FAIL"}

Fault == {"none", "uninitialized", "doubleFree", "nullPointer", "freedRecord", "freedSema"}

Resting == [ev |-> "none", pc |-> "idle"]

(* Where each handler has places. *)
DriverThread ==
    {Resting} \cup [ev : {"NO_NETWORK"}, pc : {"test", "use"}]
              \cup [ev : {"CONNECT"}, pc : {"test", "use", "up"}]
              \cup [ev : {"DISCONNECT"}, pc : {"test", "use", "test2", "up"}]
              \cup [ev : {"FOURWAY_HANDSHAKE_DONE"}, pc : {"test", "up"}]

Init ==
    /\ task \in {[c \in Caller |-> NewCall("idle", p)] : p \in Params}
    /\ join_user_data = Null
    /\ rtw_join_status = {}
    /\ error_flag = "UNKNOWN"
    /\ registered = {}
    /\ link = [state |-> "idle", sec |-> "open"]
    /\ pending = <<>>
    /\ driver = Resting
    /\ configuring = FALSE
    /\ fault = "none"

(* The driver thread has nothing to do, and lets the tasks below it run. *)
DriverIdle == pending = <<>> /\ driver = Resting
TasksRun == fault = "none" /\ (DriverAbove => DriverIdle)

At(c, l) == TasksRun /\ task[c].pc = l
Goto(c, l) == task' = [task EXCEPT ![c].pc = l]
Return(c, r) == task' = [task EXCEPT ![c].pc = "return", ![c].result = r]

(* wifi_is_connected_to_ap() == RTW_SUCCESS *)
Connected == link.state = "keyed"

HasPassword(c) == task[c].p.sec # "open"

(* rtw_free, rtw_free_sema of objects in these states. *)
FaultOfFree(S) == IF S \subseteq {"live"} THEN "none" ELSE "doubleFree"

-----------------------------------------------------------------------------
(* A task calls wifi_connect(...) or wifi_connect_bssid(...). *)
Call(c) ==
    /\ At(c, "idle")
    /\ \E p \in Params : task' = [task EXCEPT ![c] = NewCall("enter", p)]
    /\ UNCHANGED <<globals, env, fault>>

(* Refused while simple config or airkiss runs; otherwise the last status  *)
(* and error are cleared, and wifi_connect checks the password's length.   *)
Enter(c) ==
    /\ At(c, "enter")
    /\ IF "SIMPLE_CONFIG" \in rtw_join_status
         THEN Return(c, "ERROR") /\ UNCHANGED <<rtw_join_status, error_flag>>
         ELSE /\ rtw_join_status' = {}
              /\ IF task[c].p.fn = "ssid" /\ ~task[c].p.keyOk
                   THEN error_flag' = "WRONG_PASSWORD" /\ Return(c, "INVALID_KEY")
                   ELSE error_flag' = "UNKNOWN" /\ Goto(c, "alloc")
    /\ UNCHANGED <<join_user_data, registered, env, fault>>

(* The allocations, each of which may fail.  On a failure but the first    *)
(* wifi_connect goes to its error label and wifi_connect_bssid returns.    *)
Failed(c, r, pwd) ==
    task' = [task EXCEPT ![c].pc = IF task[c].p.fn = "ssid" THEN "freesema" ELSE "return",
                         ![c].result = r, ![c].record = "live", ![c].password = pwd]

Allocated(c) == IF HasPassword(c) THEN "live" ELSE "none"

Alloc(c) ==
    /\ At(c, "alloc")
    /\ \/ Return(c, "NOMEM")
       \/ ~task[c].p.keyOk /\ Failed(c, "INVALID_KEY", "none")  \* bssid: tested here
       \/ /\ task[c].p.keyOk
          /\ \/ HasPassword(c) /\ Failed(c, "NOMEM", "none")
             \/ ~task[c].p.user /\ Failed(c, "NORESOURCE", Allocated(c))
             \/ task' = [task EXCEPT ![c].pc = "reg1",
                                     ![c].record = "live",
                                     ![c].password = Allocated(c),
                                     ![c].sema = IF task[c].p.user THEN "user" ELSE "live"]
    /\ UNCHANGED <<globals, env, fault>>

(* wifi_reg_event_handler for each event in turn.  It does nothing, and    *)
(* says nothing, when the three rows of the event are taken.               *)
Register(c, here, e, next) ==
    /\ At(c, here)
    /\ registered' = registered \cup ({e} \ task[c].p.full)
    /\ Goto(c, next)
    /\ UNCHANGED <<join_user_data, rtw_join_status, error_flag, env, fault>>

RegisterAll(c) ==
    \/ Register(c, "reg1", "NO_NETWORK", "reg2")
    \/ Register(c, "reg2", "CONNECT", "reg3")
    \/ Register(c, "reg3", "DISCONNECT", "reg4")
    \/ Register(c, "reg4", "FOURWAY_HANDSHAKE_DONE", "join")

(* wifi_connect_local, wifi_connect_bssid_local: the ioctls may fail, and  *)
(* the result is ignored.  A link that was up is dropped by the driver,    *)
(* which indicates that on its own thread.                                 *)
StartJoin(c) ==
    /\ At(c, "join")
    /\ Goto(c, "publish")
    /\ \/ UNCHANGED <<link, pending>>
       \/ /\ link' = [state |-> "joining", sec |-> task[c].p.sec]
          /\ pending' = IF link.state \in {"associated", "keyed"}
                          THEN Append(pending, "DISCONNECT") ELSE pending
    /\ UNCHANGED <<globals, driver, configuring, fault>>

(* join_user_data = join_result, after the join was started.  With a       *)
(* semaphore of the user's nobody waits: the call falls through to its     *)
(* error label with RTW_SUCCESS.                                           *)
Publish(c) ==
    /\ At(c, "publish")
    /\ join_user_data' = c
    /\ Goto(c, IF task[c].p.user THEN "null" ELSE "wait")
    /\ UNCHANGED <<rtw_join_status, error_flag, registered, env, fault>>

(* rtw_down_timeout_sema *)
WaitForever(c) ==                                                 \* mutant
    /\ At(c, "wait") /\ task[c].given
    /\ task' = [task EXCEPT ![c].pc = "woken", ![c].given = FALSE]
    /\ UNCHANGED <<globals, env, fault>>

WaitFreesRecord(c) ==                                             \* mutant
    /\ At(c, "wait")
    /\ task' = IF task[c].given
                 THEN [task EXCEPT ![c].pc = "woken", ![c].given = FALSE]
                 ELSE [task EXCEPT ![c].pc = "timeout", ![c].result = "TIMEOUT",
                                   ![c].record = "freed"]
    /\ UNCHANGED <<globals, env, fault>>

Wait(c) ==
    /\ At(c, "wait")
    /\ task' = IF task[c].given
                 THEN [task EXCEPT ![c].pc = "woken", ![c].given = FALSE]
                 ELSE [task EXCEPT ![c].pc = "timeout", ![c].result = "TIMEOUT"]
    /\ UNCHANGED <<globals, env, fault>>

(* After the wait, wifi_connect frees the password and goes to its error   *)
(* label, which frees the semaphore, clears join_user_data and frees the   *)
(* record, in this order.                                                  *)
CheckedResultUnchecked == "SUCCESS"                               \* mutant
CheckedResult == IF Connected THEN "SUCCESS" ELSE "ERROR"

SsidAfterWaitKeepsPassword(c) ==                                  \* mutant
    /\ task[c].p.fn = "ssid"
    /\ At(c, "woken") \/ At(c, "timeout")
    /\ task' = [task EXCEPT ![c].pc = "freesema",
                            ![c].result = IF task[c].pc = "woken" THEN CheckedResult ELSE @]
    /\ UNCHANGED <<globals, env, fault>>

SsidAfterWait(c) ==
    /\ task[c].p.fn = "ssid"
    /\ At(c, "woken") \/ At(c, "timeout")
    /\ task' = [task EXCEPT ![c].pc = "freesema",
                            ![c].password = IF HasPassword(c) THEN "freed" ELSE @,
                            ![c].result = IF task[c].pc = "woken" THEN CheckedResult ELSE @]
    /\ fault' = IF HasPassword(c) THEN FaultOfFree({task[c].password}) ELSE fault
    /\ UNCHANGED <<globals, env>>

(* wifi_connect_bssid frees record and semaphore before it clears          *)
(* join_user_data, in one order after a timeout, in the other when woken.  *)
BssidFreeRecord(c) ==
    /\ task[c].p.fn = "bssid"
    /\ At(c, "timeout") \/ At(c, "freerecord")
    /\ task' = [task EXCEPT ![c].pc = IF task[c].pc = "timeout" THEN "freesema" ELSE "null",
                            ![c].password = IF HasPassword(c) THEN "freed" ELSE @,
                            ![c].record = "freed",
                            ![c].result = IF task[c].pc = "timeout" THEN @ ELSE CheckedResult]
    /\ fault' = FaultOfFree({task[c].record} \cup
                            (IF HasPassword(c) THEN {task[c].password} ELSE {}))
    /\ UNCHANGED <<globals, env>>

(* rtw_free_sema(&join_semaphore).  When an allocation failed before the   *)
(* semaphore was made, wifi_connect frees the local join_semaphore that    *)
(* was never assigned: harmless if it happens to be NULL.                  *)
FreeSema(c) ==
    /\ At(c, "freesema") \/ (At(c, "woken") /\ task[c].p.fn = "bssid")
    /\ LET next == IF task[c].pc = "woken" THEN "freerecord" ELSE "null"
       IN IF task[c].sema = "live" \/ task[c].sema = "freed"
            THEN /\ task' = [task EXCEPT ![c].pc = next, ![c].sema = "freed"]
                 /\ fault' = FaultOfFree({task[c].sema})
            ELSE /\ Goto(c, next)
                 /\ fault' \in IF task[c].p.user THEN {"none"} ELSE {"none", "uninitialized"}
    /\ UNCHANGED <<globals, env>>

ClearNothing(c) ==                                                \* mutant
    /\ At(c, "null")
    /\ Goto(c, IF task[c].p.fn = "ssid" THEN "freerecord" ELSE "unreg1")
    /\ UNCHANGED <<globals, env, fault>>

ClearJoinUserData(c) ==
    /\ At(c, "null")
    /\ join_user_data' = Null
    /\ Goto(c, IF task[c].p.fn = "ssid" THEN "freerecord" ELSE "unreg1")
    /\ UNCHANGED <<rtw_join_status, error_flag, registered, env, fault>>

SsidFreeRecord(c) ==
    /\ At(c, "freerecord")
    /\ task[c].p.fn = "ssid"
    /\ task' = [task EXCEPT ![c].pc = "unreg1", ![c].record = "freed"]
    /\ fault' = FaultOfFree({task[c].record})
    /\ UNCHANGED <<globals, env>>

(* wifi_unreg_event_handler; the DISCONNECT handler stays. *)
Unregister(c, here, e, next) ==
    /\ At(c, here)
    /\ registered' = registered \ {e}
    /\ Goto(c, next)
    /\ UNCHANGED <<join_user_data, rtw_join_status, error_flag, env, fault>>

UnregisterTwo(c) ==                                               \* mutant
    \/ Unregister(c, "unreg1", "CONNECT", "unreg2")
    \/ Unregister(c, "unreg2", "NO_NETWORK", "return")

UnregisterAll(c) ==
    \/ Unregister(c, "unreg1", "CONNECT", "unreg2")
    \/ Unregister(c, "unreg2", "NO_NETWORK", "unreg3")
    \/ Unregister(c, "unreg3", "FOURWAY_HANDSHAKE_DONE", "return")

(* The caller gets the result; after a success it runs LwIP_DHCP. *)
Finish(c) ==
    /\ At(c, "return")
    /\ \E l \in {"idle"} \cup (IF task[c].result = "SUCCESS" THEN {"dhcp"} ELSE {}) :
          task' = [task EXCEPT ![c] = NewCall(l, task[c].p)]
    /\ UNCHANGED <<globals, env, fault>>

(* LwIP_DHCP sees the address that DHCP got over the link, and then sets   *)
(* error_flag; or it gives up.                                             *)
DhcpAssigned(c) ==
    /\ At(c, "dhcp")
    /\ Connected
    /\ Goto(c, "dhcpdone")
    /\ UNCHANGED <<globals, env, fault>>

DhcpReturn(c) ==
    /\ At(c, "dhcp") \/ At(c, "dhcpdone")
    /\ error_flag' = IF task[c].pc = "dhcp" THEN "DHCP_FAIL" ELSE "NO_ERROR"
    /\ Goto(c, "idle")
    /\ UNCHANGED <<join_user_data, rtw_join_status, registered, env, fault>>

(* cmd_simple_config on another task: it sets its flag before it listens,  *)
(* and clears the whole of rtw_join_status when it is done                 *)
(* (wifi_simple_config.c).                                                 *)
SimpleConfig ==
    /\ UsesConfig /\ TasksRun
    /\ configuring' = ~configuring
    /\ rtw_join_status' = IF configuring THEN {} ELSE rtw_join_status \cup {"SIMPLE_CONFIG"}
    /\ UNCHANGED <<task, join_user_data, error_flag, registered, link, pending, driver, fault>>

-----------------------------------------------------------------------------
(* The driver (external, a binary library): what the air does to the link, *)
(* and the events it indicates for it.                                     *)
LinkStep(from, to, events) ==
    /\ fault = "none"
    /\ DriverIdle
    /\ link.state = from
    /\ link' = [link EXCEPT !.state = to]
    /\ pending' = events
    /\ task' = [c \in Caller |-> [task[c] EXCEPT !.joined =
                   @ \/ (to = "keyed" /\ task[c].pc \notin {"idle", "dhcp", "dhcpdone"})]]
    /\ UNCHANGED <<globals, driver, configuring, fault>>

Driver ==
    \/ LinkStep("joining", "idle", <<"NO_NETWORK", "DISCONNECT">>)
    \/ LinkStep("joining", "idle", <<"DISCONNECT">>)
    \/ LinkStep("joining", IF link.sec \in {"aes", "wpa"} THEN "associated" ELSE "keyed",
                <<"CONNECT">>)
    \/ LinkStep("associated", "keyed", <<"FOURWAY_HANDSHAKE_DONE">>)
    \/ LinkStep("associated", "idle", <<"DISCONNECT">>)
    \/ LinkStep("keyed", "idle", <<"DISCONNECT">>)

-----------------------------------------------------------------------------
(* wifi_indication on the driver's thread: it reads the handler from the   *)
(* table and calls it; a task that unregisters it meanwhile does not stop  *)
(* it.                                                                     *)
Indicate ==
    /\ fault = "none"
    /\ driver = Resting
    /\ pending # <<>>
    /\ pending' = Tail(pending)
    /\ driver' = IF Head(pending) \in registered
                   THEN [ev |-> Head(pending), pc |-> "test"] ELSE Resting
    /\ UNCHANGED <<task, globals, link, configuring, fault>>

HandlerAt(l) == fault = "none" /\ driver.pc = l
HandlerGoto(l) == driver' = IF l = "idle" THEN Resting ELSE [driver EXCEPT !.pc = l]

(* The events after which a join of this security has succeeded or failed. *)
DecidesJoin(ev, sec) ==
    \/ ev \in {"DISCONNECT", "FOURWAY_HANDSHAKE_DONE"}
    \/ ev = "CONNECT" /\ sec \in {"open", "wep", "wepshared"}

(* The first test of join_user_data in each handler, with what is done     *)
(* before it or instead.                                                   *)
Test ==
    /\ HandlerAt("test")
    /\ HandlerGoto(CASE driver.ev = "DISCONNECT" -> IF join_user_data # Null THEN "use" ELSE "test2"
                     [] driver.ev # "DISCONNECT" /\ join_user_data = Null -> "idle"
                     [] driver.ev = "FOURWAY_HANDSHAKE_DONE" /\ join_user_data # Null -> "up"
                     [] OTHER -> "use")
    /\ rtw_join_status' = IF driver.ev = "FOURWAY_HANDSHAKE_DONE"
                            THEN {"COMPLETE", "HANDSHAKE_DONE"} ELSE rtw_join_status
    /\ error_flag' = IF /\ driver.ev = "DISCONNECT" /\ join_user_data = Null
                        /\ error_flag = "NO_ERROR"
                       THEN "UNKNOWN" ELSE error_flag
    /\ task' = [c \in Caller |-> [task[c] EXCEPT !.decided =
                  @ \/ (join_user_data = c /\ DecidesJoin(driver.ev, task[c].p.sec))]]
    /\ UNCHANGED <<join_user_data, registered, link, pending, configuring, fault>>

(* Following join_user_data, which is read once more. *)
BadRecord ==
    IF join_user_data = Null THEN "nullPointer"
    ELSE IF task[join_user_data].record = "live" THEN "none" ELSE "freedRecord"

Faults(f) == fault' = f /\ UNCHANGED <<task, globals, env>>

(* The last comparison of wifi_disconn_hdl, == followed by |, is always    *)
(* true.                                                                   *)
DisconnectErrorKept(sec) ==                                       \* mutant
    IF rtw_join_status = {"NO_NETWORKS"} /\ sec \in {"open", "wep", "aes"}
      THEN "NONE_NETWORK" ELSE error_flag

DisconnectError(sec) ==
    CASE rtw_join_status = {"NO_NETWORKS"} /\ sec \in {"open", "wep", "aes"} -> "NONE_NETWORK"
      [] rtw_join_status = {} /\ sec \in {"wep", "aes"} -> "CONNECT_FAIL"
      [] rtw_join_status \notin {{"NO_NETWORKS"}, {}} /\ sec = "aes" -> "WRONG_PASSWORD"
      [] OTHER -> error_flag

(* What the handlers do between the test and the semaphore.  Only          *)
(* wifi_no_network_hdl does not follow the pointer.                        *)
HandledWakesEarly(sec) ==                                         \* mutant
    /\ driver.ev \in {"NO_NETWORK", "CONNECT", "DISCONNECT"}
    /\ HandlerGoto("up")
    /\ UNCHANGED <<rtw_join_status, error_flag>>

Handled(sec) ==
    \/ /\ driver.ev = "NO_NETWORK"
       /\ rtw_join_status' = {"NO_NETWORKS"}
       /\ HandlerGoto("idle") /\ UNCHANGED error_flag
    \/ /\ driver.ev = "CONNECT"
       /\ rtw_join_status' = IF sec \in {"open", "wep", "aes"} THEN {"COMPLETE"} ELSE rtw_join_status
       /\ HandlerGoto(IF sec \in {"open", "wep"} THEN "up" ELSE "idle")
       /\ UNCHANGED error_flag
    \/ /\ driver.ev = "DISCONNECT"
       /\ error_flag' = DisconnectError(sec)
       /\ HandlerGoto("test2") /\ UNCHANGED rtw_join_status

Use ==
    /\ HandlerAt("use")
    /\ IF driver.ev # "NO_NETWORK" /\ BadRecord # "none"
         THEN Faults(BadRecord)
         ELSE /\ Handled(IF driver.ev = "NO_NETWORK" THEN "open" ELSE task[join_user_data].p.sec)
              /\ UNCHANGED <<task, join_user_data, registered, link, pending, configuring, fault>>

(* wifi_disconn_hdl tests join_user_data a second time before the give. *)
TestAgain ==
    /\ HandlerAt("test2")
    /\ HandlerGoto(IF join_user_data # Null THEN "up" ELSE "idle")
    /\ UNCHANGED <<task, globals, link, pending, configuring, fault>>

(* rtw_up_sema(&join_user_data->join_sema) *)
BadSema ==
    IF BadRecord = "none" /\ task[join_user_data].sema = "freed" THEN "freedSema" ELSE BadRecord

UpSemaNothing ==                                                  \* mutant
    /\ HandlerAt("up")
    /\ HandlerGoto("idle")
    /\ UNCHANGED <<task, globals, link, pending, configuring, fault>>

UpSema ==
    /\ HandlerAt("up")
    /\ IF BadSema # "none"
         THEN Faults(BadSema)
         ELSE /\ task' = [task EXCEPT ![join_user_data].given = TRUE]
              /\ HandlerGoto("idle")
              /\ UNCHANGED <<globals, link, pending, configuring, fault>>

Handler == Indicate \/ Test \/ Use \/ TestAgain \/ UpSema

-----------------------------------------------------------------------------
(* The steps a call takes once it has been made. *)
CallerStep(c) ==
    \/ Enter(c) \/ Alloc(c) \/ RegisterAll(c) \/ StartJoin(c) \/ Publish(c) \/ Wait(c)
    \/ SsidAfterWait(c) \/ BssidFreeRecord(c) \/ FreeSema(c) \/ ClearJoinUserData(c)
    \/ SsidFreeRecord(c) \/ UnregisterAll(c) \/ Finish(c) \/ DhcpAssigned(c) \/ DhcpReturn(c)

(* After a wild access anything may follow; nothing is modelled of it. *)
Crashed == fault # "none" /\ UNCHANGED vars

Next ==
    \/ \E c \in Caller : Call(c) \/ CallerStep(c)
    \/ SimpleConfig \/ Driver \/ Handler \/ Crashed

Spec == Init /\ [][Next]_vars

(* The driver's thread and a task in a call get to run; the air, the user  *)
(* who starts calls and simple config owe nothing.                         *)
Fairness == WF_vars(Handler) /\ \A c \in Caller : WF_vars(CallerStep(c))

FairSpec == Spec /\ Fairness

-----------------------------------------------------------------------------
TypeOK ==
    /\ task \in [Caller -> Task]
    /\ join_user_data \in Caller \cup {Null}
    /\ rtw_join_status \in SUBSET StatusFlag
    /\ error_flag \in Error
    /\ registered \in SUBSET Event
    /\ link \in [state : {"idle", "joining", "associated", "keyed"}, sec : Security]
    /\ pending \in Seq(Event)
    /\ driver \in DriverThread
    /\ configuring \in BOOLEAN
    /\ fault \in Fault

(* Whatever the callers and the handlers interleave to, the record of a    *)
(* wifi_connect call that join_user_data points to has not been freed      *)
(* (wifi_connect clears the pointer first; wifi_connect_bssid does not).   *)
PublishedRecordLive ==
    join_user_data # Null /\ task[join_user_data].p.fn = "ssid"
        => task[join_user_data].record = "live"

(* When the driver thread runs above the callers, no handler follows a     *)
(* NULL or freed record, unless a call of wifi_connect_bssid, which frees  *)
(* the record before it clears the pointer, is under way or was the last.  *)
HandlerSeesRecord ==
    fault \in {"nullPointer", "freedRecord"} => \E c \in Caller : task[c].p.fn = "bssid"

(* No path through the error labels frees an object twice. *)
NoDoubleFree == fault # "doubleFree"

(* A wifi_connect call that used its own semaphore gives everything back,  *)
(* unless the semaphore could not be made (then the password is lost).     *)
NothingLeaked ==
    \A c \in Caller : LET t == task[c] IN
        t.pc = "return" /\ t.p.fn = "ssid" /\ ~t.p.user /\ t.result # "NORESOURCE"
            => "live" \notin {t.record, t.password, t.sema}

(* Between calls nothing of wifi_conf.c is left behind but the DISCONNECT  *)
(* handler, however the calls of several tasks overlapped.                 *)
QuietIsClean ==
    (\A c \in Caller : task[c].pc \in {"idle", "enter", "return", "dhcp", "dhcpdone"})
        => join_user_data = Null /\ registered \subseteq {"DISCONNECT"}

(* No lost wake-up: while a call waits with its record published, an event *)
(* that decides its join leaves the semaphore given.                       *)
DecisionWakes ==
    \A c \in Caller :
        task[c].pc = "wait" /\ task[c].decided /\ join_user_data = c /\ driver = Resting
            => task[c].given \/ fault # "none"

(* "RTW_SUCCESS: when the system is joined" (wifi_conf.h): the link came   *)
(* up at some time during a call that returns success; a call with a       *)
(* semaphore of the user's returns before that.  For one caller.           *)
SuccessMeansJoined ==
    \A c \in Caller :
        task[c].pc = "return" /\ task[c].result = "SUCCESS" /\ ~task[c].p.user => task[c].joined

(* The return after a failed join of a WPA2 network tells why: the last    *)
(* error is one of the three reasons, never the initial one.  For one      *)
(* caller below the driver's priority.                                     *)
FailureHasReason ==
    [][\A c \in Caller :
        /\ task[c].pc = "woken" /\ task[c].p.sec = "aes" /\ task'[c].result = "ERROR"
        => error_flag \in {"NONE_NETWORK", "CONNECT_FAIL", "WRONG_PASSWORD"}]_vars

(* Every call comes back, by the semaphore or by its timeout, also when    *)
(* the event it waits for finds no handler in the table.                   *)
EveryCallReturns ==
    \A c \in Caller : task[c].pc = "enter" ~> (task[c].pc = "return" \/ fault # "none")
=============================================================================
