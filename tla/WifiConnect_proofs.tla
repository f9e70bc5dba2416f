------------------------- MODULE WifiConnect_proofs -------------------------
(***************************************************************************)
(* Proofs about WifiConnect for any callers and parameters. What depends   *)
(* on the priority of the driver's thread or on the parameters says so.    *)
(***************************************************************************)
EXTENDS WifiConnect, TLAPS

Starting == {"enter", "alloc", "reg1", "reg2", "reg3", "reg4", "join", "publish"}
Registering == {"reg1", "reg2", "reg3", "reg4", "join", "publish"}
Waiting == {"wait", "woken", "timeout"}

AllocatedPassword(t) == IF t.p.sec # "open" THEN "live" ELSE "none"

(* What a call owns, and what it knows, at each place.                     *)
Owns(t) ==
    /\ t.pc \in Registering \cup Waiting =>
          /\ t.record = "live" /\ t.password = AllocatedPassword(t)
          /\ t.sema = IF t.p.user THEN "user" ELSE "live"
    /\ t.pc \in {"enter", "alloc"} => t.record = "none" /\ t.password = "none" /\ t.sema = "none"
    /\ t.pc \in Waiting => ~t.p.user
    /\ t.pc = "freesema" => t.sema # "freed" /\ (t.p.fn = "ssid" => t.record = "live")
    /\ t.pc = "null" /\ t.p.fn = "ssid" => t.record = "live"
    /\ t.pc = "freerecord" =>
          /\ t.record = "live"
          /\ t.p.fn = "bssid" => t.password = AllocatedPassword(t)
    /\ t.pc \in Starting \cup {"wait", "woken"} => t.result = "SUCCESS"
    /\ t.pc = "timeout" => t.result = "TIMEOUT"
    /\ t.pc \in Starting => ~t.given /\ ~t.decided
Ownership == \A c \in Caller : Owns(task[c])

(* On wifi_connect's way out everything has been given back, in order.     *)
Returned(t) ==
    t.p.fn = "ssid" /\ ~t.p.user /\ t.result # "NORESOURCE" =>
        /\ t.pc \in {"freesema", "null", "freerecord", "unreg1", "unreg2", "unreg3", "return"}
              => t.password # "live"
        /\ t.pc \in {"null", "freerecord", "unreg1", "unreg2", "unreg3", "return"}
              => t.sema # "live"
        /\ t.pc \in {"unreg1", "unreg2", "unreg3", "return"} => t.record # "live"
GivenBack == \A c \in Caller : Returned(task[c])

(* join_user_data points to a call between its publication and the         *)
(* clearing of the pointer, if to any.                                     *)
Published(t) ==
    t.pc \in Waiting \cup {"freesema", "null"} \/ (t.pc = "freerecord" /\ t.p.fn = "bssid")
Pointed == join_user_data # Null => Published(task[join_user_data])

(* A handler in the table was put there by a call that has yet to take it  *)
(* out.                                                                    *)
Busy(e) ==
    Waiting \cup {"freesema", "freerecord", "null", "join", "publish", "reg4", "unreg1"} \cup
    CASE e = "NO_NETWORK" -> {"reg2", "reg3", "unreg2"}
      [] e = "CONNECT" -> {"reg3"}
      [] OTHER -> {"unreg2", "unreg3"}
Tabled == \A e \in registered \ {"DISCONNECT"} : \E c \in Caller : task[c].pc \in Busy(e)

(* A handler that runs above the callers keeps the pointer it has tested.  *)
Follows == driver.pc = "up" \/ (driver.pc = "use" /\ driver.ev # "NO_NETWORK")
PointerKept == Follows => join_user_data # Null

(* A decided call that waits is going to be woken by the handler.          *)
Waking(at, sec) ==
    \/ at.pc = "up"
    \/ at.ev = "DISCONNECT" /\ at.pc \in {"use", "test2"}
    \/ at.ev = "CONNECT" /\ at.pc = "use" /\ sec \in {"open", "wep"}
Wakes ==
    \A c \in Caller :
        task[c].pc = "wait" /\ task[c].decided /\ join_user_data = c
            => task[c].given \/ fault # "none" \/ Waking(driver, task[c].p.sec)
SharedUnused == \A p \in Params : p.sec # "wepshared"

(* A call that finds the link up without having seen it come up has heard  *)
(* of no event: the link was up before.                                    *)
Checking(t) == t.pc \in {"wait", "woken"} \/ (t.pc = "freerecord" /\ t.p.fn = "bssid")
KeyedBefore ==
    \A c \in Caller :
        link.state = "keyed" /\ ~task[c].joined /\ Checking(task[c])
            => task[c].pc = "wait" /\ ~task[c].given /\ DriverIdle
Checked(t) ==
    \/ t.pc \in {"freesema", "null", "unreg1", "unreg2", "unreg3", "return"}
    \/ t.pc = "freerecord" /\ t.p.fn = "ssid"
SuccessSeen ==
    \A c \in Caller :
        Checked(task[c]) /\ task[c].result = "SUCCESS" /\ ~task[c].p.user => task[c].joined

IInv ==
    /\ TypeOK /\ Ownership /\ GivenBack /\ Pointed /\ Tabled /\ NoDoubleFree
    /\ DriverAbove => PointerKept
    /\ DriverAbove => HandlerSeesRecord
    /\ SharedUnused => Wakes
    /\ DriverAbove => KeyedBefore /\ SuccessSeen

-----------------------------------------------------------------------------
(* Steps of a caller.                                                      *)

(* A call that has just been made has the type of one. *)
LEMMA CallTypes ==
    ASSUME NEW p \in Params, NEW l \in CallerPc PROVE NewCall(l, p) \in Task
BY DEF NewCall, Task, Result, Object

LinkTypes == link \in [state : {"idle", "joining", "associated", "keyed"}, sec : Security]

(* The system starts in the inductive invariant. *)
LEMMA InitInv == Init => IInv
<1> SUFFICES ASSUME Init PROVE IInv
  OBVIOUS
<1>1. PICK p \in Params : task = [c \in Caller |-> NewCall("idle", p)]
  BY DEF Init
<1>2. NewCall("idle", p) \in Task
  BY CallTypes DEF CallerPc
<1>3. TypeOK
  <2>1. task \in [Caller -> Task]
    BY <1>1, <1>2
  <2>2. driver \in DriverThread
    BY DEF Init, Resting, DriverThread
  <2>3. LinkTypes
    BY DEF Init, Security, LinkTypes
  <2>4. pending \in Seq(Event)
    BY DEF Init
  <2>5. configuring \in BOOLEAN
    BY Zenon DEF Init
  <2> QED
    BY <2>1, <2>2, <2>3, <2>4, <2>5 DEF Init, TypeOK, StatusFlag, Error, Fault, LinkTypes
<1>4. Ownership /\ GivenBack
  BY <1>1 DEF Ownership, Owns, GivenBack, Returned, Starting, Registering, Waiting, NewCall
<1>5. Pointed /\ Tabled /\ NoDoubleFree /\ PointerKept /\ HandlerSeesRecord
  BY DEF Init, Pointed, Tabled, NoDoubleFree, PointerKept, Follows, Resting, HandlerSeesRecord
<1>6. Wakes /\ KeyedBefore /\ SuccessSeen
  BY <1>1 DEF Init, Wakes, KeyedBefore, SuccessSeen, Checking, Checked, NewCall
<1> QED
  BY <1>3, <1>4, <1>5, <1>6 DEF IInv

(* What a step of caller c alone has to establish about its new record r.  *)
LinkKept == UNCHANGED <<link, pending>>
LinkRestarted == LinkTypes' /\ link'.state = "joining" /\ pending' \in Seq(Event)

(* What a step of a caller has to leave of the records, the registrations  *)
(* and the connection to keep the invariant.                               *)
LEMMA CallerFrame ==
    ASSUME IInv, TasksRun, NEW c \in Caller, NEW r \in Task, task' = [task EXCEPT ![c] = r],
           UNCHANGED <<driver, configuring>>, LinkKept \/ LinkRestarted,
           rtw_join_status' \in SUBSET StatusFlag, error_flag' \in Error,
           registered' \in SUBSET Event, fault' \in {"none", "uninitialized"},
           Owns(r), Returned(r),
           join_user_data' \in {join_user_data, c, Null}, join_user_data' = c => Published(r),
           \A e \in registered' \ {"DISCONNECT"} :
              \/ r.pc \in Busy(e)
              \/ e \in registered /\ task[c].pc \notin Busy(e),
           r.pc = "wait" => ~r.decided /\ ~r.given,
           DriverAbove =>
              /\ link'.state = "keyed" /\ ~r.joined /\ Checking(r) => r.pc = "wait"
              /\ Checked(r) /\ r.result = "SUCCESS" /\ ~r.p.user => r.joined
    PROVE  IInv'
<1>1. TypeOK /\ task \in [Caller -> Task] /\ join_user_data \in Caller \cup {Null}
  BY DEF IInv, TypeOK
<1>2. task'[c] = r /\ (\A d \in Caller \ {c} : task'[d] = task[d]) /\ task' \in [Caller -> Task]
  BY <1>1
<1>3. TypeOK'
  <2>1. link' \in [state : {"idle", "joining", "associated", "keyed"}, sec : Security]
    BY <1>1 DEF LinkKept, LinkRestarted, LinkTypes, TypeOK
  <2>2. pending' \in Seq(Event)
    BY <1>1 DEF LinkKept, LinkRestarted, TypeOK
  <2> QED
    BY <1>1, <1>2, <2>1, <2>2 DEF TypeOK, Fault
<1>4. Ownership' /\ GivenBack'
  BY <1>2 DEF IInv, Ownership, GivenBack
<1>5. Pointed'
  <2>1. CASE join_user_data' = c
    BY <2>1, <1>2 DEF Pointed
  <2>2. CASE join_user_data' # c
    BY <2>2, <1>1, <1>2 DEF IInv, Pointed
  <2> QED
    BY <2>1, <2>2
<1>6. Tabled'
  <2> SUFFICES ASSUME NEW e \in registered' \ {"DISCONNECT"}
               PROVE \E d \in Caller : task'[d].pc \in Busy(e)
    BY DEF Tabled, Busy
  <2>1. CASE r.pc \in Busy(e)
    BY <2>1, <1>2
  <2>2. CASE e \in registered /\ task[c].pc \notin Busy(e)
    <3>1. PICK d \in Caller : task[d].pc \in Busy(e)
      BY <2>2 DEF IInv, Tabled
    <3> QED
      BY <3>1, <2>2, <1>2
  <2> QED
    BY <2>1, <2>2
<1>7. DriverAbove => DriverIdle /\ PointerKept'
  BY DEF TasksRun, DriverIdle, PointerKept, Follows, Resting
<1>8. NoDoubleFree' /\ HandlerSeesRecord'
  BY DEF NoDoubleFree, HandlerSeesRecord
<1>9. SharedUnused => Wakes'
  <2> SUFFICES ASSUME SharedUnused, NEW d \in Caller,
                      task'[d].pc = "wait", task'[d].decided, join_user_data' = d
               PROVE  task'[d].given \/ fault' # "none" \/ Waking(driver', task'[d].p.sec)
    BY DEF Wakes, Waking
  <2>1. d # c
    BY <1>2
  <2>2. task'[d] = task[d] /\ join_user_data = d /\ fault = "none"
    BY <2>1, <1>1, <1>2, CallerAssumption DEF TasksRun
  <2>3. task[d].given \/ Waking(driver, task[d].p.sec)
    BY <2>2 DEF IInv, Wakes
  <2> QED
    BY <2>2, <2>3
<1>10. ASSUME DriverAbove PROVE KeyedBefore' /\ SuccessSeen'
  <2>1. KeyedBefore'
    <3> SUFFICES ASSUME NEW d \in Caller, link'.state = "keyed", ~task'[d].joined, Checking(task'[d])
                 PROVE  task'[d].pc = "wait" /\ ~task'[d].given /\ DriverIdle'
      BY DEF KeyedBefore, Checking
    <3>1. LinkKept
      BY DEF LinkRestarted
    <3>2. DriverIdle'
      BY <3>1, <1>7, <1>10 DEF DriverIdle, LinkKept
    <3>3. CASE d = c
      BY <3>2, <3>3, <1>2, <1>10
    <3>4. CASE d # c
      BY <3>1, <3>2, <3>4, <1>2, <1>10 DEF IInv, KeyedBefore, LinkKept
    <3> QED
      BY <3>3, <3>4
  <2>2. SuccessSeen'
    BY <1>2, <1>10 DEF IInv, SuccessSeen
  <2> QED
    BY <2>1, <2>2
<1> QED
  BY <1>3, <1>4, <1>5, <1>6, <1>7, <1>8, <1>9, <1>10 DEF IInv

(* What is known of caller c before its step.                              *)
LEMMA Known ==
    ASSUME IInv, NEW c \in Caller
    PROVE  /\ TypeOK /\ task \in [Caller -> Task] /\ task[c] \in Task
           /\ Owns(task[c]) /\ Returned(task[c])
           /\ join_user_data = c => Published(task[c])
           /\ rtw_join_status \in SUBSET StatusFlag /\ error_flag \in Error
           /\ registered \in SUBSET Event
           /\ DriverAbove =>
                /\ link.state = "keyed" /\ ~task[c].joined /\ Checking(task[c])
                      => task[c].pc = "wait" /\ ~task[c].given
                /\ Checked(task[c]) /\ task[c].result = "SUCCESS" /\ ~task[c].p.user
                      => task[c].joined
BY CallerAssumption DEF IInv, TypeOK, Ownership, GivenBack, Pointed, KeyedBefore, SuccessSeen

LEMMA CallInv == ASSUME IInv, NEW c \in Caller, Call(c) PROVE IInv'
<1>1. PICK p \in Params : task' = [task EXCEPT ![c] = NewCall("enter", p)]
  BY DEF Call
<1>2. PICK r \in Task : r = NewCall("enter", p)
  BY CallTypes DEF CallerPc
<1>3. /\ r.pc = "enter" /\ Owns(r) /\ Returned(r) /\ ~Checking(r) /\ ~Checked(r)
  BY <1>2 DEF NewCall, Owns, Returned, Starting, Registering, Waiting, Checking, Checked
<1>4. TasksRun /\ task[c].pc = "idle" /\ UNCHANGED <<globals, env, fault>>
  BY DEF Call, At
<1>5. join_user_data # c
  BY <1>4, Known DEF Published, Waiting
<1>6. \A e : task[c].pc \notin Busy(e)
  BY <1>4 DEF Busy, Waiting
<1>7. task' = [task EXCEPT ![c] = r]
  BY <1>1, <1>2
<1> QED
  BY <1>3, <1>4, <1>5, <1>6, <1>7, Known, CallerFrame DEF globals, env, LinkKept, TasksRun

LEMMA EnterInv == ASSUME IInv, NEW c \in Caller, Enter(c) PROVE IInv'
<1>1. /\ TasksRun /\ task[c].pc = "enter"
      /\ UNCHANGED <<join_user_data, registered, env, fault>>
  BY DEF Enter, At
<1>2. PICK l \in {"return", "alloc"}, res \in {"SUCCESS", "ERROR", "INVALID_KEY"} :
         /\ task' = [task EXCEPT ![c].pc = l, ![c].result = res]
         /\ l = "alloc" <=> res = "SUCCESS"
  <2>1. task[c].result = "SUCCESS" /\ task \in [Caller -> Task]
    BY <1>1, Known DEF Owns, Starting
  <2>2. Goto(c, "alloc") => task' = [task EXCEPT ![c].pc = "alloc", ![c].result = "SUCCESS"]
    BY <2>1 DEF Goto, Task
  <2> QED
    BY <2>2 DEF Enter, Return
<1>3. PICK r \in Task : r = [task[c] EXCEPT !.pc = l, !.result = res]
  BY Known DEF Task, CallerPc, Result
<1>4. task' = [task EXCEPT ![c] = r]
  BY <1>2, <1>3, Known
<1>5. r.pc = l /\ r.result = res /\ Owns(r) /\ Returned(r) /\ ~Checking(r) /\ (Checked(r) => res # "SUCCESS")
  BY <1>1, <1>2, <1>3, Known
     DEF Task, Owns, Returned, Starting, Registering, Waiting, Checking, Checked
<1>6. join_user_data # c
  BY <1>1, Known DEF Published, Waiting
<1>7. \A e : task[c].pc \notin Busy(e)
  BY <1>1 DEF Busy, Waiting
<1>8. rtw_join_status' \in SUBSET StatusFlag /\ error_flag' \in Error
  BY Known DEF Enter, Error
<1> QED
  BY <1>1, <1>2, <1>4, <1>5, <1>6, <1>7, <1>8, Known, CallerFrame DEF env, LinkKept, TasksRun

LEMMA AllocInv == ASSUME IInv, NEW c \in Caller, Alloc(c) PROVE IInv'
<1> DEFINE After(r) == /\ task' = [task EXCEPT ![c] = r]
                       /\ Owns(r) /\ Returned(r) /\ ~Checking(r) /\ r.pc # "wait"
                       /\ Checked(r) => r.result # "SUCCESS"
<1>1. TasksRun /\ task[c].pc = "alloc" /\ UNCHANGED <<globals, env, fault>>
  BY DEF Alloc, At
<1>2. /\ task[c].record = "none" /\ task[c].password = "none" /\ task[c].sema = "none"
      /\ task[c].result = "SUCCESS" /\ ~task[c].given /\ ~task[c].decided
  BY <1>1, Known DEF Owns, Starting
<1>3. ASSUME Return(c, "NOMEM") PROVE \E r \in Task : After(r)
  <2>1. PICK r \in Task : r = [task[c] EXCEPT !.pc = "return", !.result = "NOMEM"]
    BY Known DEF Task, CallerPc, Result
  <2>2. After(r)
    BY <1>2, <1>3, <2>1, Known
       DEF Return, Task, Owns, Returned, Checking, Checked, Starting, Registering, Waiting
  <2> QED
    BY <2>2
<1>4. ASSUME NEW res \in {"INVALID_KEY", "NOMEM", "NORESOURCE"}, NEW pwd \in {"none", "live"},
             pwd = "live" => res = "NORESOURCE", Failed(c, res, pwd)
      PROVE  \E r \in Task : After(r)
  <2>1. PICK l \in {"freesema", "return"} :
           l = IF task[c].p.fn = "ssid" THEN "freesema" ELSE "return"
    OBVIOUS
  <2>2. PICK r \in Task :
           r = [task[c] EXCEPT !.pc = l, !.result = res, !.record = "live", !.password = pwd]
    <3>1. l \in CallerPc /\ res \in Result /\ pwd \in Object /\ "live" \in Object
      BY <2>1 DEF CallerPc, Result, Object
    <3> QED
      BY <3>1, Known DEF Task
  <2>3. After(r)
    BY <1>2, <1>4, <2>1, <2>2, Known
       DEF Failed, Task, Owns, Returned, Checking, Checked, Starting, Registering, Waiting
  <2> QED
    BY <2>3
<1>5. ASSUME task' = [task EXCEPT ![c].pc = "reg1", ![c].record = "live",
                                  ![c].password = Allocated(c),
                                  ![c].sema = IF task[c].p.user THEN "user" ELSE "live"]
      PROVE  \E r \in Task : After(r)
  <2>1. PICK r \in Task :
           r = [task[c] EXCEPT !.pc = "reg1", !.record = "live", !.password = Allocated(c),
                               !.sema = IF task[c].p.user THEN "user" ELSE "live"]
    BY Known DEF Task, CallerPc, Object, Allocated
  <2>2. After(r)
    BY <1>2, <1>5, <2>1, Known
       DEF Allocated, HasPassword, AllocatedPassword, Task, Owns, Returned, Checking, Checked,
           Starting, Registering, Waiting
  <2> QED
    BY <2>2
<1>6. \E r \in Task : After(r)
  <2>1. Allocated(c) \in {"none", "live"}
    BY DEF Allocated
  <2>2. \/ Return(c, "NOMEM") \/ Failed(c, "INVALID_KEY", "none") \/ Failed(c, "NOMEM", "none")
        \/ Failed(c, "NORESOURCE", Allocated(c))
        \/ task' = [task EXCEPT ![c].pc = "reg1", ![c].record = "live",
                                ![c].password = Allocated(c),
                                ![c].sema = IF task[c].p.user THEN "user" ELSE "live"]
    BY DEF Alloc
  <2> HIDE DEF After
  <2> QED
    BY <1>3, <1>4, <1>5, <2>1, <2>2
<1>7. PICK r \in Task : After(r)
  BY <1>6
<1>8. join_user_data # c
  BY <1>1, Known DEF Published, Waiting
<1>9. \A e : task[c].pc \notin Busy(e)
  BY <1>1 DEF Busy, Waiting
<1>10. /\ task' = [task EXCEPT ![c] = r] /\ Owns(r) /\ Returned(r) /\ ~Checking(r) /\ r.pc # "wait"
       /\ Checked(r) => r.result # "SUCCESS"
  BY <1>7
<1> HIDE DEF After
<1> QED
  BY <1>1, <1>8, <1>9, <1>10, Known, CallerFrame DEF globals, env, LinkKept, TasksRun

LEMMA RegisterAllInv == ASSUME IInv, NEW c \in Caller, RegisterAll(c) PROVE IInv'
<1>1. PICK here, e, next :
         /\ \/ here = "reg1" /\ e = "NO_NETWORK" /\ next = "reg2"
            \/ here = "reg2" /\ e = "CONNECT" /\ next = "reg3"
            \/ here = "reg3" /\ e = "DISCONNECT" /\ next = "reg4"
            \/ here = "reg4" /\ e = "FOURWAY_HANDSHAKE_DONE" /\ next = "join"
         /\ Register(c, here, e, next)
  BY DEF RegisterAll
<1>2. /\ TasksRun /\ task[c].pc = here /\ registered' = registered \cup ({e} \ task[c].p.full)
      /\ UNCHANGED <<join_user_data, rtw_join_status, error_flag, env, fault>>
  BY <1>1 DEF Register, At
<1>3. PICK r \in Task : r = [task[c] EXCEPT !.pc = next]
  BY <1>1, Known DEF Task, CallerPc
<1>4. task' = [task EXCEPT ![c] = r]
  BY <1>1, <1>3, Known DEF Register, Goto
<1>5. Owns(r) /\ Returned(r) /\ ~Checking(r) /\ ~Checked(r) /\ r.pc = next
  BY <1>1, <1>2, <1>3, Known
     DEF Task, Owns, AllocatedPassword, Returned, Starting, Registering, Waiting, Checking, Checked
<1>6. join_user_data # c
  BY <1>1, <1>2, Known DEF Published, Waiting
<1>7. ASSUME NEW x \in registered' \ {"DISCONNECT"}
      PROVE  r.pc \in Busy(x) \/ (x \in registered /\ task[c].pc \notin Busy(x))
  <2>1. x \in Event
    BY <1>2, <1>1, Known DEF Event
  <2>2. x = e => next \in Busy(x)
    BY <1>1, <1>7 DEF Busy
  <2>3. task[c].pc \in Busy(x) => next \in Busy(x)
    BY <2>1, <1>1, <1>2, <1>7 DEF Busy, Waiting, Event
  <2> QED
    BY <1>2, <1>5, <2>2, <2>3
<1>8. registered' \in SUBSET Event
  BY <1>1, <1>2, Known DEF Event
<1>9. r.pc # "wait"
  BY <1>1, <1>5
<1> QED
  BY <1>2, <1>4, <1>5, <1>6, <1>7, <1>8, <1>9, Known, CallerFrame DEF env, LinkKept, TasksRun

LEMMA StartJoinInv == ASSUME IInv, NEW c \in Caller, StartJoin(c) PROVE IInv'
<1>1. TasksRun /\ task[c].pc = "join" /\ UNCHANGED <<globals, driver, configuring, fault>>
  BY DEF StartJoin, At
<1>2. PICK r \in Task : r = [task[c] EXCEPT !.pc = "publish"]
  BY Known DEF Task, CallerPc
<1>3. task' = [task EXCEPT ![c] = r]
  BY <1>2, Known DEF StartJoin, Goto
<1>4. Owns(r) /\ Returned(r) /\ ~Checking(r) /\ ~Checked(r) /\ r.pc = "publish"
  BY <1>1, <1>2, Known
     DEF Task, Owns, AllocatedPassword, Returned, Starting, Registering, Waiting, Checking, Checked
<1>5. join_user_data # c
  BY <1>1, Known DEF Published, Waiting
<1>6. \A e : r.pc \in Busy(e)
  BY <1>4 DEF Busy
<1>7. LinkKept \/ LinkRestarted
  <2>1. task[c].p.sec \in Security /\ pending \in Seq(Event)
    BY Known, ParamsAssumption DEF Task, CallParams, TypeOK
  <2>2. Append(pending, "DISCONNECT") \in Seq(Event)
    BY <2>1 DEF Event
  <2> QED
    BY <2>1, <2>2 DEF StartJoin, LinkKept, LinkRestarted, LinkTypes
<1> QED
  BY <1>1, <1>3, <1>4, <1>5, <1>6, <1>7, Known, CallerFrame DEF globals, TasksRun

LEMMA PublishInv == ASSUME IInv, NEW c \in Caller, Publish(c) PROVE IInv'
<1>1. /\ TasksRun /\ task[c].pc = "publish" /\ join_user_data' = c
      /\ UNCHANGED <<rtw_join_status, error_flag, registered, env, fault>>
  BY DEF Publish, At
<1>2. PICK l \in {"wait", "null"} : l = IF task[c].p.user THEN "null" ELSE "wait"
  OBVIOUS
<1>3. PICK r \in Task : r = [task[c] EXCEPT !.pc = l]
  BY Known DEF Task, CallerPc
<1>4. task' = [task EXCEPT ![c] = r]
  BY <1>2, <1>3, Known DEF Publish, Goto
<1>5. Owns(r) /\ Returned(r) /\ Published(r) /\ r.pc = l /\ ~r.given /\ ~r.decided
  BY <1>1, <1>2, <1>3, Known
     DEF Task, Owns, AllocatedPassword, Returned, Starting, Registering, Waiting, Published
<1>6. ~r.p.user => l = "wait"
  BY <1>2, <1>3
<1>7. \A e : r.pc \in Busy(e)
  BY <1>5 DEF Busy, Waiting
<1>8. Checking(r) => r.pc = "wait"
  BY <1>2, <1>5 DEF Checking
<1>9. Checked(r) => r.p.user
  BY <1>5, <1>6 DEF Checked
<1> QED
  BY <1>1, <1>4, <1>5, <1>6, <1>7, <1>8, <1>9, Known, CallerFrame DEF env, LinkKept, TasksRun

LEMMA WaitInv == ASSUME IInv, NEW c \in Caller, Wait(c) PROVE IInv'
<1>1. TasksRun /\ task[c].pc = "wait" /\ UNCHANGED <<globals, env, fault>>
  BY DEF Wait, At
<1>2. PICK r \in Task :
         r = IF task[c].given THEN [task[c] EXCEPT !.pc = "woken", !.given = FALSE]
                              ELSE [task[c] EXCEPT !.pc = "timeout", !.result = "TIMEOUT"]
  BY Known DEF Task, CallerPc, Result
<1>3. task' = [task EXCEPT ![c] = r]
  BY <1>2, Known DEF Wait
<1>4. Owns(r) /\ Returned(r) /\ Published(r) /\ r.pc \in {"woken", "timeout"}
  <2>1. CASE task[c].given
    BY <1>1, <1>2, <2>1, Known
       DEF Task, Owns, AllocatedPassword, Returned, Starting, Registering, Waiting, Published
  <2>2. CASE ~task[c].given
    BY <1>1, <1>2, <2>2, Known
       DEF Task, Owns, AllocatedPassword, Returned, Starting, Registering, Waiting, Published
  <2> QED
    BY <2>1, <2>2
<1>5. \A e : r.pc \in Busy(e)
  BY <1>4 DEF Busy, Waiting
<1>6. DriverAbove /\ link.state = "keyed" /\ ~r.joined => ~Checking(r)
  <2>1. CASE task[c].given
    BY <2>1, <1>1, <1>2, Known DEF Task, Checking
  <2>2. CASE ~task[c].given
    BY <2>2, <1>2, Known DEF Task, Checking
  <2> QED
    BY <2>1, <2>2
<1>7. ~Checked(r)
  BY <1>4 DEF Checked
<1>8. UNCHANGED <<link, pending, driver, configuring>>
  BY <1>1 DEF env
<1> QED
  BY <1>1, <1>3, <1>4, <1>5, <1>6, <1>7, <1>8, Known, CallerFrame DEF globals, LinkKept, TasksRun

LEMMA SsidAfterWaitInv == ASSUME IInv, NEW c \in Caller, SsidAfterWait(c) PROVE IInv'
<1>1. /\ TasksRun /\ task[c].p.fn = "ssid" /\ task[c].pc \in {"woken", "timeout"}
      /\ UNCHANGED <<globals, env>>
  BY DEF SsidAfterWait, At
<1>2. PICK pwd \in Object, res \in Result :
         /\ pwd = IF HasPassword(c) THEN "freed" ELSE task[c].password
         /\ res = IF task[c].pc = "woken" THEN CheckedResult ELSE task[c].result
  BY Known DEF Task, Object, Result, CheckedResult
<1>3. PICK r \in Task :
         r = [task[c] EXCEPT !.pc = "freesema", !.password = pwd, !.result = res]
  BY Known DEF Task, CallerPc
<1>4. task' = [task EXCEPT ![c] = r]
  BY <1>2, <1>3, Known DEF SsidAfterWait
<1>5. /\ task[c].record = "live" /\ ~task[c].p.user /\ task[c].sema = "live"
      /\ task[c].password = IF HasPassword(c) THEN "live" ELSE "none"
      /\ task[c].pc = "timeout" => task[c].result = "TIMEOUT"
  BY <1>1, Known DEF Owns, AllocatedPassword, HasPassword, Waiting
<1>6. Owns(r) /\ Returned(r) /\ Published(r) /\ r.pc = "freesema"
  BY <1>1, <1>2, <1>3, <1>5, Known
     DEF Task, Owns, Returned, Starting, Registering, Waiting, Published
<1>7. \A e : r.pc \in Busy(e)
  BY <1>6 DEF Busy
<1>8. fault' = "none"
  BY <1>1, <1>5 DEF SsidAfterWait, FaultOfFree, TasksRun
<1>9. DriverAbove /\ r.result = "SUCCESS" /\ ~r.p.user => r.joined
  <2>1. r.result = res /\ r.joined = task[c].joined
    BY <1>3, Known DEF Task
  <2>2. CASE task[c].pc = "woken"
    BY <2>1, <2>2, <1>2, Known DEF CheckedResult, Connected, Checking
  <2>3. CASE task[c].pc = "timeout"
    BY <2>1, <2>3, <1>2, <1>5
  <2> QED
    BY <1>1, <2>2, <2>3
<1>10. r.pc # "wait" /\ ~Checking(r)
  BY <1>6 DEF Checking
<1> QED
  BY <1>1, <1>4, <1>6, <1>7, <1>8, <1>9, <1>10, Known, CallerFrame
     DEF globals, env, LinkKept, TasksRun

LEMMA BssidFreeRecordInv == ASSUME IInv, NEW c \in Caller, BssidFreeRecord(c) PROVE IInv'
<1>1. /\ TasksRun /\ task[c].p.fn = "bssid" /\ task[c].pc \in {"timeout", "freerecord"}
      /\ UNCHANGED <<globals, env>>
  BY DEF BssidFreeRecord, At
<1>2. PICK l \in {"freesema", "null"}, pwd \in Object, res \in Result :
         /\ l = IF task[c].pc = "timeout" THEN "freesema" ELSE "null"
         /\ pwd = IF HasPassword(c) THEN "freed" ELSE task[c].password
         /\ res = IF task[c].pc = "timeout" THEN task[c].result ELSE CheckedResult
  <2>1. task[c].password \in Object /\ "freed" \in Object
    BY Known DEF Task, Object
  <2>2. task[c].result \in Result /\ CheckedResult \in Result
    BY Known DEF Task, Result, CheckedResult
  <2> QED
    BY <2>1, <2>2
<1>3. PICK r \in Task :
         r = [task[c] EXCEPT !.pc = l, !.password = pwd, !.record = "freed", !.result = res]
  BY Known DEF Task, CallerPc, Object
<1>4. task' = [task EXCEPT ![c] = r]
  BY <1>2, <1>3, Known DEF BssidFreeRecord
<1>5. /\ task[c].record = "live"
      /\ task[c].password = IF HasPassword(c) THEN "live" ELSE "none"
      /\ task[c].pc = "timeout" => task[c].result = "TIMEOUT" /\ task[c].sema = "live"
  BY <1>1, Known DEF Owns, AllocatedPassword, HasPassword, Waiting
<1>6. Owns(r) /\ Returned(r) /\ Published(r) /\ r.pc \in {"freesema", "null"}
  BY <1>1, <1>2, <1>3, <1>5, Known
     DEF Task, Owns, Returned, Starting, Registering, Waiting, Published
<1>7. \A e : r.pc \in Busy(e)
  BY <1>6 DEF Busy
<1>8. fault' = "none"
  BY <1>1, <1>5 DEF BssidFreeRecord, FaultOfFree
<1>9. DriverAbove /\ r.result = "SUCCESS" /\ ~r.p.user => r.joined
  <2>1. r.result = res /\ r.joined = task[c].joined
    BY <1>3, Known DEF Task
  <2>2. CASE task[c].pc = "freerecord"
    BY <2>1, <2>2, <1>1, <1>2, Known DEF CheckedResult, Connected, Checking
  <2>3. CASE task[c].pc = "timeout"
    BY <2>1, <2>3, <1>2, <1>5
  <2> QED
    BY <1>1, <2>2, <2>3
<1>10. r.pc # "wait" /\ ~Checking(r)
  BY <1>6 DEF Checking
<1> QED
  BY <1>1, <1>4, <1>6, <1>7, <1>8, <1>9, <1>10, Known, CallerFrame
     DEF globals, env, LinkKept, TasksRun

LEMMA FreeSemaInv == ASSUME IInv, NEW c \in Caller, FreeSema(c) PROVE IInv'
<1>1. /\ TasksRun
      /\ task[c].pc = "freesema" \/ (task[c].pc = "woken" /\ task[c].p.fn = "bssid")
      /\ UNCHANGED <<globals, env>>
  BY DEF FreeSema, At
<1>2. PICK l \in {"freerecord", "null"}, sem \in Object \cup {"user"} :
         /\ l = IF task[c].pc = "woken" THEN "freerecord" ELSE "null"
         /\ sem = IF task[c].sema = "live" \/ task[c].sema = "freed" THEN "freed" ELSE task[c].sema
  BY Known DEF Task, Object
<1>3. PICK r \in Task : r = [task[c] EXCEPT !.pc = l, !.sema = sem]
  BY Known DEF Task, CallerPc
<1>4. task' = [task EXCEPT ![c] = r]
  <2>1. task[c].sema \notin {"live", "freed"} => [task[c] EXCEPT !.pc = l] = r
    BY <1>2, <1>3, Known DEF Task
  <2> QED
    BY <1>2, <1>3, <2>1, Known DEF FreeSema, Goto
<1>5. task[c].sema # "freed"
  BY <1>1, Known DEF Owns, Waiting
<1>6. Owns(r) /\ Returned(r) /\ Published(r) /\ r.pc = l
  <2>1. CASE task[c].pc = "freesema"
    BY <2>1, <1>2, <1>3, Known
       DEF Task, Owns, Returned, Starting, Registering, Waiting, Published
  <2>2. CASE task[c].pc = "woken" /\ task[c].p.fn = "bssid"
    BY <2>2, <1>2, <1>3, Known
       DEF Task, Owns, AllocatedPassword, Returned, Starting, Registering, Waiting, Published
  <2> QED
    BY <1>1, <2>1, <2>2
<1>7. \A e : r.pc \in Busy(e)
  BY <1>6 DEF Busy
<1>8. fault' \in {"none", "uninitialized"}
  <2>1. CASE task[c].sema \in {"live", "freed"}
    BY <2>1, <1>5 DEF FreeSema, FaultOfFree
  <2>2. CASE task[c].sema \notin {"live", "freed"}
    BY <2>2 DEF FreeSema
  <2> QED
    BY <2>1, <2>2
<1>9. ASSUME DriverAbove
      PROVE  /\ link.state = "keyed" /\ ~r.joined => ~Checking(r)
             /\ Checked(r) /\ r.result = "SUCCESS" /\ ~r.p.user => r.joined
  <2>1. r.result = task[c].result /\ r.joined = task[c].joined /\ r.p = task[c].p
    BY <1>3, Known DEF Task
  <2>2. Checked(r) => Checked(task[c])
    BY <1>1, <1>2, <1>6, <2>1 DEF Checked
  <2>3. Checking(r) => Checking(task[c]) /\ task[c].pc # "wait"
    BY <1>1, <1>2, <1>6 DEF Checking
  <2> QED
    BY <1>9, <2>1, <2>2, <2>3, Known
<1>10. r.pc # "wait"
  BY <1>6
<1>11. UNCHANGED <<link, pending, driver, configuring>>
  BY <1>1 DEF env
<1> QED
  BY <1>1, <1>4, <1>6, <1>7, <1>8, <1>9, <1>10, <1>11, Known, CallerFrame
     DEF globals, LinkKept

LEMMA ClearJoinUserDataInv == ASSUME IInv, NEW c \in Caller, ClearJoinUserData(c) PROVE IInv'
<1>1. /\ TasksRun /\ task[c].pc = "null" /\ join_user_data' = Null
      /\ UNCHANGED <<rtw_join_status, error_flag, registered, env, fault>>
  BY DEF ClearJoinUserData, At
<1>2. PICK l \in {"freerecord", "unreg1"} :
         l = IF task[c].p.fn = "ssid" THEN "freerecord" ELSE "unreg1"
  OBVIOUS
<1>3. PICK r \in Task : r = [task[c] EXCEPT !.pc = l]
  BY Known DEF Task, CallerPc
<1>4. task' = [task EXCEPT ![c] = r]
  BY <1>2, <1>3, Known DEF ClearJoinUserData, Goto
<1>5. Owns(r) /\ Returned(r) /\ r.pc = l
  BY <1>1, <1>2, <1>3, Known DEF Task, Owns, Returned, Starting, Registering, Waiting
<1>6. \A e : r.pc \in Busy(e)
  BY <1>5 DEF Busy
<1>7. r.pc # "wait" /\ ~Checking(r)
  BY <1>2, <1>3, <1>5, Known DEF Task, Checking
<1>8. r.result = task[c].result /\ r.joined = task[c].joined /\ r.p = task[c].p /\ Checked(task[c])
  BY <1>1, <1>3, Known DEF Task, Checked
<1>9. join_user_data' # c
  BY <1>1, CallerAssumption
<1> QED
  BY <1>1, <1>4, <1>5, <1>6, <1>7, <1>8, <1>9, Known, CallerFrame DEF env, LinkKept, TasksRun

LEMMA SsidFreeRecordInv == ASSUME IInv, NEW c \in Caller, SsidFreeRecord(c) PROVE IInv'
<1>1. /\ TasksRun /\ task[c].pc = "freerecord" /\ task[c].p.fn = "ssid"
      /\ fault' = FaultOfFree({task[c].record}) /\ UNCHANGED <<globals, env>>
  BY DEF SsidFreeRecord, At
<1>2. PICK r \in Task : r = [task[c] EXCEPT !.pc = "unreg1", !.record = "freed"]
  BY Known DEF Task, CallerPc, Object
<1>3. task' = [task EXCEPT ![c] = r]
  BY <1>2, Known DEF SsidFreeRecord
<1>4. Owns(r) /\ Returned(r) /\ r.pc = "unreg1"
  BY <1>1, <1>2, Known DEF Task, Owns, Returned, Starting, Registering, Waiting
<1>5. \A e : r.pc \in Busy(e)
  BY <1>4 DEF Busy
<1>6. r.pc # "wait" /\ ~Checking(r)
  BY <1>4 DEF Checking
<1>7. r.result = task[c].result /\ r.joined = task[c].joined /\ r.p = task[c].p /\ Checked(task[c])
  BY <1>1, <1>2, Known DEF Task, Checked
<1>8. join_user_data # c
  BY <1>1, Known DEF Published, Waiting
<1>9. fault' = "none"
  BY <1>1, Known DEF Owns, FaultOfFree
<1> QED
  BY <1>1, <1>3, <1>4, <1>5, <1>6, <1>7, <1>8, <1>9, Known, CallerFrame
     DEF globals, env, LinkKept

LEMMA UnregisterAllInv == ASSUME IInv, NEW c \in Caller, UnregisterAll(c) PROVE IInv'
<1>1. PICK here, e, next :
         /\ \/ here = "unreg1" /\ e = "CONNECT" /\ next = "unreg2"
            \/ here = "unreg2" /\ e = "NO_NETWORK" /\ next = "unreg3"
            \/ here = "unreg3" /\ e = "FOURWAY_HANDSHAKE_DONE" /\ next = "return"
         /\ Unregister(c, here, e, next)
  BY DEF UnregisterAll
<1>2. /\ TasksRun /\ task[c].pc = here /\ registered' = registered \ {e}
      /\ UNCHANGED <<join_user_data, rtw_join_status, error_flag, env, fault>>
  BY <1>1 DEF Unregister, At
<1>3. PICK r \in Task : r = [task[c] EXCEPT !.pc = next]
  BY <1>1, Known DEF Task, CallerPc
<1>4. task' = [task EXCEPT ![c] = r]
  BY <1>1, <1>3, Known DEF Unregister, Goto
<1>5. Owns(r) /\ Returned(r) /\ ~Checking(r) /\ r.pc = next
  BY <1>1, <1>2, <1>3, Known
     DEF Task, Owns, Returned, Starting, Registering, Waiting, Checking
<1>6. join_user_data # c
  BY <1>1, <1>2, Known DEF Published, Waiting
<1>7. ASSUME NEW x \in registered' \ {"DISCONNECT"}
      PROVE  r.pc \in Busy(x) \/ (x \in registered /\ task[c].pc \notin Busy(x))
  <2>1. x \in {"NO_NETWORK", "CONNECT", "FOURWAY_HANDSHAKE_DONE"} \ {e} /\ x \in registered
    BY <1>2, Known DEF Event
  <2>2. task[c].pc \in Busy(x) => next \in Busy(x)
    BY <2>1, <1>1, <1>2 DEF Busy, Waiting
  <2> QED
    BY <1>5, <2>1, <2>2
<1>8. r.result = task[c].result /\ r.joined = task[c].joined /\ r.p = task[c].p /\ Checked(task[c])
  BY <1>1, <1>2, <1>3, Known DEF Task, Checked
<1>9. r.pc # "wait"
  BY <1>1, <1>5
<1>10. registered' \in SUBSET Event
  BY <1>2, Known
<1> QED
  BY <1>2, <1>4, <1>5, <1>6, <1>7, <1>8, <1>9, <1>10, Known, CallerFrame
     DEF env, LinkKept, TasksRun

LEMMA FinishInv == ASSUME IInv, NEW c \in Caller, Finish(c) PROVE IInv'
<1>1. TasksRun /\ task[c].pc = "return" /\ UNCHANGED <<globals, env, fault>>
  BY DEF Finish, At
<1>2. PICK l \in {"idle", "dhcp"} : task' = [task EXCEPT ![c] = NewCall(l, task[c].p)]
  BY DEF Finish
<1>3. PICK r \in Task : r = NewCall(l, task[c].p)
  BY CallTypes, Known DEF CallerPc, Task
<1>4. r.pc = l /\ Owns(r) /\ Returned(r) /\ ~Checking(r) /\ ~Checked(r) /\ r.pc # "wait"
  BY <1>3 DEF NewCall, Owns, Returned, Starting, Registering, Waiting, Checking, Checked
<1>5. join_user_data # c
  BY <1>1, Known DEF Published, Waiting
<1>6. \A e : task[c].pc \notin Busy(e)
  BY <1>1 DEF Busy, Waiting
<1>7. task' = [task EXCEPT ![c] = r]
  BY <1>2, <1>3
<1> QED
  BY <1>1, <1>4, <1>5, <1>6, <1>7, Known, CallerFrame DEF globals, env, LinkKept, TasksRun

(* DhcpAssigned and DhcpReturn. *)
LEMMA DhcpInv ==
    ASSUME IInv, NEW c \in Caller, DhcpAssigned(c) \/ DhcpReturn(c) PROVE IInv'
<1>1. PICK l \in {"dhcpdone", "idle"} : Goto(c, l)
  BY DEF DhcpAssigned, DhcpReturn
<1>2. /\ TasksRun /\ task[c].pc \in {"dhcp", "dhcpdone"}
      /\ UNCHANGED <<join_user_data, rtw_join_status, registered, env, fault>>
  BY DEF DhcpAssigned, DhcpReturn, At, globals
<1>3. error_flag' \in Error
  BY Known DEF DhcpAssigned, DhcpReturn, globals, Error
<1>4. PICK r \in Task : r = [task[c] EXCEPT !.pc = l]
  BY Known DEF Task, CallerPc
<1>5. task' = [task EXCEPT ![c] = r]
  BY <1>1, <1>4, Known DEF Goto
<1>6. r.pc = l /\ Owns(r) /\ Returned(r) /\ ~Checking(r) /\ ~Checked(r) /\ r.pc # "wait"
  BY <1>4, Known DEF Task, Owns, Returned, Starting, Registering, Waiting, Checking, Checked
<1>7. join_user_data # c
  BY <1>2, Known DEF Published, Waiting
<1>8. \A e : task[c].pc \notin Busy(e)
  BY <1>2 DEF Busy, Waiting
<1> QED
  BY <1>2, <1>3, <1>5, <1>6, <1>7, <1>8, Known, CallerFrame DEF env, LinkKept, TasksRun

LEMMA CallerStepInv == ASSUME IInv, NEW c \in Caller, CallerStep(c) PROVE IInv'
BY EnterInv, AllocInv, RegisterAllInv, StartJoinInv, PublishInv, WaitInv, SsidAfterWaitInv,
   BssidFreeRecordInv, FreeSemaInv, ClearJoinUserDataInv, SsidFreeRecordInv,
   UnregisterAllInv, FinishInv, DhcpInv DEF CallerStep

-----------------------------------------------------------------------------
(* Steps of the driver and of simple config, which leave every call where  *)
(* it is, with what it owns.                                               *)
SameCall(t, u) ==
    /\ u.pc = t.pc /\ u.p = t.p /\ u.result = t.result
    /\ u.record = t.record /\ u.password = t.password /\ u.sema = t.sema
    /\ t.pc \in Starting => u.given = t.given /\ u.decided = t.decided
    /\ t.joined => u.joined

(* No wild access is new, but in a call of wifi_connect_bssid. *)
WildKept ==
    fault' \in {"nullPointer", "freedRecord"} =>
        fault' = fault \/ \E c \in Caller : task[c].p.fn = "bssid"

(* The same for a step of the driver or of a handler, which leaves every   *)
(* call where it is but for its answers.                                   *)
LEMMA EnvironmentFrame ==
    ASSUME IInv, TypeOK', \A c \in Caller : SameCall(task[c], task'[c]),
           UNCHANGED <<join_user_data, registered>>, fault' # "doubleFree",
           DriverAbove => PointerKept', DriverAbove => WildKept,
           SharedUnused => Wakes', DriverAbove => KeyedBefore'
    PROVE  IInv'
<1>1. TypeOK
  BY DEF IInv
<1>2. Ownership' /\ GivenBack'
  BY DEF IInv, SameCall, Ownership, Owns, AllocatedPassword, GivenBack, Returned
<1>3. Pointed'
  BY <1>1 DEF IInv, TypeOK, SameCall, Pointed, Published
<1>4. Tabled'
  BY DEF IInv, SameCall, Tabled, Busy
<1>5. DriverAbove => SuccessSeen'
  BY DEF IInv, SameCall, SuccessSeen, Checked
<1>6. DriverAbove => HandlerSeesRecord'
  BY DEF IInv, SameCall, HandlerSeesRecord, WildKept
<1> QED
  BY <1>2, <1>3, <1>4, <1>5, <1>6 DEF IInv, NoDoubleFree

LEMMA SimpleConfigInv == IInv /\ SimpleConfig => IInv'
<1> SUFFICES ASSUME IInv, SimpleConfig PROVE IInv'
  OBVIOUS
<1>1. /\ TypeOK
      /\ UNCHANGED <<task, join_user_data, error_flag, registered, link, pending, driver, fault>>
  BY DEF IInv, SimpleConfig
<1>2. TypeOK'
  <2>1. configuring' \in BOOLEAN
    BY Zenon DEF SimpleConfig
  <2>2. rtw_join_status' \in SUBSET StatusFlag
    BY <1>1 DEF SimpleConfig, TypeOK, StatusFlag
  <2> QED
    BY <1>1, <2>1, <2>2 DEF TypeOK
<1>3. \A c \in Caller : SameCall(task[c], task'[c])
  BY <1>1 DEF SameCall
<1>4. /\ DriverAbove => PointerKept'
      /\ WildKept
      /\ SharedUnused => Wakes'
      /\ DriverAbove => KeyedBefore'
  BY <1>1 DEF IInv, PointerKept, Follows, WildKept, Wakes, KeyedBefore, DriverIdle
<1>5. fault' # "doubleFree"
  BY <1>1 DEF IInv, NoDoubleFree
<1> QED
  BY <1>1, <1>2, <1>3, <1>4, <1>5, EnvironmentFrame

LEMMA DriverInv == IInv /\ Driver => IInv'
<1> SUFFICES ASSUME IInv, Driver PROVE IInv'
  OBVIOUS
<1>1. PICK from \in {"joining", "associated", "keyed"}, to \in {"idle", "associated", "keyed"},
           events \in {<<"NO_NETWORK", "DISCONNECT">>, <<"DISCONNECT">>, <<"CONNECT">>,
                       <<"FOURWAY_HANDSHAKE_DONE">>} : LinkStep(from, to, events)
  <2>1. (IF link.sec \in {"aes", "wpa"} THEN "associated" ELSE "keyed") \in {"associated", "keyed"}
    OBVIOUS
  <2> QED
    BY <2>1 DEF Driver
<1>2. /\ TypeOK /\ fault = "none" /\ DriverIdle /\ link' = [link EXCEPT !.state = to]
      /\ pending' = events /\ UNCHANGED <<globals, driver, configuring, fault>>
      /\ task' = [c \in Caller |-> [task[c] EXCEPT !.joined =
                     @ \/ (to = "keyed" /\ task[c].pc \notin {"idle", "dhcp", "dhcpdone"})]]
  BY <1>1 DEF LinkStep, IInv
<1>3. ASSUME NEW c \in Caller
      PROVE  /\ task'[c] \in Task /\ SameCall(task[c], task'[c])
             /\ task'[c].given = task[c].given /\ task'[c].decided = task[c].decided
             /\ to = "keyed" /\ Checking(task[c]) => task'[c].joined
  <2>1. task[c] \in Task
    BY <1>2 DEF TypeOK
  <2>2. PICK j \in BOOLEAN :
           /\ task'[c] = [task[c] EXCEPT !.joined = j]
           /\ task[c].joined => j
           /\ to = "keyed" /\ task[c].pc \notin {"idle", "dhcp", "dhcpdone"} => j
    BY <1>2
  <2> QED
    BY <2>1, <2>2 DEF Task, SameCall, Checking
<1>4. TypeOK'
  <2>1. link' \in [state : {"idle", "joining", "associated", "keyed"}, sec : Security]
    BY <1>2 DEF TypeOK
  <2>2. pending' \in Seq(Event)
    <3>1. /\ <<"NO_NETWORK", "DISCONNECT">> \in Seq(Event) /\ <<"DISCONNECT">> \in Seq(Event)
          /\ <<"CONNECT">> \in Seq(Event) /\ <<"FOURWAY_HANDSHAKE_DONE">> \in Seq(Event)
      BY DEF Event
    <3> QED
      BY <1>2, <3>1
  <2>3. task' \in [Caller -> Task]
    BY <1>2, <1>3
  <2> QED
    BY <1>2, <2>1, <2>2, <2>3 DEF TypeOK, globals
<1>5. (DriverAbove => PointerKept') /\ WildKept
  BY <1>2 DEF IInv, PointerKept, Follows, WildKept, globals, DriverIdle, Resting
<1>6. SharedUnused => Wakes'
  BY <1>2, <1>3 DEF IInv, Wakes, SameCall, globals
<1>7. KeyedBefore'
  <2>1. link'.state = to
    BY <1>2 DEF TypeOK
  <2>2. \A c \in Caller : Checking(task'[c]) => Checking(task[c])
    BY <1>3 DEF SameCall, Checking
  <2> QED
    BY <2>1, <2>2, <1>3 DEF KeyedBefore, Checking
<1>8. fault' # "doubleFree"
  BY <1>2
<1> QED
  BY <1>2, <1>3, <1>4, <1>5, <1>6, <1>7, <1>8, EnvironmentFrame DEF globals

LEMMA IndicateInv == IInv /\ Indicate => IInv'
<1> SUFFICES ASSUME IInv, Indicate PROVE IInv'
  OBVIOUS
<1>1. /\ TypeOK /\ fault = "none" /\ driver = Resting /\ pending # <<>>
      /\ pending' = Tail(pending) /\ UNCHANGED <<task, globals, link, configuring, fault>>
  BY DEF IInv, Indicate
<1>2. Head(pending) \in Event /\ pending' \in Seq(Event)
  BY <1>1 DEF TypeOK
<1>3. driver' = Resting \/ driver' = [ev |-> Head(pending), pc |-> "test"]
  BY DEF Indicate
<1>4. TypeOK'
  <2>1. driver' \in DriverThread
    BY <1>2, <1>3 DEF DriverThread, Event
  <2> QED
    BY <1>1, <1>2, <2>1 DEF TypeOK, globals
<1>5. \A c \in Caller : SameCall(task[c], task'[c])
  BY <1>1 DEF SameCall
<1>6. PointerKept' /\ WildKept
  BY <1>1, <1>3 DEF IInv, PointerKept, Follows, WildKept, Resting
<1>7. SharedUnused => Wakes'
  BY <1>1 DEF IInv, Wakes, Waking, Resting, globals
<1>8. DriverAbove => KeyedBefore'
  BY <1>1 DEF IInv, KeyedBefore, DriverIdle
<1> QED
  BY <1>1, <1>4, <1>5, <1>6, <1>7, <1>8, EnvironmentFrame DEF globals

(* The record that join_user_data points to is there if the call is one of *)
(* wifi_connect.                                                           *)
LEMMA RecordThere ==
    ASSUME Ownership, Pointed, join_user_data \in Caller, task[join_user_data].p.fn = "ssid"
    PROVE  task[join_user_data].record = "live"
<1>1. Published(task[join_user_data]) /\ Owns(task[join_user_data])
  BY CallerAssumption DEF Ownership, Pointed
<1> QED
  BY <1>1 DEF Published, Owns, Waiting

(* A wild access of a handler. *)
LEMMA FaultsInv ==
    ASSUME IInv, NEW f \in {"nullPointer", "freedRecord", "freedSema"}, Faults(f),
           f # "freedSema" => Follows /\ f = BadRecord, driver # Resting
    PROVE  IInv'
<1>1. TypeOK /\ fault' = f /\ UNCHANGED <<task, globals, env>>
  BY DEF IInv, Faults
<1>2. TypeOK'
  BY <1>1 DEF TypeOK, Fault, globals, env
<1>3. \A c \in Caller : SameCall(task[c], task'[c])
  BY <1>1 DEF SameCall
<1>4. DriverAbove => PointerKept'
  BY <1>1 DEF IInv, PointerKept, Follows, globals, env
<1>5. ASSUME DriverAbove PROVE WildKept
  <2>1. CASE f = "freedSema"
    BY <1>1, <2>1 DEF WildKept
  <2>2. CASE f # "freedSema"
    <3>1. join_user_data \in Caller
      BY <1>1, <1>5, <2>2 DEF IInv, PointerKept, TypeOK
    <3>2. CASE task[join_user_data].p.fn = "ssid"
      <4>1. BadRecord = "none"
        BY <3>1, <3>2, RecordThere, CallerAssumption DEF IInv, BadRecord
      <4> QED
        BY <2>2, <4>1
    <3>3. CASE task[join_user_data].p.fn # "ssid"
      <4>1. task[join_user_data].p.fn \in {"ssid", "bssid"}
        BY <3>1, <1>1, ParamsAssumption DEF TypeOK, Task, CallParams
      <4> QED
        BY <3>1, <3>3, <4>1 DEF WildKept
    <3> QED
      BY <3>2, <3>3
  <2> QED
    BY <2>1, <2>2
<1>6. Wakes'
  BY <1>1 DEF Wakes
<1>7. DriverAbove => KeyedBefore'
  BY <1>1 DEF IInv, KeyedBefore, DriverIdle, env
<1>8. fault' # "doubleFree"
  BY <1>1
<1> QED
  BY <1>1, <1>2, <1>3, <1>4, <1>5, <1>6, <1>7, <1>8, EnvironmentFrame DEF globals

(* Where the driver's thread can be at each place. *)
LEMMA DriverPlaces ==
    ASSUME TypeOK
    PROVE  /\ driver.pc # "idle" => driver # Resting
           /\ driver.pc = "use" => driver.ev \in {"NO_NETWORK", "CONNECT", "DISCONNECT"}
           /\ driver.pc = "test2" => driver = [ev |-> "DISCONNECT", pc |-> "test2"]
           /\ driver.pc = "up" => driver.ev # "NO_NETWORK"
BY DEF TypeOK, DriverThread, Resting

LEMMA TestInv == IInv /\ Test => IInv'
<1> SUFFICES ASSUME IInv, Test PROVE IInv'
  OBVIOUS
<1>1. /\ TypeOK /\ fault = "none" /\ driver.pc = "test" /\ driver # Resting
      /\ UNCHANGED <<join_user_data, registered, link, pending, configuring, fault>>
      /\ task' = [c \in Caller |-> [task[c] EXCEPT !.decided =
                    @ \/ (join_user_data = c /\ DecidesJoin(driver.ev, task[c].p.sec))]]
  BY DriverPlaces DEF IInv, Test, HandlerAt
<1>2. /\ driver.ev = "DISCONNECT" =>
            driver' = [ev |-> "DISCONNECT",
                       pc |-> IF join_user_data # Null THEN "use" ELSE "test2"]
      /\ driver.ev # "DISCONNECT" /\ join_user_data = Null => driver' = Resting
      /\ driver.ev = "FOURWAY_HANDSHAKE_DONE" /\ join_user_data # Null =>
            driver' = [ev |-> "FOURWAY_HANDSHAKE_DONE", pc |-> "up"]
      /\ driver.ev \in {"NO_NETWORK", "CONNECT"} /\ join_user_data # Null =>
            driver' = [ev |-> driver.ev, pc |-> "use"]
      /\ driver.ev \in Event
  BY <1>1 DEF Test, HandlerGoto, TypeOK, DriverThread, Resting, Event
<1>3. ASSUME NEW c \in Caller
      PROVE  /\ task'[c] \in Task /\ SameCall(task[c], task'[c])
             /\ task'[c].given = task[c].given /\ task'[c].joined = task[c].joined
             /\ task'[c].decided =>
                   task[c].decided \/ DecidesJoin(driver.ev, task[c].p.sec)
  <2>1. task[c] \in Task
    BY <1>1 DEF TypeOK
  <2>2. PICK d \in BOOLEAN :
           /\ task'[c] = [task[c] EXCEPT !.decided = d]
           /\ d => task[c].decided \/ DecidesJoin(driver.ev, task[c].p.sec)
           /\ task[c].decided \/ join_user_data = c \/ ~d
           /\ task[c].decided => d
    BY <1>1
  <2>3. join_user_data = c => task[c].pc \notin Starting
    BY CallerAssumption DEF IInv, Pointed, Published, Starting, Waiting
  <2>4. d \in BOOLEAN /\ task[c].decided \in BOOLEAN
    BY <2>1 DEF Task
  <2>5. task[c].pc \in Starting => (d <=> task[c].decided)
    BY <2>2, <2>3
  <2>6. task[c].pc \in Starting => d = task[c].decided
    BY <2>4, <2>5
  <2> QED
    BY <2>1, <2>2, <2>6 DEF Task, SameCall
<1>4. TypeOK'
  <2>1. driver' \in DriverThread
    BY <1>2 DEF DriverThread, Event
  <2>2. task' \in [Caller -> Task]
    BY <1>1, <1>3
  <2>3. rtw_join_status' \in SUBSET StatusFlag /\ error_flag' \in Error
    BY <1>1 DEF Test, TypeOK, StatusFlag, Error
  <2> QED
    BY <1>1, <2>1, <2>2, <2>3 DEF TypeOK
<1>5. PointerKept' /\ WildKept
  BY <1>1, <1>2 DEF IInv, PointerKept, Follows, WildKept, Resting, Event
<1>6. ASSUME SharedUnused PROVE Wakes'
  <2> SUFFICES ASSUME NEW c \in Caller, task'[c].pc = "wait", task'[c].decided, join_user_data = c
               PROVE  task'[c].given \/ Waking(driver', task'[c].p.sec)
    BY <1>1 DEF Wakes
  <2>1. /\ task[c].pc = "wait" /\ task'[c].given = task[c].given /\ task'[c].p = task[c].p
        /\ task[c].decided \/ (DecidesJoin(driver.ev, task[c].p.sec) /\ join_user_data # Null)
    BY <1>3, CallerAssumption DEF SameCall
  <2>2. CASE task[c].decided
    BY <2>1, <2>2, <1>1, <1>6 DEF IInv, Wakes, Waking
  <2>3. CASE DecidesJoin(driver.ev, task[c].p.sec) /\ join_user_data # Null
    <3>1. task[c].p.sec # "wepshared"
      BY <1>1, <1>6 DEF SharedUnused, TypeOK, Task
    <3> QED
      BY <1>2, <2>1, <2>3, <3>1 DEF DecidesJoin, Waking
  <2> QED
    BY <2>1, <2>2, <2>3, CallerAssumption
<1>7. DriverAbove => KeyedBefore'
  BY <1>1, <1>3 DEF IInv, KeyedBefore, SameCall, Checking, DriverIdle
<1>8. fault' # "doubleFree"
  BY <1>1
<1> QED
  BY <1>1, <1>3, <1>4, <1>5, <1>6, <1>7, <1>8, EnvironmentFrame

LEMMA UseInv == IInv /\ Use => IInv'
<1> SUFFICES ASSUME IInv, Use PROVE IInv'
  OBVIOUS
<1>1. /\ TypeOK /\ fault = "none" /\ driver.pc = "use" /\ driver # Resting
      /\ driver.ev \in {"NO_NETWORK", "CONNECT", "DISCONNECT"}
  BY DriverPlaces DEF IInv, Use, HandlerAt
<1>2. CASE driver.ev # "NO_NETWORK" /\ BadRecord # "none"
  <2>1. Faults(BadRecord) /\ BadRecord \in {"nullPointer", "freedRecord"} /\ Follows
    BY <1>1, <1>2 DEF Use, BadRecord, Follows
  <2> QED
    BY <1>1, <2>1, FaultsInv
<1>3. CASE ~(driver.ev # "NO_NETWORK" /\ BadRecord # "none")
  <2>1. PICK sec :
           /\ Handled(sec)
           /\ driver.ev # "NO_NETWORK" =>
                 sec = task[join_user_data].p.sec /\ join_user_data # Null
    BY <1>3 DEF Use, BadRecord
  <2>2. UNCHANGED <<task, join_user_data, registered, link, pending, configuring, fault>>
    BY <1>3 DEF Use
  <2>3. /\ driver.ev = "NO_NETWORK" => driver' = Resting
        /\ driver.ev = "CONNECT" =>
              driver' = IF sec \in {"open", "wep"} THEN [ev |-> "CONNECT", pc |-> "up"] ELSE Resting
        /\ driver.ev = "DISCONNECT" => driver' = [ev |-> "DISCONNECT", pc |-> "test2"]
    BY <1>1, <2>1 DEF Handled, HandlerGoto, TypeOK, DriverThread, Resting
  <2>4. TypeOK'
    <3>1. driver' \in DriverThread
      BY <1>1, <2>3 DEF DriverThread
    <3>2. error_flag' \in Error
      BY <1>1, <2>1 DEF Handled, DisconnectError, TypeOK, Error
    <3>3. rtw_join_status' \in SUBSET StatusFlag
      BY <1>1, <2>1 DEF Handled, TypeOK, StatusFlag
    <3> QED
      BY <1>1, <2>2, <3>1, <3>2, <3>3 DEF TypeOK
  <2>5. \A c \in Caller : SameCall(task[c], task'[c])
    BY <2>2 DEF SameCall
  <2>6. PointerKept' /\ WildKept
    BY <1>1, <2>1, <2>2, <2>3 DEF IInv, PointerKept, Follows, WildKept, Resting
  <2>7. SharedUnused => Wakes'
    BY <1>1, <2>1, <2>2, <2>3 DEF IInv, Wakes, Waking
  <2>8. DriverAbove => KeyedBefore'
    BY <1>1, <2>2 DEF IInv, KeyedBefore, DriverIdle
  <2> QED
    BY <1>1, <2>2, <2>4, <2>5, <2>6, <2>7, <2>8, EnvironmentFrame
<1> QED
  BY <1>2, <1>3

LEMMA TestAgainInv == IInv /\ TestAgain => IInv'
<1> SUFFICES ASSUME IInv, TestAgain PROVE IInv'
  OBVIOUS
<1>1. /\ TypeOK /\ fault = "none" /\ driver.pc = "test2" /\ driver # Resting
      /\ driver = [ev |-> "DISCONNECT", pc |-> "test2"]
      /\ UNCHANGED <<task, globals, link, pending, configuring, fault>>
  BY DriverPlaces DEF IInv, TestAgain, HandlerAt
<1>2. driver' = IF join_user_data # Null THEN [ev |-> "DISCONNECT", pc |-> "up"] ELSE Resting
  BY <1>1 DEF TestAgain, HandlerGoto
<1>3. TypeOK'
  <2>1. driver' \in DriverThread
    BY <1>2 DEF DriverThread
  <2> QED
    BY <1>1, <2>1 DEF TypeOK, globals
<1>4. \A c \in Caller : SameCall(task[c], task'[c])
  BY <1>1 DEF SameCall
<1>5. PointerKept' /\ WildKept
  BY <1>1, <1>2 DEF IInv, PointerKept, Follows, WildKept, Resting, globals
<1>6. SharedUnused => Wakes'
  BY <1>1, <1>2, CallerAssumption DEF IInv, Wakes, Waking, globals
<1>7. DriverAbove => KeyedBefore'
  BY <1>1 DEF IInv, KeyedBefore, DriverIdle
<1> QED
  BY <1>1, <1>3, <1>4, <1>5, <1>6, <1>7, EnvironmentFrame DEF globals

LEMMA UpSemaInv == IInv /\ UpSema => IInv'
<1> SUFFICES ASSUME IInv, UpSema PROVE IInv'
  OBVIOUS
<1>1. TypeOK /\ fault = "none" /\ driver.pc = "up" /\ driver # Resting
  BY DriverPlaces DEF IInv, UpSema, HandlerAt
<1>2. CASE BadSema # "none"
  <2>1. /\ Faults(BadSema) /\ BadSema \in {"nullPointer", "freedRecord", "freedSema"}
        /\ BadSema # "freedSema" => BadSema = BadRecord
        /\ Follows
    BY <1>1, <1>2 DEF UpSema, BadSema, BadRecord, Follows
  <2> QED
    BY <1>1, <2>1, FaultsInv
<1>3. CASE BadSema = "none"
  <2>1. /\ join_user_data \in Caller /\ join_user_data # Null
        /\ task' = [task EXCEPT ![join_user_data].given = TRUE]
        /\ driver' = Resting /\ UNCHANGED <<globals, link, pending, configuring, fault>>
    BY <1>1, <1>3 DEF UpSema, BadSema, BadRecord, HandlerGoto, TypeOK
  <2>2. ASSUME NEW c \in Caller
        PROVE  /\ task'[c] \in Task /\ SameCall(task[c], task'[c])
               /\ task'[c].joined = task[c].joined /\ task'[c].decided = task[c].decided
               /\ c = join_user_data => task'[c].given
    <3>1. task[c] \in Task /\ task \in [Caller -> Task]
      BY <1>1 DEF TypeOK
    <3>2. CASE c = join_user_data
      <4>1. task'[c] = [task[c] EXCEPT !.given = TRUE]
        BY <2>1, <3>1, <3>2
      <4>2. task[c].pc \notin Starting
        BY <2>1, <3>2 DEF IInv, Pointed, Published, Starting, Waiting
      <4> QED
        BY <3>1, <4>1, <4>2 DEF Task, SameCall
    <3>3. CASE c # join_user_data
      <4>1. task'[c] = task[c]
        BY <2>1, <3>1, <3>3
      <4> QED
        BY <3>1, <3>3, <4>1 DEF SameCall
    <3> QED
      BY <3>2, <3>3
  <2>3. TypeOK'
    <3>1. task' \in [Caller -> Task]
      BY <1>1, <2>1, <2>2 DEF TypeOK
    <3>2. driver' \in DriverThread
      BY <2>1 DEF DriverThread
    <3> QED
      BY <1>1, <2>1, <3>1, <3>2 DEF TypeOK, globals
  <2>4. PointerKept' /\ WildKept
    BY <1>1, <2>1 DEF PointerKept, Follows, WildKept, Resting
  <2>5. Wakes'
    BY <2>1, <2>2 DEF Wakes, globals
  <2>6. DriverAbove => KeyedBefore'
    BY <1>1, <2>1, <2>2 DEF IInv, KeyedBefore, DriverIdle, SameCall, Checking
  <2> QED
    BY <1>1, <2>1, <2>2, <2>3, <2>4, <2>5, <2>6, EnvironmentFrame DEF globals
<1> QED
  BY <1>2, <1>3

LEMMA StutterInv == IInv /\ UNCHANGED vars => IInv'
<1> SUFFICES ASSUME IInv, UNCHANGED vars PROVE IInv'
  OBVIOUS
<1>1. UNCHANGED <<task, globals, env, fault>>
  BY DEF vars
<1> USE <1>1 DEF globals, env
<1>2. TypeOK'
  BY DEF IInv, TypeOK
<1>3. \A c \in Caller : SameCall(task[c], task'[c])
  BY DEF SameCall
<1> QED
  BY <1>2, <1>3, EnvironmentFrame
     DEF IInv, NoDoubleFree, PointerKept, Follows, WildKept, Wakes, KeyedBefore, DriverIdle

LEMMA NextInv == IInv /\ [Next]_vars => IInv'
BY CallInv, CallerStepInv, SimpleConfigInv, DriverInv, IndicateInv, TestInv, UseInv,
   TestAgainInv, UpSemaInv, StutterInv DEF Next, Handler, Crashed

(* The inductive invariant of the calls, the records, the registrations    *)
(* and the events on their way, for any callers, events and driver order   *)
(* (wifi_conf.c:34-674, wifi_ind.c:67-235).                                *)
THEOREM Invariance == Spec => []IInv
<1>1. Init => IInv
  BY InitInv
<1>2. IInv /\ [Next]_vars => IInv'
  BY NextInv
<1> QED
  BY <1>1, <1>2, PTL DEF Spec

-----------------------------------------------------------------------------
(* Every variable keeps its type. *)
THEOREM TypeCorrect == Spec => []TypeOK
BY Invariance, PTL DEF IInv

(* However the calls of several tasks overlap with each other and with the *)
(* handlers, no path through an error label frees an object twice.         *)
THEOREM FreedOnce == Spec => []NoDoubleFree
BY Invariance, PTL DEF IInv

(* A call of wifi_connect that used its own semaphore returns having given *)
(* everything back, unless the semaphore could not be made.                *)
THEOREM GivesBack == Spec => []NothingLeaked
<1>1. IInv => NothingLeaked
  BY DEF IInv, TypeOK, GivenBack, Returned, NothingLeaked
<1> QED
  BY <1>1, Invariance, PTL

(* The record of a wifi_connect call that join_user_data points to has not *)
(* been freed, whatever the priorities.                                    *)
THEOREM RecordLive == Spec => []PublishedRecordLive
<1>1. IInv => PublishedRecordLive
  BY RecordThere DEF IInv, TypeOK, PublishedRecordLive
<1> QED
  BY <1>1, Invariance, PTL

(* When no call is under way, join_user_data is NULL and only the          *)
(* DISCONNECT handler is left in the table.                                *)
THEOREM LeftClean == Spec => []QuietIsClean
<1>1. IInv => QuietIsClean
  <2> SUFFICES ASSUME IInv,
                      \A c \in Caller : task[c].pc \in {"idle", "enter", "return", "dhcp", "dhcpdone"}
               PROVE  join_user_data = Null /\ registered \subseteq {"DISCONNECT"}
    BY DEF QuietIsClean
  <2>1. join_user_data = Null
    BY DEF IInv, TypeOK, Pointed, Published, Waiting
  <2>2. registered \subseteq {"DISCONNECT"}
    BY DEF IInv, Tabled, Busy, Waiting
  <2> QED
    BY <2>1, <2>2
<1> QED
  BY <1>1, Invariance, PTL

(* With the driver's thread above the callers, no handler follows a NULL   *)
(* or freed record, however many tasks call, unless one of them calls      *)
(* wifi_connect_bssid.                                                     *)
THEOREM NoWildHandler == ASSUME DriverAbove PROVE Spec => []HandlerSeesRecord
<1>1. IInv => HandlerSeesRecord
  BY DEF IInv
<1> QED
  BY <1>1, Invariance, PTL

(* No wake-up is lost, at any priority: a decided join leaves the          *)
(* semaphore of the published call given.  The security RTW_SECURITY_      *)
(* WEP_SHARED is excluded: wifi_connected_hdl forgets it.                  *)
THEOREM NoLostWakeup == ASSUME SharedUnused PROVE Spec => []DecisionWakes
<1>1. IInv => DecisionWakes
  BY DEF IInv, Wakes, Waking, DecisionWakes, Resting
<1> QED
  BY <1>1, Invariance, PTL

(* With the driver's thread above the callers, the link has come up during *)
(* each call that returns success, unless it used a semaphore of a user's. *)
THEOREM SuccessIsJoined == ASSUME DriverAbove PROVE Spec => []SuccessMeansJoined
<1>1. IInv => SuccessMeansJoined
  BY DEF IInv, SuccessSeen, Checked, SuccessMeansJoined
<1> QED
  BY <1>1, Invariance, PTL

-----------------------------------------------------------------------------
(* Why a join failed: for one caller, below the driver's thread, with room *)
(* in the table for the DISCONNECT handler.                                *)
OneCaller == \A c, d \in Caller : c = d
Reasoned == DriverAbove /\ OneCaller /\ \A p \in Params : "DISCONNECT" \notin p.full

Reason == error_flag \in {"NONE_NETWORK", "CONNECT_FAIL", "WRONG_PASSWORD"}

(* The driver indicates one batch of events after another. *)
Batches == {<<>>, <<"NO_NETWORK", "DISCONNECT">>, <<"DISCONNECT">>, <<"CONNECT">>,
            <<"FOURWAY_HANDSHAKE_DONE">>}
Batched == pending \in Batches

(* While the handshake's event is on its way the link is up. *)
Handshaken ==
    pending = <<"FOURWAY_HANDSHAKE_DONE">> \/ driver.ev = "FOURWAY_HANDSHAKE_DONE"
        => link.state = "keyed"

(* The driver has yet to handle a disconnection. *)
Coming ==
    \/ pending \in {<<"NO_NETWORK", "DISCONNECT">>, <<"DISCONNECT">>}
    \/ driver.ev = "DISCONNECT" /\ driver.pc \in {"test", "use"}

Waits(t) == t.pc \in {"wait", "woken"}
Hears(t) == Waits(t) \/ t.pc \in {"reg4", "join", "publish"}
Heard == \A c \in Caller : Hears(task[c]) => "DISCONNECT" \in registered
Addressed == \A c \in Caller : Waits(task[c]) => join_user_data = c
Explained ==
    \A c \in Caller :
        Waits(task[c]) /\ task[c].p.sec = "aes" =>
            /\ task[c].given \/ task[c].pc = "woken" => Reason \/ Connected \/ Coming
            /\ driver.ev = "DISCONNECT" /\ driver.pc \in {"test2", "up"} => Reason
            /\ driver.ev = "CONNECT" => driver.pc # "up"

RInv == Batched /\ Handshaken /\ Heard /\ Addressed /\ Explained

(* What a step of a caller has to leave of the events on their way for a   *)
(* failure to be explained.                                                *)
LEMMA ReasonedCallerFrame ==
    ASSUME RInv, Reasoned, NEW c \in Caller, TasksRun, driver' = driver,
           LinkKept \/ pending' \in {<<>>, <<"DISCONNECT">>},
           Hears(task'[c]) => "DISCONNECT" \in registered',
           Waits(task'[c]) =>
              /\ join_user_data' = c /\ UNCHANGED <<error_flag, link>>
              /\ task'[c].given \/ task'[c].pc = "woken" =>
                    Waits(task[c]) /\ task[c].given /\ task'[c].p = task[c].p
    PROVE  RInv'
<1>1. pending = <<>> /\ driver = Resting /\ \A d \in Caller : d = c
  BY DEF Reasoned, OneCaller, TasksRun, DriverIdle
<1>2. Batched' /\ Handshaken'
  BY <1>1 DEF LinkKept, Batched, Batches, Handshaken, Resting
<1>3. Heard' /\ Addressed'
  BY <1>1 DEF Heard, Addressed, Hears, Waits
<1>4. Explained'
  <2>1. ~Coming
    BY <1>1 DEF Coming, Resting
  <2> QED
    BY <1>1, <2>1 DEF RInv, Explained, Reason, Connected, Waits, Resting
<1> QED
  BY <1>2, <1>3, <1>4 DEF RInv

(* Steps of a caller that are not between the registration of the          *)
(* handlers and the wait.                                                  *)
LEMMA ReasonedAway ==
    ASSUME RInv, Reasoned, IInv, NEW c \in Caller,
           \/ Call(c) \/ Enter(c) \/ Alloc(c) \/ SsidAfterWait(c) \/ BssidFreeRecord(c)
           \/ FreeSema(c) \/ ClearJoinUserData(c) \/ SsidFreeRecord(c) \/ UnregisterAll(c)
           \/ Finish(c) \/ DhcpAssigned(c) \/ DhcpReturn(c)
    PROVE  RInv'
<1>1. TasksRun /\ UNCHANGED env
  BY DEF Call, Enter, Alloc, SsidAfterWait, BssidFreeRecord, FreeSema, ClearJoinUserData,
         SsidFreeRecord, UnregisterAll, Unregister, Finish, DhcpAssigned, DhcpReturn, At
<1>2. task'[c].pc \in CallerPc \ {"reg4", "join", "publish", "wait", "woken"}
  <2>1. task \in [Caller -> Task] /\ task[c] \in Task
    BY Known
  <2>2. CASE Call(c) \/ Enter(c) \/ Alloc(c)
    BY <2>1, <2>2 DEF Call, NewCall, Enter, Alloc, Return, Goto, Failed, CallerPc, Task
  <2>3. CASE SsidAfterWait(c) \/ BssidFreeRecord(c)
    BY <2>1, <2>3 DEF SsidAfterWait, BssidFreeRecord, CallerPc, Task
  <2>4. CASE FreeSema(c)
    BY <2>1, <2>4 DEF FreeSema, Goto, CallerPc, Task
  <2>5. CASE ClearJoinUserData(c) \/ SsidFreeRecord(c) \/ UnregisterAll(c)
    BY <2>1, <2>5
       DEF ClearJoinUserData, SsidFreeRecord, UnregisterAll, Unregister, Goto, CallerPc, Task
  <2>6. CASE Finish(c) \/ DhcpAssigned(c) \/ DhcpReturn(c)
    BY <2>1, <2>6 DEF Finish, NewCall, DhcpAssigned, DhcpReturn, Goto, CallerPc, Task
  <2> QED
    BY <2>2, <2>3, <2>4, <2>5, <2>6
<1>3. ~Hears(task'[c]) /\ ~Waits(task'[c])
  BY <1>2 DEF Hears, Waits
<1> QED
  BY <1>1, <1>3, ReasonedCallerFrame DEF env, LinkKept

(* The steps up to the wait leave that much: the caller registers before   *)
(* it joins, and waits with no word of the join yet.                       *)
LEMMA ReasonedStarting ==
    ASSUME RInv, Reasoned, IInv, NEW c \in Caller,
           RegisterAll(c) \/ StartJoin(c) \/ Publish(c) \/ Wait(c)
    PROVE  RInv'
<1>1. task \in [Caller -> Task] /\ task[c] \in Task /\ Owns(task[c])
  BY Known
<1>2. CASE RegisterAll(c)
  <2>1. TasksRun /\ UNCHANGED env /\ task'[c].pc \in {"reg2", "reg3", "reg4", "join"}
    BY <1>1, <1>2 DEF RegisterAll, Register, At, Goto, Task
  <2>2. task'[c].pc \in {"reg4", "join"} => "DISCONNECT" \in registered'
    <3>1. CASE task[c].pc = "reg3"
      <4>1. "DISCONNECT" \notin task[c].p.full
        BY <1>1 DEF Task, Reasoned
      <4> QED
        BY <1>2, <3>1, <4>1 DEF RegisterAll, Register, At
    <3>2. CASE task[c].pc = "reg4"
      BY <1>2, <3>2 DEF RegisterAll, Register, At, RInv, Heard, Hears
    <3>3. CASE task[c].pc \notin {"reg3", "reg4"}
      BY <1>1, <1>2, <3>3 DEF RegisterAll, Register, At, Goto, Task
    <3> QED
      BY <3>1, <3>2, <3>3
  <2> QED
    BY <2>1, <2>2, ReasonedCallerFrame DEF env, LinkKept, Hears, Waits
<1>3. CASE StartJoin(c)
  <2>1. /\ TasksRun /\ UNCHANGED <<globals, driver>> /\ task[c].pc = "join"
        /\ task'[c].pc = "publish"
    BY <1>1, <1>3 DEF StartJoin, At, Goto, Task
  <2>2. pending = <<>>
    BY <2>1 DEF TasksRun, DriverIdle, Reasoned
  <2>3. pending' \in {<<>>, <<"DISCONNECT">>}
    BY <1>3, <2>2 DEF StartJoin
  <2> QED
    BY <2>1, <2>3, ReasonedCallerFrame DEF globals, Hears, Waits, RInv, Heard
<1>4. CASE Publish(c)
  <2>1. /\ TasksRun /\ join_user_data' = c /\ UNCHANGED <<error_flag, registered, env>>
        /\ task[c].pc = "publish" /\ task'[c].pc \in {"wait", "null"}
        /\ task'[c].given = task[c].given
    BY <1>1, <1>4 DEF Publish, At, Goto, Task
  <2>2. ~task'[c].given
    BY <1>1, <2>1 DEF Owns, Starting
  <2> QED
    BY <2>1, <2>2, ReasonedCallerFrame DEF env, LinkKept, Hears, Waits, RInv, Heard
<1>5. CASE Wait(c)
  <2>1. /\ TasksRun /\ UNCHANGED <<globals, env>> /\ task[c].pc = "wait"
        /\ task'[c].p = task[c].p
        /\ task'[c].pc = "timeout" \/ (task'[c].pc = "woken" /\ task[c].given)
    BY <1>1, <1>5 DEF Wait, At, Task
  <2> QED
    BY <2>1, ReasonedCallerFrame DEF globals, env, LinkKept, Hears, Waits, RInv, Heard, Addressed
<1> QED
  BY <1>2, <1>3, <1>4, <1>5

(* The calls during a step of the driver or of simple config.              *)
LEMMA EnvironmentCalls ==
    ASSUME TypeOK, SimpleConfig \/ Driver \/ Handler, NEW c \in Caller
    PROVE  /\ task'[c].pc = task[c].pc /\ task'[c].p = task[c].p
           /\ task'[c].result = task[c].result
           /\ UpSema \/ task'[c].given = task[c].given
<1>1. task[c] \in Task /\ task \in [Caller -> Task]
  BY DEF TypeOK
<1>2. CASE SimpleConfig \/ Indicate \/ Use \/ TestAgain
  BY <1>2 DEF SimpleConfig, Indicate, Use, Faults, TestAgain
<1>3. CASE Driver
  <2>1. PICK j : task'[c] = [task[c] EXCEPT !.joined = j]
    BY <1>3 DEF Driver, LinkStep
  <2> QED
    BY <1>1, <2>1 DEF Task
<1>4. CASE Test
  <2>1. PICK d : task'[c] = [task[c] EXCEPT !.decided = d]
    BY <1>4 DEF Test
  <2> QED
    BY <1>1, <2>1 DEF Task
<1>5. CASE UpSema
  <2>1. task' = task \/ task' = [task EXCEPT ![join_user_data].given = TRUE]
    BY <1>5 DEF UpSema, Faults
  <2>2. task'[c] = task[c] \/ task'[c] = [task[c] EXCEPT !.given = TRUE]
    BY <1>1, <2>1
  <2> QED
    BY <1>1, <1>5, <2>2 DEF Task
<1> QED
  BY <1>2, <1>3, <1>4, <1>5 DEF Handler

(* So do the driver and the handlers: the reason is written before the     *)
(* semaphore is given.                                                     *)
LEMMA ReasonedEnvironment ==
    ASSUME RInv, Reasoned, IInv, SimpleConfig \/ Driver \/ Handler PROVE RInv'
<1>1. /\ TypeOK /\ UNCHANGED <<join_user_data, registered>>
      /\ DriverAbove /\ "DISCONNECT" \in Event
  BY DEF IInv, Reasoned, SimpleConfig, Driver, LinkStep, Handler, Indicate, Test, Use, TestAgain, UpSema,
         Faults, globals, Event
<1>2. Heard' /\ Addressed'
  BY <1>1, EnvironmentCalls DEF RInv, Heard, Addressed, Hears, Waits
<1>3. SUFFICES Batched' /\ Handshaken' /\
         \A c \in Caller :
            Waits(task[c]) /\ task[c].p.sec = "aes" =>
                /\ task'[c].given \/ task[c].pc = "woken" => Reason' \/ Connected' \/ Coming'
                /\ driver'.ev = "DISCONNECT" /\ driver'.pc \in {"test2", "up"} => Reason'
                /\ driver'.ev = "CONNECT" => driver'.pc # "up"
  BY <1>1, <1>2, EnvironmentCalls DEF RInv, Explained, Waits
<1>4. ASSUME NEW c \in Caller, Waits(task[c]), task[c].p.sec = "aes"
      PROVE  /\ join_user_data = c /\ c # Null /\ "DISCONNECT" \in registered
             /\ task[c].given \/ task[c].pc = "woken" => Reason \/ Connected \/ Coming
             /\ driver.ev = "DISCONNECT" /\ driver.pc \in {"test2", "up"} => Reason
             /\ driver.ev = "CONNECT" => driver.pc # "up"
  BY <1>4, CallerAssumption DEF RInv, Heard, Hears, Addressed, Explained
<1>5. CASE SimpleConfig
  <2>1. UNCHANGED <<task, error_flag, link, pending, driver>>
    BY <1>5 DEF SimpleConfig
  <2> QED
    BY <2>1, <1>4 DEF RInv, Batched, Handshaken, Reason, Connected, Coming
<1>6. CASE Driver
  <2>1. PICK from \in {"joining", "associated", "keyed"}, to \in {"idle", "associated", "keyed"},
             events \in {<<"NO_NETWORK", "DISCONNECT">>, <<"DISCONNECT">>, <<"CONNECT">>,
                         <<"FOURWAY_HANDSHAKE_DONE">>} :
           /\ LinkStep(from, to, events)
           /\ from = "keyed" => events = <<"DISCONNECT">>
           /\ events = <<"FOURWAY_HANDSHAKE_DONE">> => to = "keyed"
    <3>1. (IF link.sec \in {"aes", "wpa"} THEN "associated" ELSE "keyed") \in {"associated", "keyed"}
      OBVIOUS
    <3> QED
      BY <3>1, <1>6 DEF Driver
  <2>2. /\ pending = <<>> /\ driver = Resting /\ driver' = Resting /\ pending' = events
        /\ link.state = from /\ link'.state = to /\ UNCHANGED error_flag
    BY <2>1, <1>1 DEF LinkStep, DriverIdle, globals, TypeOK
  <2>3. Batched' /\ Handshaken'
    BY <2>1, <2>2 DEF Batched, Batches, Handshaken, Resting
  <2>4. \A c \in Caller : task'[c].given = task[c].given
    BY <1>1, <1>6, <2>2, EnvironmentCalls DEF UpSema, HandlerAt, Resting
  <2>5. ~Coming /\ (Reason => Reason') /\ (Connected => Coming')
    BY <2>1, <2>2 DEF Coming, Reason, Connected, Resting
  <2> QED
    BY <2>2, <2>3, <2>4, <2>5, <1>4 DEF Resting
<1>7. CASE Indicate
  <2>1. /\ driver = Resting /\ pending' = Tail(pending) /\ UNCHANGED <<task, error_flag, link>>
        /\ driver' = IF Head(pending) \in registered
                       THEN [ev |-> Head(pending), pc |-> "test"] ELSE Resting
        /\ pending \in Batches \ {<<>>}
    BY <1>7 DEF Indicate, globals, RInv, Batched
  <2>2. /\ pending' \in {<<>>, <<"DISCONNECT">>}
        /\ Head(pending) = "FOURWAY_HANDSHAKE_DONE" => pending = <<"FOURWAY_HANDSHAKE_DONE">>
        /\ pending = <<"NO_NETWORK", "DISCONNECT">> => pending' = <<"DISCONNECT">>
        /\ pending = <<"DISCONNECT">> => Head(pending) = "DISCONNECT"
    <3>1. CASE pending = <<"NO_NETWORK", "DISCONNECT">>
      BY <2>1, <3>1
    <3>2. CASE pending = <<"DISCONNECT">>
      BY <2>1, <3>2
    <3>3. CASE pending = <<"CONNECT">>
      BY <2>1, <3>3
    <3>4. CASE pending = <<"FOURWAY_HANDSHAKE_DONE">>
      BY <2>1, <3>4
    <3> QED
      BY <2>1, <3>1, <3>2, <3>3, <3>4 DEF Batches
  <2>3. Batched' /\ Handshaken'
    BY <2>1, <2>2 DEF RInv, Batched, Batches, Handshaken, Resting
  <2>4. Coming /\ "DISCONNECT" \in registered => Coming'
    BY <2>1, <2>2 DEF Coming, Resting
  <2>5. (Reason => Reason') /\ (Connected => Connected')
    BY <2>1 DEF Reason, Connected
  <2>6. driver'.pc \notin {"test2", "up"}
    BY <2>1 DEF Resting
  <2> QED
    BY <2>1, <2>3, <2>4, <2>5, <2>6, <1>4
<1>8. CASE Test
  <2>1. /\ driver.pc = "test" /\ UNCHANGED <<link, pending>>
        /\ join_user_data # Null => UNCHANGED error_flag
        /\ driver'.ev \in {driver.ev, "none"}
        /\ driver.ev = "DISCONNECT" /\ join_user_data # Null => 
              driver' = [ev |-> "DISCONNECT", pc |-> "use"]
        /\ driver.ev = "CONNECT" => driver'.pc # "up"
        /\ driver'.ev = "DISCONNECT" => driver.ev = "DISCONNECT"
        /\ driver.ev # "none"
    BY <1>1, <1>8 DEF Test, HandlerAt, HandlerGoto, TypeOK, DriverThread, Resting
  <2>2. Batched' /\ Handshaken'
    BY <2>1 DEF RInv, Batched, Handshaken
  <2>3. ASSUME join_user_data # Null
        PROVE  (Coming => Coming') /\ (Reason => Reason') /\ (Connected => Connected')
    BY <2>1, <2>3 DEF Coming, Reason, Connected
  <2>4. \A c \in Caller : task'[c].given = task[c].given
    BY <1>1, <1>8, <2>1, EnvironmentCalls DEF UpSema, HandlerAt, Handler
  <2>5. ASSUME join_user_data # Null
        PROVE  /\ driver'.ev = "DISCONNECT" => driver'.pc = "use"
               /\ driver'.ev = "CONNECT" => driver'.pc # "up"
    BY <2>1, <2>5
  <2> QED
    BY <2>1, <2>2, <2>3, <2>4, <2>5, <1>4
<1>9. CASE Use
  <2>1. driver.pc = "use" /\ UNCHANGED <<task, link, pending>>
    BY <1>9 DEF Use, HandlerAt, Faults, globals, env
  <2>2. CASE Faults(BadRecord)
    BY <1>4, <2>2 DEF Faults, globals, env, RInv, Batched, Handshaken, Reason, Connected, Coming
  <2>3. CASE ~Faults(BadRecord)
    <3>1. PICK sec : /\ Handled(sec)
                     /\ driver.ev # "NO_NETWORK" => sec = task[join_user_data].p.sec
      BY <1>9, <2>3 DEF Use
    <3>2. /\ driver.ev \in {"NO_NETWORK", "CONNECT", "DISCONNECT"}
          /\ driver.ev = "NO_NETWORK" => driver' = Resting
          /\ driver.ev = "CONNECT" =>
                driver' = IF sec \in {"open", "wep"} THEN [ev |-> "CONNECT", pc |-> "up"] ELSE Resting
          /\ driver.ev = "DISCONNECT" => driver' = [ev |-> "DISCONNECT", pc |-> "test2"]
          /\ driver.ev # "DISCONNECT" => UNCHANGED error_flag
          /\ driver.ev = "DISCONNECT" => error_flag' = DisconnectError(sec)
      BY <1>1, <2>1, <3>1, DriverPlaces DEF Handled, HandlerGoto, TypeOK, DriverThread, Resting
    <3>3. Batched' /\ Handshaken'
      BY <2>1, <3>2 DEF RInv, Batched, Handshaken, Resting
    <3>4. driver.ev = "DISCONNECT" /\ sec = "aes" => Reason'
      BY <3>2 DEF DisconnectError, Reason
    <3>5. driver.ev # "DISCONNECT" =>
             (Coming => Coming') /\ (Reason => Reason') /\ (Connected => Connected')
      BY <2>1, <3>2 DEF Coming, Reason, Connected
    <3> QED
      BY <1>4, <2>1, <3>1, <3>2, <3>3, <3>4, <3>5 DEF Resting
  <2> QED
    BY <2>2, <2>3
<1>10. CASE TestAgain
  <2>1. /\ driver = [ev |-> "DISCONNECT", pc |-> "test2"] /\ UNCHANGED <<task, error_flag, link, pending>>
        /\ driver'.ev \in {"DISCONNECT", "none"}
    BY <1>1, <1>10, DriverPlaces DEF TestAgain, HandlerAt, HandlerGoto, globals, Resting
  <2>2. Batched' /\ Handshaken'
    BY <2>1 DEF RInv, Batched, Handshaken
  <2>3. (Reason => Reason')
    BY <2>1 DEF Reason
  <2> QED
    BY <1>4, <2>1, <2>2, <2>3
<1>11. CASE UpSema
  <2>1. /\ driver.pc = "up" /\ UNCHANGED <<error_flag, link, pending>>
        /\ driver' \in {driver, Resting} /\ (driver' = driver => task' = task)
        /\ driver.ev \in {"CONNECT", "DISCONNECT", "FOURWAY_HANDSHAKE_DONE"}
        /\ driver # Resting
    BY <1>1, <1>11 DEF UpSema, HandlerAt, HandlerGoto, Faults, globals, env, Resting, TypeOK, DriverThread
  <2>2. Batched' /\ Handshaken'
    BY <2>1 DEF RInv, Batched, Handshaken, Resting
  <2>3. (Reason => Reason') /\ (Connected => Connected')
    BY <2>1 DEF Reason, Connected
  <2>4. driver.ev = "FOURWAY_HANDSHAKE_DONE" => Connected
    BY DEF RInv, Handshaken, Connected
  <2>5. ASSUME NEW c \in Caller, Waits(task[c]), task[c].p.sec = "aes"
        PROVE  Reason \/ Connected
    BY <1>4, <2>1, <2>4, <2>5
  <2>6. driver'.ev \in {driver.ev, "none"} /\ (driver'.ev = driver.ev => driver' = driver)
    BY <2>1 DEF Resting
  <2> QED
    BY <1>4, <2>1, <2>2, <2>3, <2>5, <2>6
<1> QED
  BY <1>5, <1>6, <1>7, <1>8, <1>9, <1>10, <1>11 DEF Handler

LEMMA ReasonedNext == ASSUME RInv, Reasoned, IInv, [Next]_vars PROVE RInv'
<1>1. CASE \E c \in Caller : Call(c) \/ CallerStep(c)
  BY <1>1, ReasonedAway, ReasonedStarting DEF CallerStep
<1>2. CASE SimpleConfig \/ Driver \/ Handler
  BY <1>2, ReasonedEnvironment
<1>3. CASE UNCHANGED vars
  BY <1>3 DEF vars, globals, env, RInv, Batched, Handshaken, Heard, Addressed, Explained, Reason,
              Connected, Coming
<1> QED
  BY <1>1, <1>2, <1>3 DEF Next, Crashed

(* The one step that gives a woken call its result finds the driver idle.  *)
LEMMA FailureStep ==
    ASSUME RInv, Reasoned, IInv, Next, NEW c \in Caller,
           task[c].pc = "woken", task[c].p.sec = "aes", task'[c].result = "ERROR"
    PROVE  Reason
<1>1. task[c].result = "SUCCESS" /\ task \in [Caller -> Task] /\ task[c] \in Task /\ TypeOK
  BY Known DEF Owns
<1>2. ~(SimpleConfig \/ Driver \/ Handler \/ Crashed)
  BY <1>1, EnvironmentCalls DEF Crashed, vars
<1>3. Call(c) \/ CallerStep(c)
  BY <1>2 DEF Next, Reasoned, OneCaller
<1>4. SsidAfterWait(c) \/ FreeSema(c)
  BY <1>3 DEF Call, CallerStep, Enter, Alloc, RegisterAll, Register, StartJoin, Publish, Wait,
              BssidFreeRecord, ClearJoinUserData, SsidFreeRecord, UnregisterAll, Unregister,
              Finish, DhcpAssigned, DhcpReturn, At
<1>5. CASE SsidAfterWait(c)
  <2>1. TasksRun /\ task'[c].result = CheckedResult
    BY <1>1, <1>5 DEF SsidAfterWait, At, Task
  <2>2. ~Connected /\ ~Coming
    BY <2>1 DEF CheckedResult, TasksRun, DriverIdle, Reasoned, Coming, Resting
  <2> QED
    BY <2>2 DEF RInv, Explained, Waits
<1>6. CASE FreeSema(c)
  <2>1. task'[c].result = "SUCCESS"
    BY <1>1, <1>6 DEF FreeSema, Goto, Task
  <2> QED
    BY <2>1
<1> QED
  BY <1>4, <1>5, <1>6

(* A call that is woken and reports a failure of a WPA2 network leaves one *)
(* of the three reasons in error_flag, for one caller below the driver's   *)
(* thread, whatever its parameters, as long as the DISCONNECT handler has  *)
(* room in the table.                                                      *)
THEOREM FailureExplained == ASSUME Reasoned PROVE Spec => FailureHasReason
<1>1. Init => RInv
  BY DEF Init, RInv, Batched, Batches, Handshaken, Heard, Addressed, Explained, Hears, Waits,
         NewCall, Resting
<1>2. IInv /\ RInv /\ [Next]_vars => RInv'
  BY ReasonedNext
<1>3. IInv /\ RInv /\ [Next]_vars =>
         [\A c \in Caller :
            /\ task[c].pc = "woken" /\ task[c].p.sec = "aes" /\ task'[c].result = "ERROR"
            => error_flag \in {"NONE_NETWORK", "CONNECT_FAIL", "WRONG_PASSWORD"}]_vars
  BY FailureStep DEF Reason
<1> QED
  BY <1>1, <1>2, <1>3, Invariance, PTL DEF Spec, FailureHasReason
=============================================================================
