--------------------------- MODULE Console_proofs ---------------------------
(***************************************************************************)
(* Proofs about Console, for any lines: what the command task runs is the  *)
(* next line handed over, and a prompt finds everything ready. They are    *)
(* for one host, and for one on the AT UART when connections print         *)
(* nothing there: with both the lock does not protect log_buf.             *)
(***************************************************************************)
EXTENDS Console, SequenceTheorems, TLAPS

OneTypes ==
    \A s \in Setups : s.hosts = {} \/ s.hosts = {"log"} \/ (s.hosts = {"at"} /\ ~s.messages)

-----------------------------------------------------------------------------
(* The inductive invariant: the way of a line is one of nine situations,   *)
(* until data of a dropped command are taken up as a command; then the     *)
(* lines that were handed over still outnumber the runs.                   *)

Between == {"none", "start", "wait", "unlock", "release"}

(* The buffer of the log UART with i characters of line n. *)
Filled(n, i) == [k \in 1 .. BufLen |-> IF k <= i THEN Char(n, k) ELSE Nul]

LogQuiet ==
    /\ line["log"] = 0 /\ UARTLogBuf = EmptyBuf /\ BufCount = 0 /\ ~ExecuteCmd
    /\ cpc \in {"start", "down"} /\ Sema = 0
AtQuiet == line["at"] = 0 /\ temp_buf = <<>> /\ ~data_cmd /\ ~past

AllRan == log_rx_interrupt_sema = 0 /\ ran = Len(entered)
Free == spc \in Between /\ AllRan

Resting == Free /\ LogQuiet /\ AtQuiet /\ log_buf = <<>>

LogTyping ==
    /\ Free /\ AtQuiet /\ log_buf = <<>>
    /\ "log" \in setup.hosts /\ at_ready
    /\ line["log"] # 0 /\ BufCount = keys["log"] /\ UARTLogBuf = Filled(line["log"], keys["log"])
    /\ ~ExecuteCmd /\ cpc = "down" /\ Sema = 0

AtTyping ==
    /\ Free /\ LogQuiet /\ log_buf = <<>>
    /\ "at" \in setup.hosts /\ at_ready
    /\ line["at"] # 0 /\ ~data_cmd /\ ~past
    /\ temp_buf = Typed(line["at"], keys["at"])

AtSending ==
    /\ Free /\ LogQuiet /\ temp_buf = <<>>
    /\ "at" \in setup.hosts /\ at_ready /\ ~prompt["at"]
    /\ line["at"] # 0 /\ IsData(line["at"]) /\ data_cmd /\ past
    /\ keys["at"] \in 1 .. DataLen
    /\ log_buf = Typed(line["at"], keys["at"])

AtDropped ==
    /\ Free /\ LogQuiet /\ temp_buf = <<>> /\ log_buf = <<>>
    /\ "at" \in setup.hosts /\ at_ready
    /\ line["at"] # 0 /\ IsData(line["at"]) /\ ~data_cmd /\ past
    /\ keys["at"] \in 1 .. DataLen

EmptyLine ==
    /\ Free /\ AtQuiet /\ log_buf = <<>>
    /\ "log" \in setup.hosts /\ at_ready
    /\ line["log"] = 0 /\ BufCount = 0 /\ UARTLogBuf = EmptyBuf /\ ExecuteCmd
    /\ \/ cpc = "down" /\ Sema = 1
       \/ cpc \in {"test", "copy", "argc", "null", "count", "erase", "done"} /\ Sema = 0

Awaits == ran + 1 = Len(entered) /\ \A u \in setup.hosts : ~prompt[u]

Arriving ==
    /\ Awaits /\ spc \in Between /\ log_rx_interrupt_sema = 0 /\ AtQuiet
    /\ "log" \in setup.hosts /\ at_ready
    /\ line["log"] = 0 /\ ExecuteCmd
    /\ \E n \in Nat \ {0} : entered[ran + 1] = Typed(n, 2) /\ UARTLogBuf = Filled(n, 2)
    /\ \/ cpc = "down" /\ Sema = 1
       \/ cpc \in {"test", "copy", "argc", "up"} /\ Sema = 0
    /\ cpc \in {"argc", "up"} => log_buf = entered[ran + 1]

Handed ==
    /\ Awaits /\ AtQuiet /\ at_ready
    /\ log_buf = entered[ran + 1]
    /\ \/ /\ spc \in Between /\ log_rx_interrupt_sema = 1
          /\ \/ LogQuiet
             \/ /\ cpc \in {"count", "erase", "done"} /\ line["log"] = 0 /\ Sema = 0
                /\ cpc # "count" => BufCount = 0
                /\ cpc = "done" => UARTLogBuf = EmptyBuf
       \/ /\ spc \in {"lock", "read", "act", "fallback"} /\ log_rx_interrupt_sema = 0
          /\ LogQuiet
          /\ spc \in {"act", "fallback"} => cmd = log_buf

Finishing ==
    /\ spc \in {"clear", "prompt"} /\ AllRan /\ LogQuiet /\ AtQuiet /\ at_ready
    /\ \A u \in setup.hosts : ~prompt[u]
    /\ spc = "prompt" => log_buf = <<>>

Started ==
    /\ (cpc = "start") = (spc = "none") /\ TaskRdy = (cpc # "start")
    /\ at_ready => spc \notin {"none", "start"}
    /\ npc # "idle" => setup.messages

Situation ==
    \/ Resting \/ LogTyping \/ AtTyping \/ AtSending \/ AtDropped
    \/ EmptyLine \/ Arriving \/ Handed \/ Finishing

Astray ==
    /\ "at" \in setup.hosts /\ at_ready /\ LogQuiet
    /\ past => line["at"] # 0 /\ IsData(line["at"]) /\ keys["at"] \in 1 .. DataLen
    /\ ran + log_rx_interrupt_sema <= Len(entered)
    /\ spc \in {"lock", "read", "act", "fallback"} => ran + log_rx_interrupt_sema < Len(entered)

IInv == TypeOK /\ Started /\ (IF spoiled THEN Astray ELSE Situation)

-----------------------------------------------------------------------------
(* The line buffer after none, one and two of the characters of the n-th   *)
(* line, and what is read back from it.                                    *)
LEMMA Buffers ==
    /\ \A n \in Nat : EmptyBuf = Filled(n, 0)
    /\ \A n \in Nat, i \in 0 .. 2 :
          Filled(n, i) \in [1 .. BufLen -> Nat \X Nat]
          /\ [Filled(n, i) EXCEPT ![i + 1] = Char(n, i + 1)] = Filled(n, i + 1)
    /\ \A n \in Nat \ {0} : Filled(n, 2)[1] # Nul
    /\ EmptyBuf[1] = Nul /\ EmptyBuf \in [1 .. BufLen -> Nat \X Nat]
<1>1. \A n \in Nat : EmptyBuf = Filled(n, 0)
  BY DEF EmptyBuf, Filled
<1>2. \A n \in Nat, i \in 0 .. 2 : Filled(n, i) \in [1 .. BufLen -> Nat \X Nat]
  BY DEF Filled, Char, Nul
<1>3. ASSUME NEW n \in Nat, NEW i \in 0 .. 2
      PROVE  [Filled(n, i) EXCEPT ![i + 1] = Char(n, i + 1)] = Filled(n, i + 1)
  <2>1. \A k \in 1 .. BufLen : k <= i + 1 <=> k <= i \/ k = i + 1
    OBVIOUS
  <2> QED
    BY <2>1 DEF Filled
<1>4. \A n \in Nat \ {0} : Filled(n, 2)[1] # Nul
  BY DEF Filled, Char, Nul, BufLen
<1>5. EmptyBuf[1] = Nul /\ EmptyBuf \in [1 .. BufLen -> Nat \X Nat]
  BY DEF EmptyBuf, BufLen, Nul
<1> QED
  BY <1>1, <1>2, <1>3, <1>4, <1>5

(* What is typed of a line: nothing, then one character more each time.    *)
LEMMA Typing ==
    \A n \in Nat, k \in Nat :
        /\ Char(n, k) \in Nat \X Nat
        /\ Typed(n, k) \in Seq(Nat \X Nat)
        /\ Typed(n, 0) = <<>>
        /\ Append(Typed(n, k), Char(n, k + 1)) = Typed(n, k + 1)
<1> SUFFICES ASSUME NEW n \in Nat, NEW k \in Nat
             PROVE  /\ Char(n, k) \in Nat \X Nat
                    /\ Typed(n, k) \in Seq(Nat \X Nat)
                    /\ Typed(n, 0) = <<>>
                    /\ Append(Typed(n, k), Char(n, k + 1)) = Typed(n, k + 1)
  OBVIOUS
<1>1. \A i \in Nat : Char(n, i) \in Nat \X Nat
  BY DEF Char
<1>2. \A j \in Nat : /\ Typed(n, j) \in Seq(Nat \X Nat) /\ Len(Typed(n, j)) = j
                     /\ \A i \in 1 .. j : Typed(n, j)[i] = Char(n, i)
  BY <1>1 DEF Typed
<1>3. Typed(n, 0) = <<>>
  BY <1>2
<1>4. PICK t, u, c : t = Typed(n, k) /\ u = Typed(n, k + 1) /\ c = Char(n, k + 1)
  OBVIOUS
<1>5. /\ t \in Seq(Nat \X Nat) /\ u \in Seq(Nat \X Nat) /\ c \in Nat \X Nat
      /\ Len(t) = k /\ Len(u) = k + 1 /\ u[k + 1] = c
      /\ \A i \in 1 .. k : u[i] = t[i]
  <2>1. k + 1 \in Nat /\ k + 1 \in 1 .. k + 1 /\ \A i \in 1 .. k : i \in 1 .. k + 1
    OBVIOUS
  <2>2. /\ t \in Seq(Nat \X Nat) /\ Len(t) = k /\ \A i \in 1 .. k : t[i] = Char(n, i)
    BY <1>2, <1>4
  <2>3. /\ u \in Seq(Nat \X Nat) /\ Len(u) = k + 1 /\ \A i \in 1 .. k + 1 : u[i] = Char(n, i)
    BY <1>2, <1>4, <2>1
  <2> QED
    BY <1>1, <1>4, <2>1, <2>2, <2>3
<1>6. /\ Append(t, c) \in Seq(Nat \X Nat) /\ Len(Append(t, c)) = k + 1
      /\ Append(t, c)[k + 1] = c /\ \A i \in 1 .. k : Append(t, c)[i] = t[i]
  BY <1>5, AppendProperties
<1>7. \A i \in 1 .. k + 1 : Append(t, c)[i] = u[i]
  <2>1. \A i \in 1 .. k + 1 : i \in 1 .. k \/ i = k + 1
    OBVIOUS
  <2> QED
    BY <1>5, <1>6, <2>1
<1>8. Append(t, c) = u
  BY <1>5, <1>6, <1>7, SeqEqual
<1> QED
  BY <1>1, <1>2, <1>3, <1>4, <1>8

(* The texts of lines. *)
LEMMA Texts ==
    \A n \in Nat :
        /\ Text("at", n) \in Seq(Nat \X Nat) /\ Text("log", n) \in Seq(Nat \X Nat)
        /\ n \in Data => Text("at", n) = Typed(n, DataLen + 1)
        /\ n \notin Data => Text("at", n) = Typed(n, 2)
        /\ Text("log", n) = Typed(n, 2)
<1>1. \A n \in Nat : AtLen(n) \in Nat
  BY LinesAssumption DEF AtLen
<1> QED
  BY <1>1, Typing DEF Text, AtLen

(* strncpy gives the line that was typed. *)
LEMMA Copied ==
    /\ CString(EmptyBuf) = <<>>
    /\ \A n \in Nat \ {0} : CString(Filled(n, 2)) = Typed(n, 2)
<1>1. CString(EmptyBuf) = <<>>
  <2> DEFINE P(k) == k \in 0 .. BufLen - 1 /\ EmptyBuf[k + 1] = Nul
          /\ \A i \in 1 .. k : EmptyBuf[i] # Nul
  <2>1. P(0)
    BY DEF EmptyBuf, BufLen
  <2>2. ASSUME NEW k, P(k) PROVE k = 0
    <3> SUFFICES ASSUME k > 0 PROVE FALSE
      BY <2>2 DEF BufLen
    <3>1. 1 \in 1 .. k
      BY <2>2 DEF BufLen
    <3> QED
      BY <2>2, <3>1, Buffers
  <2>3. CString(EmptyBuf) = [i \in 1 .. (CHOOSE k : P(k)) |-> EmptyBuf[i]]
    BY Zenon DEF CString
  <2> HIDE DEF P
  <2>4. (CHOOSE k : P(k)) = 0
    BY <2>1, <2>2, Zenon
  <2>5. CString(EmptyBuf) = [i \in 1 .. 0 |-> EmptyBuf[i]]
    BY <2>3, <2>4
  <2>6. 1 .. 0 = {}
    OBVIOUS
  <2>7. \A f : [i \in {} |-> f[i]] = <<>>
    OBVIOUS
  <2> QED
    BY <2>5, <2>6, <2>7
<1>2. ASSUME NEW n \in Nat \ {0} PROVE CString(Filled(n, 2)) = Typed(n, 2)
  <2> DEFINE b == Filled(n, 2)
             P(k) == k \in 0 .. BufLen - 1 /\ b[k + 1] = Nul /\ \A i \in 1 .. k : b[i] # Nul
  <2>0. b[1] = Char(n, 1) /\ b[2] = Char(n, 2) /\ b[3] = Nul /\ b[4] = Nul
        /\ Char(n, 1) # Nul /\ Char(n, 2) # Nul
    BY DEF Filled, Char, Nul, BufLen
  <2>1. P(2)
    <3>1. \A i \in 1 .. 2 : i = 1 \/ i = 2
      OBVIOUS
    <3> QED
      BY <2>0, <3>1 DEF BufLen
  <2>2. ASSUME NEW k, P(k) PROVE k = 2
    <3>1. k \in 0 .. 3
      BY <2>2 DEF BufLen
    <3>2. k # 0 /\ k # 1
      BY <2>0, <2>2
    <3>3. k # 3
      <4> SUFFICES ASSUME k = 3 PROVE FALSE
        OBVIOUS
      <4>1. 3 \in 1 .. k
        OBVIOUS
      <4> QED
        BY <2>0, <2>2, <4>1
    <3> QED
      BY <3>1, <3>2, <3>3
  <2>3. CString(b) = [i \in 1 .. (CHOOSE k : P(k)) |-> b[i]]
    BY Zenon DEF CString
  <2> HIDE DEF P
  <2>4. (CHOOSE k : P(k)) = 2
    BY <2>1, <2>2, Zenon
  <2>5. CString(b) = [i \in 1 .. 2 |-> b[i]]
    BY <2>3, <2>4
  <2>6. Typed(n, 2) = [i \in 1 .. 2 |-> b[i]]
    <3>1. \A i \in 1 .. 2 : b[i] = Char(n, i)
      BY DEF Filled, BufLen
    <3> HIDE DEF b
    <3> QED
      BY <3>1 DEF Typed
  <2> QED
    BY <2>5, <2>6
<1> QED
  BY <1>1, <1>2

-----------------------------------------------------------------------------
(* The type invariant in parts. *)
Flags ==
    /\ ExecuteCmd \in BOOLEAN /\ TaskRdy \in BOOLEAN /\ data_cmd \in BOOLEAN
    /\ at_ready \in BOOLEAN /\ wakelock \in BOOLEAN
    /\ past \in BOOLEAN /\ spoiled \in BOOLEAN
Keys == 0 .. DataLen + 1
Others ==
    /\ setup \in Setups
    /\ prompt \in [Uart -> BOOLEAN]
    /\ line \in [Uart -> Nat] /\ keys \in [Uart -> Keys] /\ begun \in Nat
    /\ UARTLogBuf \in [1 .. BufLen -> Nat \X Nat] /\ BufCount \in 0 .. BufLen - 1
    /\ Sema \in Nat
    /\ temp_buf \in Seq(Nat \X Nat)
    /\ log_buf \in Seq(Nat \X Nat) /\ cmd \in Seq(Nat \X Nat)
    /\ log_rx_interrupt_sema \in 0 .. 1
    /\ log_service_sema \in {"free", "service", "connection"}
    /\ cpc \in {"start", "down", "test", "copy", "argc", "up", "null", "count", "erase", "done"}
    /\ spc \in {"none", "start", "wait", "lock", "read", "act", "fallback", "clear", "prompt",
                "unlock", "release"}
    /\ npc \in {"idle", "print", "unlock"}
    /\ entered \in Seq(Seq(Nat \X Nat)) /\ ran \in 0 .. Len(entered)

(* The type invariant, its Boolean fields apart from the others. *)
LEMMA TypeParts == TypeOK <=> Flags /\ Others
BY Zenon DEF TypeOK, Flags, Others, Keys

(* The system starts in the inductive invariant. *)
LEMMA InitInv == Init => IInv
<1> SUFFICES ASSUME Init PROVE IInv
  OBVIOUS
<1>1. TypeOK
  <2>1. UARTLogBuf \in [1 .. BufLen -> Nat \X Nat]
    BY Buffers DEF Init
  <2>2. /\ prompt \in [Uart -> BOOLEAN] /\ line \in [Uart -> Nat]
          /\ keys \in [Uart -> 0 .. DataLen + 1]
        /\ setup \in Setups /\ begun \in Nat /\ BufCount \in 0 .. BufLen - 1
    BY LinesAssumption DEF Init, BufLen
  <2>3. /\ temp_buf \in Seq(Nat \X Nat) /\ log_buf \in Seq(Nat \X Nat) /\ cmd \in Seq(Nat \X Nat)
        /\ entered \in Seq(Seq(Nat \X Nat)) /\ ran \in 0 .. Len(entered)
    BY DEF Init
  <2>4. Flags
    BY Zenon DEF Init, Flags
  <2> QED
    BY <2>1, <2>2, <2>3, <2>4, TypeParts DEF Init, Others, Keys
<1>2. Started
  BY DEF Init, Started
<1>3. Resting
  BY DEF Init, Resting, Free, Between, AllRan, LogQuiet, AtQuiet, Uart
<1>4. ~spoiled
  BY DEF Init
<1> QED
  BY <1>1, <1>2, <1>3, <1>4 DEF IInv, Situation

-----------------------------------------------------------------------------
(* Each action leads from a situation to one.                              *)
Calm == TypeOK /\ Started /\ ~spoiled /\ Situation

(* With hosts of one type no line of the other type is typed. *)
LEMMA HostsAre ==
    OneTypes /\ TypeOK => /\ ~("log" \in setup.hosts /\ "at" \in setup.hosts)
                          /\ "at" \in setup.hosts => ~setup.messages
<1> SUFFICES ASSUME OneTypes, TypeOK
             PROVE  /\ ~("log" \in setup.hosts /\ "at" \in setup.hosts)
                    /\ "at" \in setup.hosts => ~setup.messages
  OBVIOUS
<1>1. \/ setup.hosts = {} \/ setup.hosts = {"log"} \/ (setup.hosts = {"at"} /\ ~setup.messages)
  BY Zenon DEF OneTypes, TypeOK
<1>2. CASE setup.hosts = {}
  BY <1>2
<1>3. CASE setup.hosts = {"log"}
  BY <1>3
<1>4. CASE setup.hosts = {"at"} /\ ~setup.messages
  BY <1>4
<1> QED
  BY <1>1, <1>2, <1>3, <1>4

(* The host of a situation is the only one. *)
LEMMA HostIs ==
    OneTypes /\ TypeOK => /\ "log" \in setup.hosts => setup.hosts = {"log"}
                          /\ "at" \in setup.hosts => setup.hosts = {"at"}
<1> SUFFICES ASSUME OneTypes, TypeOK
             PROVE  /\ "log" \in setup.hosts => setup.hosts = {"log"}
                    /\ "at" \in setup.hosts => setup.hosts = {"at"}
  OBVIOUS
<1>1. setup.hosts = {} \/ setup.hosts = {"log"} \/ setup.hosts = {"at"}
  BY Zenon DEF OneTypes, TypeOK
<1> QED
  BY <1>1

(* Typing and the interrupts of the UARTs lead from a situation to a       *)
(* situation.                                                              *)
LEMMA TypingSteps ==
    ASSUME OneTypes, Calm, (\E u \in Uart : Begin(u)) \/ Irq, ~AtRest
    PROVE  Situation'
<1> USE DEF Free, AllRan, Between, LogQuiet, AtQuiet
<1>0. TypeOK /\ Situation /\ Started /\ ~spoiled
  BY DEF Calm
<1>t. /\ line \in [Uart -> Nat] /\ keys \in [Uart -> 0 .. DataLen + 1] /\ begun \in Nat
      /\ entered \in Seq(Seq(Nat \X Nat)) /\ DataLen \in Nat \ {0} /\ prompt \in [Uart -> BOOLEAN]
      /\ "log" \in Uart /\ "at" \in Uart
  BY <1>0, LinesAssumption DEF TypeOK, Uart
<1>1. ASSUME NEW u \in Uart, Begin(u) PROVE Situation'
  <2>1. Resting
    BY <1>0, <1>1, HostsAre DEF Begin, ConsoleReady, Situation, Resting, LogTyping, AtTyping,
          AtSending, AtDropped, EmptyLine, Arriving, Handed, Finishing, Awaits, Uart
  <2>2. PICK n \in Nat \ {0} : n = begun + 1
    BY <1>t
  <2>3. /\ line'[u] = n /\ keys'[u] = 0 /\ \A v \in Uart \ {u} : line'[v] = line[v]
        /\ UNCHANGED <<setup, past, console, at, service, cpc, spc, history>>
        /\ u \in setup.hosts /\ at_ready
        /\ u = "log" => cpc = "down"
    BY <1>t, <1>1, <2>2 DEF Begin, ConsoleReady
  <2>4. CASE u = "log"
    <3>1. UARTLogBuf' = Filled(n, 0) /\ BufCount' = 0
      BY <2>1, <2>3, Buffers DEF console, Resting
    <3>2. LogTyping'
      BY <1>t, <2>1, <2>2, <2>3, <2>4, <3>1 DEF console, at, service, history, Resting, LogTyping
    <3> QED
      BY <3>2 DEF Situation
  <2>5. CASE u = "at"
    <3>1. temp_buf = Typed(n, 0)
      BY <2>1, <2>2, Typing DEF Resting
    <3>2. AtTyping'
      BY <1>t, <2>1, <2>2, <2>3, <2>5, <3>1 DEF console, at, service, history, Resting, AtTyping
    <3> QED
      BY <3>2 DEF Situation
  <2> QED
    BY <2>4, <2>5 DEF Uart
<1>2. CASE LogChar
  <2>1. LogTyping
    BY <1>0, <1>2 DEF LogChar, Situation, Resting, LogTyping, AtTyping, AtSending, AtDropped,
            EmptyLine,
          Arriving, Handed, Finishing
  <2>2. PICK n \in Nat \ {0}, i \in 1 .. 2 :
           n = line["log"] /\ i = keys["log"] + 1 /\ BufCount = i - 1
           /\ UARTLogBuf = Filled(n, i - 1)
    BY <1>t, <1>2, <2>1 DEF LogChar, LogTyping
  <2>3. BufCount < BufLen - 1 /\ BufCount + 1 = i
    BY <2>2 DEF BufLen
  <2>4. /\ BufCount' = i /\ UARTLogBuf' = [Filled(n, i - 1) EXCEPT ![i] = Char(n, i)]
        /\ keys' = [keys EXCEPT !["log"] = i]
        /\ UNCHANGED <<setup, line, past, ExecuteCmd, Sema, at, service, cpc, spc, history>>
    BY <2>2, <2>3 , <1>2, Zenon DEF LogChar
  <2>5. UARTLogBuf' = Filled(n, i)
    <3>1. i - 1 \in 0 .. 2 /\ (i - 1) + 1 = i
      OBVIOUS
    <3> QED
      BY <2>4, <3>1, Buffers
  <2>6. LogTyping'
    BY <1>t, <2>1, <2>2, <2>4, <2>5 DEF at, service, history, LogTyping
  <2> QED
    BY <2>6 DEF Situation
<1>3. ASSUME NEW u \in Uart, u \in setup.hosts, NEW text \in Seq(Nat \X Nat),
             entered' = Append(entered, text), ran = Len(entered),
             prompt' = [prompt EXCEPT ![u] = FALSE] \/ (prompt' = prompt /\ ~prompt[u]),
             UNCHANGED <<setup, ran>>
      PROVE  Awaits' /\ entered'[ran' + 1] = text
  <2>1. setup.hosts = {u}
    BY <1>0, <1>3, HostIs DEF Uart
  <2>2. ran' + 1 = Len(entered') /\ entered'[ran' + 1] = text
    BY <1>t, <1>3
  <2>3. ~prompt'[u]
    BY <1>t, <1>3, Zenon
  <2>4. \A v \in setup'.hosts : ~prompt'[v]
    BY <1>3, <2>1, <2>3, Zenon
  <2> QED
    BY <2>2, <2>4 DEF Awaits
<1>4. CASE LogEnter
  <2>1. LogTyping
    BY <1>0, <1>4 DEF LogEnter, Situation, Resting, LogTyping, AtTyping, AtSending, AtDropped,
            EmptyLine,
          Arriving, Handed, Finishing
  <2>2. /\ line' = [line EXCEPT !["log"] = 0] /\ UNCHANGED <<setup, ran>>
        /\ Awaits' /\ entered'[ran' + 1] = Typed(line["log"], 2)
    <3>1. Text("log", line["log"]) = Typed(line["log"], 2)
      BY DEF Text
    <3>2. Typed(line["log"], 2) \in Seq(Nat \X Nat)
      BY <1>t, Typing
    <3> QED
      BY <1>t, <1>3, <1>4, <2>1, <3>1, <3>2 DEF LogEnter, Finish, LogTyping
  <2>3. ExecuteCmd' /\ Sema' = 1 /\ UARTLogBuf' = Filled(line["log"], 2)
    <3>1. keys["log"] = 2 /\ EnterKey
      BY <1>4 DEF LogEnter
    <3>2. TaskRdy
      BY <1>0, <2>1, Zenon DEF Started, LogTyping
    <3> QED
      BY <2>1, <3>1, <3>2 DEF EnterKey, LogTyping
  <2>4. Arriving'
    BY <1>t, <1>4, <2>1, <2>2, <2>3 DEF LogEnter, at, service, LogTyping, Arriving
  <2> QED
    BY <2>4 DEF Situation
<1>5. CASE LogEnterEmpty
  <2>1. Resting
    BY <1>0, <1>5, HostsAre DEF LogEnterEmpty, ConsoleReady, Situation, Resting, LogTyping,
            AtTyping,
          AtSending, AtDropped, EmptyLine, Arriving, Handed, Finishing, Awaits
  <2>2. ExecuteCmd' /\ Sema' = 1 /\ cpc = "down"
    <3>1. cpc = "down" /\ EnterKey
      BY <1>5 DEF LogEnterEmpty, ConsoleReady
    <3>2. TaskRdy
      <4>1. cpc # "start"
        BY <3>1
      <4> QED
        BY <1>0, <4>1, Zenon DEF Started
    <3> QED
      BY <2>1, <3>1, <3>2 DEF EnterKey, Resting
  <2>3. EmptyLine'
    BY <1>5, <2>1, <2>2 DEF LogEnterEmpty, EnterKey, at, service, history, Resting, EmptyLine
  <2> QED
    BY <2>3 DEF Situation
<1>6. CASE AtChar
  <2>1. AtTyping
    BY <1>0, <1>6 DEF AtChar, Situation, Resting, LogTyping, AtTyping, AtSending, AtDropped,
            EmptyLine,
          Arriving, Handed, Finishing
  <2>2. PICK n \in Nat, k \in Nat : n = line["at"] /\ k = keys["at"]
    BY <1>t
  <2>3. /\ UNCHANGED <<setup, line, past, console, data_cmd, at_ready, service, cpc, spc, history>>
        /\ keys'["at"] = k + 1 /\ temp_buf' = Append(temp_buf, Char(n, k + 1))
    BY <1>t, <1>6, <2>2 DEF AtChar
  <2>4. temp_buf' = Typed(n, k + 1)
    BY <2>1, <2>2, <2>3, Typing DEF AtTyping
  <2>5. AtTyping'
    BY <2>1, <2>2, <2>3, <2>4 DEF console, service, history, AtTyping
  <2> QED
    BY <2>5 DEF Situation
<1>7. CASE AtColon
  <2>1. AtTyping
    BY <1>0, <1>7 DEF AtColon, Situation, Resting, LogTyping, AtTyping, AtSending, AtDropped,
            EmptyLine,
          Arriving, Handed, Finishing
  <2>2. /\ keys["at"] = 1 /\ temp_buf = Typed(line["at"], 1) /\ IsData(line["at"])
        /\ past' /\ prompt' = [prompt EXCEPT !["at"] = FALSE]
        /\ log_buf' = temp_buf /\ temp_buf' = <<>> /\ data_cmd'
        /\ UNCHANGED <<setup, line, keys, console, at_ready, log_rx_interrupt_sema, cpc, spc,
                history>>
    BY <1>7, <2>1 DEF AtColon, AtTyping
  <2>3. ~prompt'["at"] /\ 1 \in 1 .. DataLen
    BY <1>t, <2>2
  <2>4. AtSending'
    BY <2>1, <2>2, <2>3 DEF IsData, console, history, AtTyping, AtSending
  <2> QED
    BY <2>4 DEF Situation
<1>8. CASE AtData
  <2>1. AtSending
    BY <1>0, <1>8 DEF AtData, Situation, Resting, LogTyping, AtTyping, AtSending, AtDropped,
            EmptyLine,
          Arriving, Handed, Finishing
  <2>2. PICK n \in Nat \ {0}, k \in 1 .. DataLen : n = line["at"] /\ k = keys["at"]
    BY <1>t, <2>1 DEF AtSending
  <2>3. log_buf' = Typed(n, k + 1) /\ k \in Nat
    <3>1. k \in Nat /\ n \in Nat
      BY <1>t, <2>2
    <3>2. log_buf = Typed(n, k) /\ log_buf' = Append(log_buf, Char(n, k + 1))
      BY <1>8, <2>1, <2>2, Zenon DEF AtData, DataChar, AtSending
    <3> QED
      BY <3>1, <3>2, Typing
  <2>4. CASE k = DataLen
    <3>1. Text("at", n) = Typed(n, k + 1) /\ Typed(n, k + 1) \in Seq(Nat \X Nat)
      BY <2>1, <2>2, <2>4, Texts DEF AtSending, IsData
    <3>2. /\ line' = [line EXCEPT !["at"] = 0] /\ ~past' /\ ~data_cmd'
          /\ log_rx_interrupt_sema' = 1 /\ entered' = Append(entered, Typed(n, k + 1))
          /\ UNCHANGED <<setup, prompt, ran, console, temp_buf, at_ready, cpc, spc>>
      BY <1>8, <2>2, <2>4, <3>1 DEF AtData, TypeData, IsLast
    <3>3. Awaits' /\ entered'[ran' + 1] = Typed(n, k + 1)
      BY <1>t, <1>3, <2>1, <3>1, <3>2 DEF AtSending
    <3>4. Handed'
      BY <1>t, <2>1, <2>3, <3>2, <3>3 DEF console, AtSending, Handed
    <3> QED
      BY <3>4 DEF Situation
  <2>5. CASE k # DataLen
    <3>1. /\ line'["at"] = n /\ line'["log"] = line["log"] /\ keys'["at"] = k + 1 /\ past'
            /\ data_cmd'
          /\ UNCHANGED <<setup, prompt, entered, ran, console, temp_buf, at_ready,
                         log_rx_interrupt_sema, cpc, spc>>
      BY <1>t, <1>8, <2>2, <2>5 DEF AtData, TypeData, IsLast
    <3>2. k + 1 \in 1 .. DataLen
      BY <1>t, <2>2, <2>5
    <3>3. AtSending'
      BY <2>1, <2>2, <2>3, <3>1, <3>2 DEF console, AtSending, IsData
    <3> QED
      BY <3>3 DEF Situation
  <2> QED
    BY <2>4, <2>5
<1>9. CASE AtDataLate
  <2>1. AtSending
    BY <1>0, <1>9 DEF AtDataLate, Situation, Resting, LogTyping, AtTyping, AtSending, AtDropped,
            EmptyLine,
          Arriving, Handed, Finishing
  <2>2. /\ log_buf' = <<>> /\ ~data_cmd' /\ TypeData
        /\ UNCHANGED <<console, temp_buf, at_ready, log_rx_interrupt_sema, cpc, spc, history>>
    BY <1>9 DEF AtDataLate
  <2>3. CASE IsLast
    <3>1. Resting'
      BY <1>t, <2>1, <2>2, <2>3 DEF TypeData, console, history, AtSending, Resting
    <3> QED
      BY <3>1 DEF Situation
  <2>4. CASE ~IsLast
    <3>1. /\ line'["at"] = line["at"] /\ line'["log"] = line["log"] /\ past' /\ setup' = setup
          /\ keys'["at"] = keys["at"] + 1 /\ keys["at"] # DataLen
      BY <1>t, <2>2, <2>4 DEF TypeData, IsLast
    <3>2. keys'["at"] \in 1 .. DataLen
      BY <1>t, <2>1, <3>1 DEF AtSending
    <3>3. AtDropped'
      BY <2>1, <2>2, <3>1, <3>2 DEF IsData, console, history, AtSending, AtDropped
    <3> QED
      BY <3>3 DEF Situation
  <2> QED
    BY <2>3, <2>4
<1>10. CASE AtEnter
  <2>1. AtTyping
    BY <1>0, <1>10 DEF AtEnter, Situation, Resting, LogTyping, AtTyping, AtSending, AtDropped,
            EmptyLine,
          Arriving, Handed, Finishing
  <2>2. PICK n \in Nat, text \in Seq(Nat \X Nat) : n = line["at"] /\ text = Typed(n, 2)
    BY <1>t, Typing
  <2>3. Text("at", n) = text /\ temp_buf = text
    BY <1>10, <2>1, <2>2 DEF AtEnter, Text, AtLen, IsData, AtTyping
  <2>4. /\ line' = [line EXCEPT !["at"] = 0] /\ prompt' = [prompt EXCEPT !["at"] = FALSE]
        /\ log_buf' = text /\ log_rx_interrupt_sema' = 1 /\ temp_buf' = <<>>
        /\ entered' = Append(entered, text)
        /\ UNCHANGED <<setup, past, ran, console, data_cmd, at_ready, cpc, spc>>
    BY <1>10, <2>2, <2>3 DEF AtEnter, HandOver
  <2>5. Awaits' /\ entered'[ran' + 1] = text
    BY <1>t, <1>3, <2>1, <2>4 DEF AtTyping
  <2>6. Handed'
    BY <1>t, <2>1, <2>4, <2>5 DEF console, AtTyping, Handed
  <2> QED
    BY <2>6 DEF Situation
<1>11. CASE AtEnterEmpty
  <2>1. Resting
    BY <1>0, <1>11, HostsAre DEF AtEnterEmpty, Situation, Resting, LogTyping, AtTyping,
          AtSending, AtDropped, EmptyLine, Arriving, Handed, Finishing, Awaits
  <2>2. UNCHANGED <<setup, line, past, console, at, service, cpc, spc, history>>
    BY <1>11, <2>1 DEF AtEnterEmpty, Resting, at, service, history
  <2>3. Resting'
    BY <2>1, <2>2 DEF console, at, service, history, Resting
  <2> QED
    BY <2>3 DEF Situation
<1> QED
  BY <1>1, <1>2, <1>4, <1>5, <1>6, <1>7, <1>8, <1>9, <1>10, <1>11 DEF Irq

(* The rest of dropped data leads to a situation too, or goes astray.      *)
LEMMA RestStep ==
    ASSUME OneTypes, Calm, AtRest
    PROVE  IF spoiled' THEN Astray' ELSE Situation'
<1> USE DEF Free, AllRan, Between, LogQuiet, AtQuiet
<1>0. /\ TypeOK /\ Situation /\ ~spoiled
      /\ line \in [Uart -> Nat] /\ keys \in [Uart -> 0 .. DataLen + 1] /\ DataLen \in Nat \ {0}
      /\ "log" \in Uart /\ "at" \in Uart /\ ran \in Nat
  BY LinesAssumption DEF Calm, TypeOK, Uart
<1>1. AtDropped
  BY <1>0 DEF AtRest, Situation, Resting, LogTyping, AtTyping, AtSending, AtDropped, EmptyLine,
        Arriving, Handed, Finishing
<1>2. /\ TypeData /\ UNCHANGED <<ran, console, data_cmd, at_ready, cpc, spc>>
  BY DEF AtRest
<1>3. ~IsLast => /\ line'["at"] = line["at"] /\ past'
                 /\ keys'["at"] \in 1 .. DataLen
  <2> SUFFICES ASSUME ~IsLast
               PROVE  line'["at"] = line["at"] /\ past' /\ keys'["at"] \in 1 .. DataLen
    OBVIOUS
  <2>1. line'["at"] = line["at"] /\ past' /\ keys'["at"] = keys["at"] + 1
    BY <1>0, <1>2 DEF TypeData
  <2>2. keys["at"] \in 1 .. DataLen /\ keys["at"] # DataLen
    BY <1>1 DEF IsLast, AtDropped
  <2> QED
    BY <1>0, <2>1, <2>2
<1>4. IsLast => line'["at"] = 0 /\ ~past'
  BY <1>0, <1>2 DEF TypeData
<1>5. line'["log"] = line["log"] /\ setup' = setup
  BY <1>0, <1>2 DEF TypeData
<1>6. \/ UNCHANGED <<temp_buf, log_buf, log_rx_interrupt_sema, entered, spoiled>>
      \/ spoiled' /\ UNCHANGED <<log_buf, log_rx_interrupt_sema, entered>>
  BY <1>1 DEF AtRest, AtDropped
<1>7. CASE UNCHANGED <<temp_buf, log_buf, log_rx_interrupt_sema, entered, spoiled>>
  <2>1. IsLast => Resting'
    BY <1>1, <1>2, <1>4, <1>5, <1>7 DEF console, AtDropped, Resting
  <2>2. ~IsLast => AtDropped'
    BY <1>1, <1>2, <1>3, <1>5, <1>7 DEF IsData, console, AtDropped
  <2> QED
    BY <1>0, <1>7, <2>1, <2>2 DEF Situation
<1>8. CASE spoiled' /\ UNCHANGED <<log_buf, log_rx_interrupt_sema, entered>>
  <2>1. Astray'
    BY <1>0, <1>1, <1>2, <1>3, <1>4, <1>5, <1>8 DEF IsData, console, AtDropped, Astray
  <2> QED
    BY <1>8, <2>1
<1> QED
  BY <1>6, <1>7, <1>8

(* So do the steps of the console task and of its AT ready callback. *)
LEMMA ConsoleSteps ==
    ASSUME OneTypes, Calm, AtReady \/ ConsoleTask
    PROVE  Situation'
<1> USE DEF Free, AllRan, Between, LogQuiet, AtQuiet
<1>1. CASE AtReady
  <2>1. Resting
    BY <1>1 DEF Calm, Started, AtReady, Situation, Resting, LogTyping, AtTyping, AtSending,
            AtDropped, EmptyLine, Arriving,
          Handed, Finishing
  <2>2. Resting'
    BY <1>1, <2>1 DEF Calm, Started, AtReady, console, service, history, Resting
  <2> QED
    BY <2>2 DEF Situation
<1>2. CASE CStart
  <2>1. Resting
    BY <1>2 DEF Calm, Started, CStart, Situation, Resting, LogTyping, AtTyping, AtSending,
            AtDropped, EmptyLine, Arriving,
          Handed, Finishing
  <2>2. Resting'
    BY <1>2, <2>1 DEF Calm, Started, CStart, hosts, at, service, history, Resting
  <2> QED
    BY <2>2 DEF Situation
<1>3. ASSUME CDown \/ CTest \/ CCopy \/ CArgc \/ CUp \/ CNull \/ CCount \/ CErase \/ CDone
      PROVE  EmptyLine \/ Arriving \/ Handed
  BY <1>3 DEF CDown, CTest, CCopy, CArgc, CUp, CNull, CCount, CErase, CDone, Calm, Situation,
          Resting,
        LogTyping, AtTyping, AtSending, AtDropped, Finishing
<1>4. ASSUME EmptyLine, CDown \/ CTest PROVE EmptyLine'
  <2>1. CASE CDown
    BY <1>4, <2>1 DEF CDown, hosts, at, service, history, EmptyLine
  <2>2. CASE CTest
    BY <1>4, <2>2 DEF CTest, hosts, console, at, service, history, EmptyLine
  <2> QED
    BY <1>4, <2>1, <2>2
<1>5. ASSUME EmptyLine, CCopy PROVE EmptyLine'
  <2>1. CString(UARTLogBuf) = <<>>
    BY <1>5, Copied DEF EmptyLine
  <2> QED
    BY <1>5, <2>1 DEF CCopy, hosts, console, at, service, history, EmptyLine
<1>6. ASSUME EmptyLine, CArgc \/ CNull PROVE EmptyLine'
  <2>1. CASE CArgc
    BY <1>6, <2>1, Buffers DEF CArgc, hosts, console, at, service, history, EmptyLine
  <2>2. CASE CNull
    BY <1>6, <2>2 DEF CNull, console, at, service, history, EmptyLine
  <2> QED
    BY <1>6, <2>1, <2>2
<1>7. ASSUME EmptyLine, CCount \/ CErase PROVE EmptyLine'
  <2>1. CASE CCount
    BY <1>7, <2>1 DEF CCount, hosts, at, service, history, EmptyLine
  <2>2. CASE CErase
    BY <1>7, <2>2 DEF CErase, hosts, at, service, history, EmptyLine
  <2> QED
    BY <1>7, <2>1, <2>2
<1>8. ASSUME EmptyLine, CDone PROVE Resting'
  BY <1>8 DEF CDone, hosts, at, service, history, EmptyLine, Resting
<1>9. ASSUME EmptyLine PROVE ~CUp
  BY <1>9 DEF CUp, EmptyLine
<1>10. ASSUME Arriving, CDown \/ CTest PROVE Arriving'
  <2>1. CASE CDown
    BY <1>10, <2>1 DEF CDown, hosts, at, service, history, Arriving, Awaits
  <2>2. CASE CTest
    BY <1>10, <2>2 DEF CTest, hosts, console, at, service, history, Arriving, Awaits
  <2> QED
    BY <1>10, <2>1, <2>2
<1>11. ASSUME Arriving, CCopy PROVE Arriving'
  <2>1. PICK n \in Nat \ {0} : entered[ran + 1] = Typed(n, 2) /\ UARTLogBuf = Filled(n, 2)
    BY <1>11 DEF Arriving
  <2>2. CString(UARTLogBuf) = entered[ran + 1]
    BY <2>1, Copied
  <2> QED
    BY <1>11, <2>2 DEF CCopy, hosts, console, at, history, Arriving, Awaits
<1>12. ASSUME Arriving, CArgc PROVE Arriving'
  <2>1. PICK n \in Nat \ {0} : UARTLogBuf = Filled(n, 2)
    BY <1>12 DEF Arriving
  <2>2. UARTLogBuf[1] # Nul
    BY <2>1, Buffers
  <2> QED
    BY <1>12, <2>2 DEF CArgc, hosts, console, at, service, history, Arriving, Awaits
<1>13. ASSUME Arriving, CUp PROVE Handed'
  BY <1>13 DEF CUp, hosts, console, at, history, Arriving, Handed, Awaits
<1>14. ASSUME Arriving PROVE ~CNull /\ ~CCount /\ ~CErase /\ ~CDone
  BY <1>14 DEF CNull, CCount, CErase, CDone, Arriving
<1>15. ASSUME Handed, CCount \/ CErase PROVE Handed'
  <2>1. CASE CCount
    BY <1>15, <2>1 DEF CCount, hosts, at, service, history, Handed, Awaits
  <2>2. CASE CErase
    BY <1>15, <2>2 DEF CErase, hosts, at, service, history, Handed, Awaits
  <2> QED
    BY <1>15, <2>1, <2>2
<1>16. ASSUME Handed, CDone PROVE Handed'
  BY <1>16 DEF CDone, hosts, at, service, history, Handed, Awaits
<1>17. ASSUME Handed PROVE ~CDown /\ ~CTest /\ ~CCopy /\ ~CArgc /\ ~CUp /\ ~CNull
  BY <1>17 DEF CDown, CTest, CCopy, CArgc, CUp, CNull, Handed
<1> QED
  BY <1>1, <1>2, <1>3, <1>4, <1>5, <1>6, <1>7, <1>8, <1>9, <1>10, <1>11, <1>12, <1>13, <1>14,
     <1>15, <1>16, <1>17, Zenon DEF ConsoleTask, Situation

(* So do those of the command and connection tasks. *)
LEMMA CommandSteps ==
    ASSUME OneTypes, Calm, CommandTask \/ ConnectionTask \/ UNCHANGED vars
    PROVE  Situation'
<1> USE DEF Calm, Started, Free, AllRan, Between, LogQuiet, AtQuiet
<1>1. CASE SStart
  <2>1. Resting
    BY <1>1 DEF SStart, SGoto, Situation, Resting, LogTyping, AtTyping, AtSending, AtDropped,
            EmptyLine,
          Arriving, Handed, Finishing
  <2>2. Resting'
    BY <1>1, <2>1 DEF SStart, SGoto, console, at, service, history, Resting
  <2> QED
    BY <2>2 DEF Situation
<1>2. ASSUME SWait \/ SLock \/ SRead \/ SRun PROVE Handed
  BY <1>2 DEF SWait, SLock, SRead, SRun, SGoto, Situation, Resting, LogTyping, AtTyping,
        AtSending, AtDropped, EmptyLine, Arriving, Finishing
<1>3. CASE SWait
  <2>1. Handed'
    BY <1>2, <1>3 DEF SWait, SGoto, ConsoleReady, hosts, console, at, history, Handed, Awaits
  <2> QED
    BY <2>1 DEF Situation
<1>4. CASE SLock
  <2>1. Handed'
    BY <1>2, <1>4 DEF SLock, SGoto, hosts, console, at, history, Handed, Awaits
  <2> QED
    BY <2>1 DEF Situation
<1>5. CASE SRead
  <2>1. Handed'
    BY <1>2, <1>5 DEF SRead, SGoto, hosts, console, at, history, Handed, Awaits
  <2> QED
    BY <2>1 DEF Situation
<1>6. CASE SRun
  <2>1. Finishing'
    BY <1>2, <1>6 DEF SRun, SGoto, hosts, console, at, service, Handed, Awaits, Finishing
  <2> QED
    BY <2>1 DEF Situation
<1>7. ASSUME SClear \/ SPrompt PROVE Finishing
  BY <1>7 DEF SClear, SPrompt, SGoto, Situation, Resting, LogTyping, AtTyping, AtSending, AtDropped,
        EmptyLine, Arriving, Handed
<1>8. CASE SClear
  <2>1. Finishing'
    BY <1>7, <1>8 DEF SClear, SGoto, hosts, console, at, history, Finishing
  <2> QED
    BY <2>1 DEF Situation
<1>9. CASE SPrompt
  <2>1. Resting'
    BY <1>7, <1>9 DEF SPrompt, SGoto, console, at, service, history, Finishing, Resting
  <2> QED
    BY <2>1 DEF Situation
<1>10. ASSUME \/ SUnlock
              \/ SRelease
       PROVE  Situation'
  <2>1. /\ spc \in {"unlock", "release"} /\ spc' \in {"release", "wait"}
        /\ UNCHANGED <<hosts, console, at, log_buf, log_rx_interrupt_sema, cmd, cpc, npc, history>>
    BY <1>10 DEF SUnlock, SRelease, SGoto, hosts, console, at, service, history
  <2>2. ~Finishing
    BY <2>1 DEF Finishing
  <2>3. Resting => Resting'
    BY <2>1 DEF hosts, console, at, history, Resting
  <2>4. LogTyping => LogTyping'
    BY <2>1 DEF hosts, console, at, history, LogTyping
  <2>5. AtTyping => AtTyping'
    BY <2>1 DEF hosts, console, at, history, AtTyping
  <2>6. (AtSending => AtSending') /\ (AtDropped => AtDropped')
    BY <2>1 DEF IsData, hosts, console, at, history, AtSending, AtDropped
  <2>7. EmptyLine => EmptyLine'
    BY <2>1 DEF hosts, console, at, history, EmptyLine
  <2>8. Arriving => Arriving'
    BY <2>1 DEF hosts, console, at, history, Arriving, Awaits
  <2>9. Handed => Handed'
    BY <2>1 DEF hosts, console, at, history, Handed, Awaits
  <2> QED
    BY <2>2, <2>3, <2>4, <2>5, <2>6, <2>7, <2>8, <2>9 DEF Situation
<1>11. ASSUME \/ ConnectionTask
              \/ UNCHANGED vars
       PROVE  Situation'
  <2>1. /\ UNCHANGED <<setup, line, keys, past, begun, console, at, log_buf,
          log_rx_interrupt_sema, cmd,
                       cpc, spc, history>>
        /\ \A u \in setup.hosts : prompt'[u] = prompt[u]
    <3>1. CASE NPrint
      <4>1. "at" \notin setup.hosts
        BY <3>1, HostsAre DEF NPrint, NGoto
      <4>2. \A u \in setup.hosts : u \in Uart
        BY SetupsAssumption DEF TypeOK
      <4> QED
        BY <3>1, <4>1, <4>2 DEF NPrint, console, at, service, history, Uart, TypeOK
    <3>2. CASE NLock \/ NUnlock \/ UNCHANGED vars
      BY <3>2 DEF NLock, NUnlock, vars, hosts, console, at, service, history
    <3> QED
      BY <1>11, <3>1, <3>2 DEF ConnectionTask
  <2>2. Resting => Resting'
    BY <2>1 DEF console, at, history, Resting
  <2>3. LogTyping => LogTyping'
    BY <2>1 DEF console, at, history, LogTyping
  <2>4. AtTyping => AtTyping'
    BY <2>1 DEF console, at, history, AtTyping
  <2>5. (AtSending => AtSending') /\ (AtDropped => AtDropped')
    BY <2>1 DEF IsData, console, at, history, AtSending, AtDropped
  <2>6. EmptyLine => EmptyLine'
    BY <2>1 DEF console, at, history, EmptyLine
  <2>7. Arriving => Arriving'
    BY <2>1 DEF console, at, history, Arriving, Awaits
  <2>8. Handed => Handed'
    BY <2>1 DEF console, at, history, Handed, Awaits
  <2>9. Finishing => Finishing'
    BY <2>1 DEF console, at, history, Finishing
  <2> QED
    BY <2>2, <2>3, <2>4, <2>5, <2>6, <2>7, <2>8, <2>9 DEF Situation
<1> QED
  BY <1>1, <1>3, <1>4, <1>5, <1>6, <1>8, <1>9, <1>10, <1>11 DEF CommandTask

(* Only AtRest takes up data of a dropped command. *)
LEMMA SpoiledStep == [Next]_vars /\ ~AtRest => spoiled' = spoiled
BY DEF Next, Begin, Irq, LogChar, LogEnter, Finish, LogEnterEmpty, AtChar, AtColon, AtData,
       AtDataLate, AtEnter, AtEnterEmpty, AtReady, ConsoleTask, CStart, CDown, CTest, CCopy, CArgc,
       CUp, CNull, CCount, CErase, CDone, CommandTask, SStart, SWait, SLock, SRead, SRun, SClear,
       SPrompt, SUnlock, SRelease, ConnectionTask, NLock, NPrint, NUnlock, history, vars

(* Once such data went astray, nothing but the host of the AT UART and the *)
(* command task does anything.                                             *)
LEMMA AstrayStep ==
    ASSUME OneTypes, TypeOK, Started, spoiled, Astray, [Next]_vars
    PROVE  spoiled' /\ Astray'
<1> USE DEF LogQuiet
<1>0. /\ line \in [Uart -> Nat] /\ keys \in [Uart -> 0 .. DataLen + 1] /\ DataLen \in Nat \ {0}
      /\ "log" \in Uart /\ "at" \in Uart /\ ran \in Nat /\ log_rx_interrupt_sema \in 0 .. 1
      /\ entered \in Seq(Seq(Nat \X Nat)) /\ setup.hosts = {"at"} /\ ~setup.messages
  BY LinesAssumption, HostsAre, HostIs DEF TypeOK, Uart, Astray
<1>1. spoiled'
  <2>1. AtRest => spoiled'
    BY Zenon DEF AtRest
  <2> QED
    BY <2>1, SpoiledStep, Zenon
<1>2. cpc = "down" /\ Sema = 0 /\ npc = "idle" /\ spc # "start"
  BY <1>0 DEF Started, Astray
<1>3. ~AtReady /\ ~ConsoleTask
  BY <1>2 DEF Astray, AtReady, ConsoleTask, CStart, CDown, CTest, CCopy, CArgc, CUp, CNull,
          CCount, CErase,
        CDone
<1>4. ~ConnectionTask /\ ~LogChar /\ ~LogEnter /\ ~LogEnterEmpty
  BY <1>0, <1>2 DEF Astray, ConnectionTask, NLock, NPrint, NUnlock, NGoto, LogChar, LogEnter,
          LogEnterEmpty
<1>5. ASSUME NEW u \in Uart, Begin(u) PROVE Astray'
  <2>1. u = "at"
    BY <1>0, <1>5 DEF Begin
  <2> QED
    BY <1>0, <1>5, <2>1 DEF Begin, console, at, service, history, Astray
<1>6. CASE AtChar
  BY <1>0, <1>6 DEF AtChar, console, service, history, Astray
<1>7. CASE AtColon
  <2>1. 1 \in 1 .. DataLen
    BY <1>0
  <2> QED
    BY <1>0, <1>7, <2>1 DEF AtColon, IsData, console, history, Astray
<1>8. ASSUME TypeData, past
      PROVE  /\ past' => line'["at"] # 0 /\ line'["at"] \in Data /\ keys'["at"] \in 1 .. DataLen
             /\ line'["log"] = line["log"] /\ setup' = setup
  <2>1. line["at"] # 0 /\ line["at"] \in Data /\ keys["at"] \in 1 .. DataLen
    BY <1>8 DEF Astray, IsData
  <2>2. CASE IsLast
    BY <1>0, <1>8, <2>2 DEF TypeData
  <2>3. CASE ~IsLast
    BY <1>0, <1>8, <2>1, <2>3 DEF TypeData, IsLast
  <2> QED
    BY <2>2, <2>3
<1>9. ASSUME TypeData, past, UNCHANGED <<console, at_ready, cpc, spc, ran>>,
             \/ UNCHANGED <<log_rx_interrupt_sema, entered>>
             \/ /\ log_rx_interrupt_sema' = 1
                /\ \E text \in Seq(Nat \X Nat) : entered' = Append(entered, text)
      PROVE  Astray'
  <2>1. /\ ran' + log_rx_interrupt_sema' <= Len(entered')
        /\ spc' \in {"lock", "read", "act", "fallback"}
                => ran' + log_rx_interrupt_sema' < Len(entered')
    BY <1>0, <1>9 DEF Astray
  <2> QED
    BY <1>8, <1>9, <2>1 DEF console, IsData, Astray
<1>10. CASE AtData
  <2>1. Text("at", line["at"]) \in Seq(Nat \X Nat)
    BY <1>0, Texts
  <2> QED
    BY <1>9, <1>10, <2>1 DEF AtData
<1>11. CASE AtDataLate
  BY <1>9, <1>11 DEF AtDataLate, history
<1>12. CASE AtRest
  <2>1. temp_buf \in Seq(Nat \X Nat)
    BY DEF TypeOK
  <2> QED
    BY <1>9, <1>12, <2>1 DEF AtRest, HandOver
<1>13. ASSUME NEW text \in Seq(Nat \X Nat), HandOver(text), UNCHANGED <<setup, keys, past,
        console, at_ready, cpc, spc, ran>>,
              line' = line \/ (line' = [line EXCEPT !["at"] = 0] /\ ~past)
       PROVE  Astray'
  <2>1. /\ ran' + log_rx_interrupt_sema' <= Len(entered')
        /\ spc' \in {"lock", "read", "act", "fallback"}
                => ran' + log_rx_interrupt_sema' < Len(entered')
    BY <1>0, <1>13 DEF HandOver, Astray
  <2>2. line'["log"] = 0 /\ (past' => line' = line)
    BY <1>0, <1>13 DEF Astray
  <2> QED
    BY <1>13, <2>1, <2>2 DEF console, IsData, Astray
<1>14. CASE AtEnter
  <2>1. Text("at", line["at"]) \in Seq(Nat \X Nat)
    BY <1>0, Texts
  <2>2. ~past
    BY <1>14 DEF AtEnter, Astray
  <2> QED
    BY <1>13, <1>14, <2>1, <2>2 DEF AtEnter
<1>15. CASE AtEnterEmpty
  <2>1. temp_buf \in Seq(Nat \X Nat)
    BY DEF TypeOK
  <2>2. CASE temp_buf # <<>>
    BY <1>13, <1>15, <2>1, <2>2 DEF AtEnterEmpty
  <2>3. CASE temp_buf = <<>>
    BY <1>15, <2>3 DEF AtEnterEmpty, IsData, console, Astray
  <2> QED
    BY <2>2, <2>3
<1>16. CASE CommandTask
  <2>1. ~SStart /\ UNCHANGED <<setup, line, keys, past, console, at_ready, cpc, entered>>
    BY <1>2, <1>16 DEF CommandTask, SStart, SWait, SLock, SRead, SRun, SClear, SPrompt, SUnlock,
            SRelease,
          SGoto, hosts, console, at, history
  <2>2. /\ ran' + log_rx_interrupt_sema' <= Len(entered')
        /\ spc' \in {"lock", "read", "act", "fallback"}
                => ran' + log_rx_interrupt_sema' < Len(entered')
    <3>1. CASE SWait
      BY <1>0, <3>1 DEF SWait, SGoto, history, Astray
    <3>2. CASE SLock
      BY <1>0, <3>2 DEF SLock, SGoto, history, Astray
    <3>3. CASE SRead
      BY <1>0, <3>3 DEF SRead, SGoto, history, Astray
    <3>4. CASE SRun
      BY <1>0, <3>4 DEF SRun, SGoto, service, Astray
    <3>5. CASE SClear
      BY <1>0, <3>5 DEF SClear, SGoto, history, Astray
    <3>6. CASE SPrompt \/ SUnlock \/ SRelease
      BY <1>0, <3>6 DEF SPrompt, SUnlock, SRelease, SGoto, service, history, Astray
    <3> QED
      BY <1>16, <2>1, <3>1, <3>2, <3>3, <3>4, <3>5, <3>6 DEF CommandTask
  <2> QED
    BY <1>1, <2>1, <2>2 DEF console, IsData, Astray
<1>17. CASE UNCHANGED vars
  BY <1>17 DEF vars, hosts, console, at, service, history, IsData, Astray
<1> QED
  BY <1>1, <1>3, <1>4, <1>5, <1>6, <1>7, <1>10, <1>11, <1>12, <1>14, <1>15, <1>16, <1>17 DEF Next,
          Irq

(* Every step leads from a situation to a situation, or astray. *)
LEMMA SituationStep ==
    ASSUME OneTypes, IInv, [Next]_vars
    PROVE  IF spoiled' THEN Astray' ELSE Situation'
<1>1. CASE spoiled
  BY <1>1, AstrayStep DEF IInv
<1>2. CASE ~spoiled
  <2>1. Calm
    BY <1>2 DEF IInv, Calm
  <2>2. CASE AtRest
    BY <2>1, <2>2, RestStep
  <2>3. CASE ~AtRest
    <3>1. Situation'
      BY <2>1, <2>3, TypingSteps, ConsoleSteps, CommandSteps DEF Next
    <3>2. ~spoiled'
      BY <1>2, <2>3, SpoiledStep, Zenon
    <3> QED
      BY <3>1, <3>2
  <2> QED
    BY <2>2, <2>3
<1> QED
  BY <1>1, <1>2

(* No step undoes what the start of the tasks has set. *)
LEMMA StartedStep ==
    ASSUME OneTypes, IInv, [Next]_vars
    PROVE  Started'
<1>1. /\ (cpc = "start") = (spc = "none") /\ TaskRdy = (cpc # "start")
      /\ at_ready => spc \notin {"none", "start"}
      /\ npc # "idle" => setup.messages
  BY DEF IInv, Started
<1>2. setup' = setup
  BY DEF Next, Begin, Irq, LogChar, LogEnter, Finish, LogEnterEmpty, AtChar, AtColon, AtData,
         AtDataLate, AtRest, TypeData, AtEnter, AtEnterEmpty, AtReady, ConsoleTask, CStart, CDown,
                 CTest, CCopy, CArgc,
         CUp, CNull, CCount, CErase, CDone, CommandTask, SStart, SWait, SLock, SRead, SRun, SClear,
         SPrompt, SUnlock, SRelease, ConnectionTask, NLock, NPrint, NUnlock, hosts, vars
<1>3. ASSUME UNCHANGED <<TaskRdy, at_ready>>, (cpc' = "start") <=> (cpc = "start"),
             (spc' = "none") <=> (spc = "none"), at_ready => spc' \notin {"none", "start"},
             npc' # "idle" => setup.messages
      PROVE  Started'
  <2>1. (cpc' = "start") = (spc' = "none") /\ TaskRdy' = (cpc' # "start")
    BY <1>1, <1>3, Zenon
  <2>2. (at_ready' => spc' \notin {"none", "start"}) /\ (npc' # "idle" => setup'.messages)
    BY <1>2, <1>3, Zenon
  <2> QED
    BY <2>1, <2>2, Zenon DEF Started
<1>4. CASE CStart
  <2>1. cpc' # "start" /\ spc' # "none" /\ spc = "none" /\ cpc' = "down" /\ spc' = "start"
    BY <1>1, <1>4 DEF CStart
  <2>2. TaskRdy' = TRUE /\ at_ready' = at_ready /\ npc' = npc
    BY <1>4 DEF CStart, at
  <2>3. (cpc' = "start") = (spc' = "none") /\ TaskRdy' = (cpc' # "start")
    BY <2>1, <2>2, Zenon
  <2>4. ~at_ready
    BY <1>1, <2>1
  <2>5. (at_ready' => spc' \notin {"none", "start"}) /\ (npc' # "idle" => setup'.messages)
    BY <1>1, <1>2, <2>2, <2>4, Zenon
  <2> QED
    BY <2>3, <2>5, Zenon DEF Started
<1>5. ASSUME CDown \/ CTest \/ CCopy \/ CArgc \/ CUp \/ CNull \/ CCount \/ CErase \/ CDone
      PROVE  Started'
  <2>1. cpc # "start" /\ cpc' # "start" /\ UNCHANGED <<TaskRdy, at_ready, spc, npc>>
    BY <1>5 DEF CDown, CTest, CCopy, CArgc, CUp, CNull, CCount, CErase, CDone, console, at
  <2> QED
    BY <1>1, <1>3, <2>1
<1>6. CASE CommandTask
  <2>1. /\ spc # "none" /\ spc' # "none" /\ spc' # "start"
        /\ UNCHANGED <<TaskRdy, at_ready, cpc, npc>>
    BY <1>6 DEF CommandTask, SStart, SWait, SLock, SRead, SRun, SClear, SPrompt, SUnlock, SRelease,
          SGoto, console, at
  <2> QED
    BY <1>1, <1>3, <2>1
<1>7. CASE AtReady
  <2>1. at_ready' = TRUE /\ spc = "wait" /\ UNCHANGED <<TaskRdy, cpc, spc, npc>>
    BY <1>7 DEF AtReady, console
  <2>2. (at_ready' => spc' \notin {"none", "start"}) /\ (npc' # "idle" => setup'.messages)
    BY <1>1, <1>2, <2>1
  <2>3. (cpc' = "start") = (spc' = "none") /\ TaskRdy' = (cpc' # "start")
    BY <1>1, <2>1, Zenon
  <2> QED
    BY <2>2, <2>3, Zenon DEF Started
<1>8. CASE ConnectionTask
  <2>1. UNCHANGED <<TaskRdy, at_ready, cpc, spc>> /\ setup.messages
    BY <1>1, <1>8 DEF ConnectionTask, NLock, NPrint, NUnlock, NGoto, console, at
  <2> QED
    BY <1>1, <1>3, <2>1
<1>9. ASSUME (\E u \in Uart : Begin(u)) \/ Irq \/ UNCHANGED vars PROVE Started'
  <2>1. UNCHANGED <<TaskRdy, at_ready, cpc, spc, npc>>
    BY <1>9 DEF Begin, Irq, LogChar, LogEnter, EnterKey, LogEnterEmpty, AtChar, AtColon, AtData,
           AtDataLate, AtRest, AtEnter, AtEnterEmpty, console, at, vars
  <2> QED
    BY <1>1, <1>3, <2>1
<1> QED
  BY <1>4, <1>5, <1>6, <1>7, <1>8, <1>9 DEF Next, ConsoleTask

(* Every step keeps the types. *)
LEMMA TypeStep ==
    ASSUME OneTypes, IInv, [Next]_vars
    PROVE  TypeOK'
<1>1. Flags /\ Others
  BY TypeParts DEF IInv
<1>k. 0 \in Keys
  BY LinesAssumption DEF Keys
<1>0. Flags' /\ Others' => TypeOK'
  BY Zenon DEF TypeOK, Flags, Others, Keys
<1>2. CASE UNCHANGED vars
  <2>1. Flags'
    BY <1>1, <1>2, Zenon DEF vars, hosts, console, at, history, Flags
  <2>2. Others'
    BY <1>1, <1>2 DEF vars, hosts, console, at, service, history, Others
  <2> QED
    BY <1>0, <2>1, <2>2
<1>3. ASSUME Next PROVE Flags'
  BY <1>1, <1>3, Zenon
     DEF Next, Begin, Irq, LogChar, LogEnter, EnterKey, Finish, LogEnterEmpty, AtChar, AtColon,
         AtData, AtDataLate, AtRest, TypeData, AtEnter, AtEnterEmpty, AtReady, ConsoleTask,
                 CStart, CDown, CTest,
         CCopy, CArgc, CUp, CNull, CCount, CErase, CDone, CommandTask, SStart, SWait, SLock, SRead,
         SRun, SClear, SPrompt, SUnlock, SRelease, ConnectionTask, NLock, NPrint, NUnlock, hosts,
                 console,
         at, history, Flags
<1>4. ASSUME (\E u \in Uart : Begin(u)) \/ LogChar \/ LogEnter \/ LogEnterEmpty PROVE Others'
  <2>1. CASE \E u \in Uart : Begin(u)
    BY <1>1, <1>k, <2>1 DEF Begin, console, at, service, history, Others
  <2>2. CASE LogChar
    <3>1. PICK n \in Nat, i \in 1 .. 2 : n = line["log"] /\ i = keys["log"] + 1
      <4>1. line["log"] \in Nat /\ keys["log"] \in Nat
        BY <1>1, LinesAssumption DEF Uart, Keys, Others
      <4>2. keys["log"] + 1 <= 2
        BY <2>2 DEF LogChar
      <4> QED
        BY <4>1, <4>2
    <3>2. Char(n, i) \in Nat \X Nat
      BY DEF Char
    <3>3. /\ UARTLogBuf' \in [1 .. BufLen -> Nat \X Nat] /\ BufCount' \in 0 .. BufLen - 1
          /\ keys' \in [Uart -> Keys]
      <4>1. keys' \in [Uart -> Keys]
        <5>1. /\ keys' = [keys EXCEPT !["log"] = i] /\ keys \in [Uart -> Keys]
              /\ i \in Keys
          BY <1>1, <2>2, <3>1, LinesAssumption DEF LogChar, Others, Keys
        <5> QED
          BY <5>1
      <4>2. CASE BufCount < BufLen - 1
        <5>1. /\ UARTLogBuf' = [UARTLogBuf EXCEPT ![BufCount + 1] = Char(n, i)]
              /\ BufCount' = BufCount + 1
          BY <2>2, <3>1, <4>2 DEF LogChar
        <5>2. UARTLogBuf' \in [1 .. BufLen -> Nat \X Nat]
          BY <1>1, <3>2, <5>1 DEF Others
        <5>3. BufCount' \in 0 .. BufLen - 1
          BY <1>1, <4>2, <5>1 DEF BufLen, Others
        <5> QED
          BY <4>1, <5>2, <5>3
      <4>3. CASE ~(BufCount < BufLen - 1)
        <5>1. UNCHANGED <<UARTLogBuf, BufCount>>
          BY <2>2, <4>3 DEF LogChar
        <5>2. UARTLogBuf' \in [1 .. BufLen -> Nat \X Nat] /\ BufCount' \in 0 .. BufLen - 1
          BY <1>1, <5>1 DEF Others
        <5> QED
          BY <4>1, <5>2
      <4> QED
        BY <4>2, <4>3
    <3> QED
      BY <1>1, <2>2, <3>3 DEF LogChar, at, service, history, Others
  <2>3. CASE LogEnter
    <3>1. Text("log", line["log"]) \in Seq(Nat \X Nat)
      BY <1>1, Texts DEF Uart, Others
    <3> QED
      BY <1>1, <2>3, <3>1 DEF LogEnter, EnterKey, Finish, Uart, at, service, Others
  <2>4. CASE LogEnterEmpty
    BY <1>1, <2>4 DEF LogEnterEmpty, EnterKey, Uart, at, service, history, Others
  <2> QED
    BY <1>4, <2>1, <2>2, <2>3, <2>4
<1>5. ASSUME AtChar \/ AtColon \/ AtData \/ AtDataLate \/ AtRest \/ AtEnter \/ AtEnterEmpty
      PROVE  Others'
  <2>0. /\ line["at"] \in Nat /\ keys["at"] \in Keys /\ DataLen \in Nat \ {0}
        /\ Char(line["at"], keys["at"] + 1) \in Nat \X Nat
        /\ Text("at", line["at"]) \in Seq(Nat \X Nat) /\ Colon \in Nat \X Nat
    <3>1. line["at"] \in Nat /\ keys["at"] \in Keys /\ DataLen \in Nat \ {0}
            /\ keys["at"] + 1 \in Nat
      BY <1>1, LinesAssumption DEF Uart, Keys, Others
    <3> QED
      BY <3>1, Typing, Texts DEF Colon
  <2>1. CASE AtChar
    <3>1. keys["at"] + 1 \in Keys
      BY <2>0, <2>1 DEF AtChar, Keys
    <3> QED
      BY <1>1, <2>0, <2>1, <3>1 DEF AtChar, Uart, console, service, history, Others
  <2>2. CASE AtColon
    <3>1. /\ prompt' = [prompt EXCEPT !["at"] = TRUE] \/ prompt' = [prompt EXCEPT !["at"] = FALSE]
          /\ temp_buf' = <<>> \/ temp_buf' = Append(temp_buf, Colon)
          /\ log_buf' = log_buf \/ log_buf' = temp_buf
          /\ UNCHANGED <<setup, line, keys, begun, console, log_rx_interrupt_sema,
                  log_service_sema, cmd,
                         cpc, spc, npc, history>>
      BY <2>2 DEF AtColon
    <3>2. Append(temp_buf, Colon) \in Seq(Nat \X Nat)
      BY <1>1, <2>0, AppendProperties DEF Others
    <3>3. prompt' \in [Uart -> BOOLEAN] /\ temp_buf' \in Seq(Nat \X Nat)
            /\ log_buf' \in Seq(Nat \X Nat)
      <4>1. PICK a : a = Append(temp_buf, Colon)
        OBVIOUS
      <4>2. /\ a \in Seq(Nat \X Nat) /\ <<>> \in Seq(Nat \X Nat) /\ temp_buf \in Seq(Nat \X Nat)
            /\ log_buf \in Seq(Nat \X Nat) /\ prompt \in [Uart -> BOOLEAN]
        BY <1>1, <3>2, <4>1 DEF Others
      <4>3. temp_buf' = <<>> \/ temp_buf' = a
        BY <3>1, <4>1
      <4>4. prompt' \in [Uart -> BOOLEAN]
        BY <3>1, <4>2
      <4> QED
        BY <3>1, <4>2, <4>3, <4>4, Zenon
    <3> QED
      BY <1>1, <3>1, <3>3 DEF console, history, Others
  <2>3. ASSUME past, TypeData
        PROVE  line' \in [Uart -> Nat] /\ keys' \in [Uart -> Keys]
    <3>1. keys["at"] \in 1 .. DataLen
      BY <2>3 DEF IInv, Situation, Resting, LogTyping, AtTyping, AtSending, AtDropped, EmptyLine,
         Arriving, Handed, Finishing, AtQuiet, Astray
    <3>2. keys["at"] + 1 \in Keys
      BY <2>0, <3>1 DEF Keys
    <3>3. (IF IsLast THEN 0 ELSE line["at"]) \in Nat
      BY <2>0
    <3> QED
      BY <1>1, <2>3, <3>2, <3>3 DEF TypeData, Uart, Others
  <2>4. CASE AtData
    <3>1. /\ line' \in [Uart -> Nat] /\ keys' \in [Uart -> Keys]
          /\ UNCHANGED <<setup, begun, prompt, ran, console, temp_buf, log_service_sema, cmd, cpc,
                  spc, npc>>
      BY <2>3, <2>4 DEF AtData, TypeData
    <3>2. /\ log_buf' \in Seq(Nat \X Nat) /\ log_rx_interrupt_sema' \in 0 .. 1
          /\ entered' \in Seq(Seq(Nat \X Nat)) /\ ran \in 0 .. Len(entered')
      BY <1>1, <2>0, <2>4 DEF AtData, DataChar, Others
    <3> QED
      BY <1>1, <3>1, <3>2 DEF console, Others
  <2>5. CASE AtDataLate
    <3>1. /\ line' \in [Uart -> Nat] /\ keys' \in [Uart -> Keys]
          /\ UNCHANGED <<setup, begun, console, temp_buf, log_rx_interrupt_sema, log_service_sema,
                  cmd,
                         cpc, spc, npc, history>>
      BY <2>3, <2>5 DEF AtDataLate, TypeData
    <3>2. log_buf' = <<>> /\ prompt' \in [Uart -> BOOLEAN]
      BY <1>1, <2>5 DEF AtDataLate, Uart, Others
    <3> QED
      BY <1>1, <3>1, <3>2 DEF console, history, Others
  <2>6. CASE AtRest
    <3>1. /\ line' \in [Uart -> Nat] /\ keys' \in [Uart -> Keys]
          /\ UNCHANGED <<setup, begun, ran, console, log_service_sema, cmd, cpc, spc, npc>>
      BY <2>3, <2>6 DEF AtRest, TypeData
    <3>2. /\ prompt' \in [Uart -> BOOLEAN] /\ temp_buf' \in Seq(Nat \X Nat)
          /\ log_buf' \in Seq(Nat \X Nat) /\ log_rx_interrupt_sema' \in 0 .. 1
          /\ entered' \in Seq(Seq(Nat \X Nat)) /\ ran \in 0 .. Len(entered')
      <4>1. /\ \/ prompt' = prompt \/ prompt' = [prompt EXCEPT !["at"] = TRUE]
            /\ \/ temp_buf' = temp_buf \/ temp_buf' = <<>>
               \/ temp_buf' = Append(temp_buf, Char(line["at"], keys["at"] + 1))
            /\ \/ UNCHANGED <<log_buf, log_rx_interrupt_sema, entered>>
               \/ /\ log_buf' = temp_buf /\ log_rx_interrupt_sema' = 1
                  /\ entered' = Append(entered, temp_buf)
        BY <2>6 DEF AtRest, HandOver, DataChar
      <4>2. prompt' \in [Uart -> BOOLEAN]
        BY <1>1, <4>1 DEF Uart, Others
      <4>3. temp_buf' \in Seq(Nat \X Nat)
        <5>1. PICK a : a = Append(temp_buf, Char(line["at"], keys["at"] + 1))
          OBVIOUS
        <5>2. temp_buf \in Seq(Nat \X Nat) /\ a \in Seq(Nat \X Nat) /\ <<>> \in Seq(Nat \X Nat)
          BY <1>1, <2>0, <5>1, AppendProperties DEF Others
        <5>3. temp_buf' = temp_buf \/ temp_buf' = <<>> \/ temp_buf' = a
          BY <4>1, <5>1
        <5> QED
          BY <5>2, <5>3, Zenon
      <4>4. log_buf' \in Seq(Nat \X Nat) /\ log_rx_interrupt_sema' \in 0 .. 1
        BY <1>1, <4>1 DEF Others
      <4>5. entered' \in Seq(Seq(Nat \X Nat)) /\ ran \in 0 .. Len(entered')
        <5>1. PICK T, e, b : T = Seq(Nat \X Nat) /\ e = entered /\ b = temp_buf
          OBVIOUS
        <5>2. e \in Seq(T) /\ b \in T /\ ran \in 0 .. Len(e)
                /\ (entered' = e \/ entered' = Append(e, b))
          BY <1>1, <4>1, <5>1 DEF Others
        <5>3. Append(e, b) \in Seq(T) /\ Len(Append(e, b)) = Len(e) + 1 /\ Len(e) \in Nat
          BY <5>2, AppendProperties, LenProperties
        <5>4. PICK a : a = Append(e, b)
          OBVIOUS
        <5>5. a \in Seq(T) /\ Len(a) = Len(e) + 1 /\ (entered' = e \/ entered' = a)
          BY <5>2, <5>3, <5>4
        <5>6. entered' \in Seq(T) /\ ran \in 0 .. Len(entered')
          BY <5>2, <5>3, <5>5
        <5> QED
          BY <5>1, <5>6
      <4> QED
        BY <4>2, <4>3, <4>4, <4>5
    <3> QED
      BY <1>1, <3>1, <3>2 DEF console, Others
  <2>7. CASE AtEnter
    BY <1>1, <2>0, <2>7 DEF AtEnter, HandOver, Uart, console, Others
  <2>8. CASE AtEnterEmpty
    <3>1. CASE temp_buf = <<>>
      BY <1>1, <2>8, <3>1 DEF AtEnterEmpty, Uart, console, Others
    <3>2. CASE temp_buf # <<>>
      <4>1. HandOver(temp_buf) /\ prompt' = [prompt EXCEPT !["at"] = FALSE]
            /\ UNCHANGED <<setup, line, keys, begun, ran, console, log_service_sema, cmd, cpc,
                    spc, npc>>
        BY <2>8, <3>2 DEF AtEnterEmpty
      <4>2. prompt' \in [Uart -> BOOLEAN]
        BY <1>1, <4>1 DEF Others
      <4>3. entered' \in Seq(Seq(Nat \X Nat)) /\ ran \in 0 .. Len(entered')
        BY <1>1, <4>1 DEF HandOver, Others
      <4> QED
        BY <1>1, <4>1, <4>2, <4>3 DEF HandOver, console, Others
    <3> QED
      BY <3>1, <3>2
  <2> QED
    BY <1>5, <2>1, <2>2, <2>4, <2>5, <2>6, <2>7, <2>8
<1>6. ASSUME AtReady \/ ConsoleTask PROVE Others'
  <2>1. CASE AtReady
    BY <1>1, <2>1 DEF AtReady, console, service, history, Others
  <2>2. CASE CStart
    BY <1>1, <2>2 DEF CStart, hosts, at, service, history, Others
  <2>3. CASE CDown
    BY <1>1, <2>3 DEF CDown, hosts, at, service, history, Others
  <2>4. CASE CTest \/ CArgc
    BY <1>1, <2>4 DEF CTest, CArgc, hosts, console, at, service, history, Others
  <2>5. CASE CCopy
    <3>1. CString(UARTLogBuf) \in Seq(Nat \X Nat)
      <4>1. EmptyLine \/ Arriving
        BY <2>5 DEF CCopy, IInv, Situation, Resting, LogTyping, AtTyping, AtSending, AtDropped,
                Handed,
              Finishing, LogQuiet, Astray
      <4>2. CASE EmptyLine
        BY <4>2, Copied DEF EmptyLine
      <4>3. CASE Arriving
        <5>1. PICK n \in Nat \ {0} : UARTLogBuf = Filled(n, 2)
          BY <4>3 DEF Arriving
        <5> QED
          BY <5>1, Copied, Typing
      <4> QED
        BY <4>1, <4>2, <4>3
    <3> QED
      BY <1>1, <2>5, <3>1 DEF CCopy, hosts, console, at, history, Others
  <2>6. CASE CUp
    BY <1>1, <2>6 DEF CUp, hosts, console, at, history, Others
  <2>7. CASE CNull
    BY <1>1, <2>7 DEF CNull, Uart, console, at, service, history, Others
  <2>8. CASE CCount
    BY <1>1, <2>8 DEF CCount, BufLen, hosts, at, service, history, Others
  <2>9. CASE CErase
    BY <1>1, <2>9, Buffers DEF CErase, hosts, at, service, history, Others
  <2>10. CASE CDone
    BY <1>1, <2>10 DEF CDone, hosts, at, service, history, Others
  <2> QED
    BY <1>6, <2>1, <2>2, <2>3, <2>4, <2>5, <2>6, <2>7, <2>8, <2>9, <2>10 DEF ConsoleTask
<1>7. ASSUME CommandTask PROVE Others'
  <2>1. CASE SStart
    BY <1>1, <2>1 DEF SStart, SGoto, Uart, console, at, service, history, Others
  <2>2. CASE SWait
    BY <1>1, <2>2 DEF SWait, SGoto, hosts, console, at, history, Others
  <2>3. CASE SLock
    BY <1>1, <2>3 DEF SLock, SGoto, hosts, console, at, history, Others
  <2>4. CASE SRead
    BY <1>1, <2>4 DEF SRead, SGoto, hosts, console, at, history, Others
  <2>5. CASE SRun
    <3>1. ran + 1 <= Len(entered)
      <4>1. spc \in {"act", "fallback"}
        BY <2>5 DEF SRun, SGoto
      <4>2. CASE spoiled
        BY <1>1, <4>1, <4>2 DEF IInv, Astray, Others
      <4>3. CASE ~spoiled
        <5>1. Situation
          BY <4>3 DEF IInv
        <5>2. Handed
          BY <4>1, <5>1 DEF Situation, Resting, LogTyping, AtTyping, AtSending, AtDropped,
                  EmptyLine,
             Arriving, Finishing, Free, Between
        <5> QED
          BY <1>1, <5>2 DEF Handed, Awaits, Others
      <4> QED
        BY <4>2, <4>3
    <3> QED
      BY <1>1, <2>5, <3>1 DEF SRun, SGoto, hosts, console, at, service, Others
  <2>6. CASE SClear
    BY <1>1, <2>6 DEF SClear, SGoto, hosts, console, at, history, Others
  <2>7. CASE SPrompt
    BY <1>1, <2>7 DEF SPrompt, SGoto, console, at, service, history, Others
  <2>8. CASE SUnlock
    BY <1>1, <2>8 DEF SUnlock, SGoto, hosts, console, at, history, Others
  <2>9. CASE SRelease
    BY <1>1, <2>9 DEF SRelease, SGoto, hosts, console, at, service, history, Others
  <2> QED
    BY <1>7, <2>1, <2>2, <2>3, <2>4, <2>5, <2>6, <2>7, <2>8, <2>9 DEF CommandTask
<1>8. ASSUME ConnectionTask PROVE Others'
  <2>1. CASE NLock \/ NUnlock
    BY <1>1, <2>1 DEF NLock, NUnlock, NGoto, hosts, console, at, history, Others
  <2>2. CASE NPrint
    BY <1>1, <2>2 DEF NPrint, NGoto, Uart, console, at, service, history, Others
  <2> QED
    BY <1>8, <2>1, <2>2 DEF ConnectionTask
<1>9. CASE Next
  <2>1. Others'
    BY <1>4, <1>5, <1>6, <1>7, <1>8, <1>9, Zenon DEF Next, Irq
  <2> QED
    BY <1>0, <1>3, <1>9, <2>1
<1> QED
  BY <1>2, <1>9

(* The inductive invariant of the interrupt handlers, the console task,    *)
(* the command task and the host: they are in one of the nine situations   *)
(* of IInv, however many lines are typed and whatever is in them, in time  *)
(* or too late, until dropped data are taken up as a command; and then     *)
(* each run still has a line of its own that was handed over               *)
(* (rtl_consol.c:107-339, example_uart_atcmd.c:389-564,                    *)
(* log_service.c:135-409).                                                 *)
THEOREM Invariance == ASSUME OneTypes PROVE Spec => []IInv
<1>1. IInv /\ [Next]_vars => IInv'
  BY SituationStep, StartedStep, TypeStep DEF IInv
<1> QED
  BY InitInv, <1>1, PTL DEF Spec

(* Spec => []TypeOK, for one host. *)
THEOREM TypeCorrect == ASSUME OneTypes PROVE Spec => []TypeOK
<1>1. IInv => TypeOK
  BY DEF IInv
<1> QED
  BY <1>1, Invariance, PTL

(* The command task runs the next line that was handed over, whole,        *)
(* unmixed and once, whatever the interrupt handlers and the console task  *)
(* do in between and whatever data come too late, until data of a dropped  *)
(* command are taken up (console_cmd_exec, uart_irq, log_service).         *)
THEOREM NextLine == ASSUME OneTypes PROVE Spec => []RunsNextLine
<1>1. IInv => RunsNextLine
  <2> SUFFICES ASSUME IInv, ~spoiled, spc \in {"act", "fallback"}
               PROVE  ran < Len(entered) /\ cmd = entered[ran + 1] /\ log_buf = cmd
    BY DEF RunsNextLine
  <2>1. Handed
    BY DEF IInv, Situation, Resting, LogTyping, AtTyping, AtSending, AtDropped, EmptyLine, Arriving,
       Finishing, Free, Between
  <2>2. ran \in Nat
    BY DEF IInv, TypeOK
  <2> QED
    BY <2>1, <2>2 DEF Handed, Awaits, Between
<1> QED
  BY <1>1, Invariance, PTL

(* A host that has seen a prompt and may type finds the buffers empty, the *)
(* flags and semaphores down and every earlier line run, after data that   *)
(* came too late as well, until such data are taken up as a command.       *)
THEOREM PromptReady == ASSUME OneTypes PROVE Spec => []PromptMeansReady
<1>1. OneTypes /\ IInv => PromptMeansReady
  <2> SUFFICES ASSUME OneTypes, IInv, NEW u \in setup.hosts, ~spoiled, prompt[u], at_ready,
                      line[u] = 0, ~ConsoleReady
               PROVE  /\ UARTLogBuf = EmptyBuf /\ BufCount = 0 /\ ~ExecuteCmd
                      /\ temp_buf = <<>> /\ log_buf = <<>> /\ log_rx_interrupt_sema = 0
                      /\ ~data_cmd
                      /\ ran = Len(entered)
    BY DEF PromptMeansReady
  <2>1. Situation /\ setup.hosts = {u}
    <3>1. u \in Uart
      BY SetupsAssumption DEF IInv, TypeOK
    <3> QED
      BY <3>1, HostIs DEF IInv, Uart
  <2>2. Resting
    BY <2>1 DEF Situation, LogTyping, AtTyping, AtSending, AtDropped, EmptyLine, Arriving, Handed,
          Finishing, Awaits, ConsoleReady
  <2> QED
    BY <2>2 DEF Resting, Free, AllRan, LogQuiet, AtQuiet
<1> QED
  BY <1>1, Invariance, PTL
=============================================================================
