------------------------------ MODULE Console -------------------------------
(***************************************************************************)
(* The way of a command line into the AT command handlers.                 *)
(*                                                                         *)
(* Characters of the log UART are collected by its receive interrupt       *)
(* handler (UartLogIrqHandleRam of rtl_consol.c); the console task copies  *)
(* a finished line to log_buf and wakes the command task (log_service of   *)
(* log_service.c).  Characters of the AT UART are collected by the         *)
(* interrupt handler uart_irq of example_uart_atcmd.c, which writes        *)
(* log_buf and wakes the command task itself.  The command task takes the  *)
(* lock log_service_sema, runs the line, empties log_buf and prints the    *)
(* prompt.  The tasks of network connections take the same lock to print   *)
(* their messages, each of which ends with the prompt as well.             *)
(*                                                                         *)
(* The hosts at the other end of the UARTs begin a line only after a       *)
(* prompt.  A line is a number, its text the characters <<n, 1>>, <<n, 2>> *)
(* and, for an ATPT command, the data up to <<n, DataLen + 1>>.            *)
(***************************************************************************)
EXTENDS Naturals, Sequences

CONSTANTS
    MaxLines,      \* bound on the lines typed
    Unknown,       \* the lines that log_handler finds no command for
    Data,          \* the lines that are ATPT commands: head, ':', raw data
    DataLen,       \* the characters of the raw data
    Starts,        \* the characters of data that are an 'A'
    Enters,        \* the characters of data that are the Enter key's
    Setups         \* the hosts that type, and whether connections print

ASSUME LinesAssumption ==
    /\ MaxLines \in Nat /\ Unknown \subseteq Nat /\ Data \subseteq Nat
    /\ DataLen \in Nat \ {0}
    /\ Starts \subseteq Nat \X Nat /\ Enters \subseteq Nat \X Nat

Uart == {"log", "at"}

ASSUME SetupsAssumption == Setups \subseteq [hosts : SUBSET Uart, messages : BOOLEAN]

VARIABLES
    setup,                 \* one of Setups, never changed
    prompt, line, keys,    \* per host: a prompt was seen since the last line; the
                           \* line being typed (0: none); its characters so far
    past,                  \* the host of the AT UART has typed the ':' of its line
    begun,                 \* lines begun
    UARTLogBuf, BufCount, ExecuteCmd, TaskRdy,   \* UartLogBuf, UartLogCtl
    Sema,                  \* pUartLogCtl->Sema, a counting semaphore
    temp_buf, data_cmd,    \* uart_irq's line; does it take data (data_cmd_sz)?
    at_ready,              \* uart_atcmd_thread has done its work
    log_buf,
    log_rx_interrupt_sema, \* a binary semaphore
    log_service_sema,      \* who holds the lock
    wakelock,              \* the bit WAKELOCK_LOGUART
    cpc, spc, npc,         \* console task, command task, a connection's task
    cmd,                   \* the command task's copy of the line
    entered, ran,          \* history: the texts handed over, the number of runs,
    spoiled                \* have data of a dropped command gone into temp_buf?

hosts == <<setup, prompt, line, keys, past, begun>>
console == <<UARTLogBuf, BufCount, ExecuteCmd, TaskRdy, Sema>>
at == <<temp_buf, data_cmd, at_ready>>
service == <<log_buf, log_rx_interrupt_sema, log_service_sema, cmd>>
history == <<entered, ran, spoiled>>
vars == <<hosts, console, at, service, wakelock, cpc, spc, npc, history>>

Char(n, i) == <<n, i>>
Typed(n, k) == [i \in 1 .. k |-> Char(n, i)]
AtLen(n) == IF n \in Data THEN DataLen + 1 ELSE 2
Text(u, n) == Typed(n, IF u = "at" THEN AtLen(n) ELSE 2)
Colon == <<0, 1>>
Nul == <<0, 0>>
BufLen == 4               \* UART_LOG_CMD_BUFLEN, one more than a line and its end
EmptyBuf == [i \in 1 .. BufLen |-> Nul]

(* What strncpy copies of UARTLogBuf. *)
CString(b) ==
    LET n == CHOOSE k \in 0 .. BufLen - 1 : b[k + 1] = Nul /\ \A i \in 1 .. k : b[i] # Nul
    IN  [i \in 1 .. n |-> b[i]]

Init ==
    /\ setup \in Setups
    /\ prompt = [u \in Uart |-> FALSE]
    /\ line = [u \in Uart |-> 0]
    /\ keys = [u \in Uart |-> 0]
    /\ past = FALSE
    /\ begun = 0
    /\ UARTLogBuf = EmptyBuf /\ BufCount = 0
    /\ ExecuteCmd = FALSE /\ TaskRdy = FALSE /\ Sema = 0
    /\ temp_buf = <<>> /\ data_cmd = FALSE /\ at_ready = FALSE
    /\ log_buf = <<>> /\ log_rx_interrupt_sema = 0 /\ log_service_sema = "free"
    /\ wakelock = FALSE
    /\ cpc = "start" /\ spc = "none" /\ npc = "idle"
    /\ cmd = <<>>
    /\ entered = <<>> /\ ran = 0 /\ spoiled = FALSE

-----------------------------------------------------------------------------
(* The priorities: the console task (idle + 9) runs before the command     *)
(* task (idle + 5), which runs before the tasks of connections (idle + 1). *)
(* A task can run unless it waits for a semaphore.                         *)
ConsoleReady == cpc # "down" \/ Sema > 0

ServiceReady ==
    /\ spc # "none"
    /\ spc = "wait" => log_rx_interrupt_sema > 0
    /\ spc = "lock" => log_service_sema = "free"

-----------------------------------------------------------------------------
(* The host of a UART begins a line when it has seen a prompt.  After an   *)
(* empty line the console prints the prompt before it empties its buffer:  *)
(* the host of the log UART is slow enough for the console task to be back *)
(* at its semaphore.                                                       *)
Begin(u) ==
    /\ u \in setup.hosts /\ at_ready
    /\ prompt[u] /\ line[u] = 0 /\ begun < MaxLines
    /\ u = "log" => ~ConsoleReady
    /\ begun' = begun + 1
    /\ line' = [line EXCEPT ![u] = begun + 1]
    /\ keys' = [keys EXCEPT ![u] = 0]
    /\ UNCHANGED <<setup, prompt, past, console, at, service, wakelock, cpc, spc, npc, history>>

(* The line of host u is handed over. *)
Finish(u) ==
    /\ entered' = Append(entered, Text(u, line[u]))
    /\ line' = [line EXCEPT ![u] = 0]
    /\ prompt' = [prompt EXCEPT ![u] = FALSE]
    /\ UNCHANGED <<setup, begun, keys, ran, spoiled>>

(* UartLogIrqHandleRam with a character: UartLogCmdChk, a function of the  *)
(* ROM, appends it to the buffer while there is room.                      *)
LogChar ==
    LET n == line["log"]
        i == keys["log"] + 1
    IN /\ n # 0 /\ i <= 2
       /\ keys' = [keys EXCEPT !["log"] = i]
       /\ IF BufCount < BufLen - 1
            THEN /\ UARTLogBuf' = [UARTLogBuf EXCEPT ![BufCount + 1] = Char(n, i)]
                 /\ BufCount' = BufCount + 1
            ELSE UNCHANGED <<UARTLogBuf, BufCount>>
       /\ UNCHANGED <<setup, prompt, line, past, begun, ExecuteCmd, TaskRdy, Sema, at, service,
                      wakelock, cpc, spc, npc, history>>

(* UartLogIrqHandleRam with the Enter key: UartLogCmdChk returns 2. *)
EnterKey ==
    /\ ExecuteCmd' = TRUE
    /\ Sema' = IF TaskRdy THEN Sema + 1 ELSE Sema
    /\ UNCHANGED <<UARTLogBuf, BufCount, TaskRdy>>

LogEnter ==
    /\ line["log"] # 0 /\ keys["log"] = 2
    /\ EnterKey
    /\ Finish("log")
    /\ UNCHANGED <<past, at, service, wakelock, cpc, spc, npc>>

(* The host of the log UART types an empty line to see a prompt. *)
LogEnterEmpty ==
    /\ "log" \in setup.hosts /\ at_ready
    /\ prompt["log"] /\ line["log"] = 0 /\ ~ConsoleReady
    /\ EnterKey
    /\ prompt' = [prompt EXCEPT !["log"] = FALSE]
    /\ UNCHANGED <<setup, line, keys, past, begun, at, service, wakelock, cpc, spc, npc, history>>

-----------------------------------------------------------------------------
(* uart_irq with a character of a line, up to the ':' of an ATPT command;  *)
(* every line begins with an 'A'.                                          *)
IsData(n) == n \in Data

AtChar ==
    LET n == line["at"]
        i == keys["at"] + 1
    IN /\ n # 0 /\ ~past
       /\ i <= (IF IsData(n) THEN 1 ELSE 2)
       /\ keys' = [keys EXCEPT !["at"] = i]
       /\ temp_buf' = Append(temp_buf, Char(n, i))
       /\ UNCHANGED <<setup, prompt, line, past, begun, console, data_cmd, at_ready, service,
                      wakelock, cpc, spc, npc, history>>

(* uart_irq with the ':' that ends the head of an ATPT command: the head   *)
(* goes to log_buf and the data will follow it there.  With old data in    *)
(* front of it the head is not one, and the ':' a character like others.   *)
AtColon ==
    /\ line["at"] # 0 /\ IsData(line["at"]) /\ keys["at"] = 1 /\ ~past
    /\ past' = TRUE
    /\ prompt' = [prompt EXCEPT !["at"] = FALSE]
    /\ \/ /\ temp_buf = Typed(line["at"], 1)
          /\ log_buf' = temp_buf
          /\ temp_buf' = <<>>
          /\ data_cmd' = TRUE
       \/ /\ temp_buf # Typed(line["at"], 1)
          /\ temp_buf' = Append(temp_buf, Colon)
          /\ UNCHANGED <<log_buf, data_cmd>>
    /\ UNCHANGED <<setup, line, keys, begun, console, at_ready, log_rx_interrupt_sema,
                   log_service_sema, cmd, wakelock, cpc, spc, npc, history>>

(* The host has typed the next character of the data: the last ends its    *)
(* line.                                                                   *)
DataChar == Char(line["at"], keys["at"] + 1)
IsLast == keys["at"] = DataLen

TypeData ==
    /\ keys' = [keys EXCEPT !["at"] = keys["at"] + 1]
    /\ line' = [line EXCEPT !["at"] = IF IsLast THEN 0 ELSE line["at"]]
    /\ past' = ~IsLast
    /\ UNCHANGED <<setup, begun>>

(* uart_irq with a character of the data: the last wakes the command task. *)
AtData ==
    /\ past /\ data_cmd
    /\ TypeData
    /\ log_buf' = Append(log_buf, DataChar)
    /\ log_rx_interrupt_sema' = IF IsLast THEN 1 ELSE log_rx_interrupt_sema
    /\ data_cmd' = ~IsLast
    /\ entered' = IF IsLast THEN Append(entered, Text("at", line["at"])) ELSE entered
    /\ UNCHANGED <<prompt, ran, spoiled, console, temp_buf, at_ready, log_service_sema, cmd,
                   wakelock, cpc, spc, npc>>

(* uart_irq with a character of the data that comes too late: the command  *)
(* is dropped and the host is told so, with a prompt (echo is off then).   *)
AtDataLate ==
    /\ past /\ data_cmd
    /\ TypeData
    /\ log_buf' = <<>>
    /\ data_cmd' = FALSE
    /\ prompt' = [prompt EXCEPT !["at"] = TRUE]
    /\ UNCHANGED <<console, temp_buf, at_ready, log_rx_interrupt_sema, log_service_sema, cmd,
                   wakelock, cpc, spc, npc, history>>

(* uart_irq with the Enter key: what was collected is handed over, or a    *)
(* prompt is printed.                                                      *)
HandOver(text) ==
    /\ log_buf' = temp_buf
    /\ log_rx_interrupt_sema' = 1
    /\ temp_buf' = <<>>
    /\ entered' = Append(entered, text)

(* uart_irq with the data of a command that it dropped or did not take for *)
(* one: they are characters like others.  They are skipped up to an 'A'    *)
(* and then collected, in front of what the host will type next.           *)
AtRest ==
    /\ past /\ ~data_cmd
    /\ TypeData
    /\ \/ /\ DataChar \in Enters /\ temp_buf # <<>>
          /\ HandOver(temp_buf)
          /\ UNCHANGED <<prompt, spoiled>>
       \/ /\ DataChar \in Enters /\ temp_buf = <<>>
          /\ prompt' = [prompt EXCEPT !["at"] = TRUE]
          /\ UNCHANGED <<temp_buf, log_buf, log_rx_interrupt_sema, entered, spoiled>>
       \/ /\ DataChar \notin Enters /\ temp_buf = <<>> /\ DataChar \notin Starts
          /\ UNCHANGED <<temp_buf, prompt, log_buf, log_rx_interrupt_sema, entered, spoiled>>
       \/ /\ DataChar \notin Enters /\ (temp_buf # <<>> \/ DataChar \in Starts)
          /\ temp_buf' = Append(temp_buf, DataChar)
          /\ spoiled' = TRUE
          /\ UNCHANGED <<prompt, log_buf, log_rx_interrupt_sema, entered>>
    /\ UNCHANGED <<ran, console, data_cmd, at_ready, log_service_sema, cmd, wakelock, cpc, spc,
                   npc>>

AtEnter ==
    /\ line["at"] # 0 /\ ~IsData(line["at"]) /\ keys["at"] = 2
    /\ HandOver(Text("at", line["at"]))
    /\ line' = [line EXCEPT !["at"] = 0]
    /\ prompt' = [prompt EXCEPT !["at"] = FALSE]
    /\ UNCHANGED <<setup, keys, past, begun, ran, spoiled, console, data_cmd, at_ready,
                   log_service_sema, cmd, wakelock, cpc, spc, npc>>

(* The host of the AT UART types an empty line after a prompt, or when     *)
(* data that went astray have brought it none.                             *)
AtEnterEmpty ==
    /\ "at" \in setup.hosts /\ at_ready
    /\ prompt["at"] \/ spoiled
    /\ line["at"] = 0
    /\ \/ /\ temp_buf = <<>>
          /\ prompt' = [prompt EXCEPT !["at"] = TRUE]
          /\ UNCHANGED <<temp_buf, log_buf, log_rx_interrupt_sema, entered>>
       \/ /\ temp_buf # <<>>
          /\ HandOver(temp_buf)
          /\ prompt' = [prompt EXCEPT !["at"] = FALSE]
    /\ UNCHANGED <<setup, line, keys, past, begun, ran, spoiled, console, data_cmd, at_ready,
                   log_service_sema, cmd, wakelock, cpc, spc, npc>>

(* uart_atcmd_thread installs uart_irq and prints the first prompt. *)
AtReady ==
    /\ ~at_ready /\ spc = "wait" /\ ~ConsoleReady /\ ~ServiceReady
    /\ at_ready' = TRUE
    /\ prompt' = [u \in Uart |-> TRUE]
    /\ UNCHANGED <<setup, line, keys, past, begun, console, temp_buf, data_cmd, service, wakelock,
                   cpc, spc, npc, history>>

Irq ==
    \/ LogChar \/ LogEnter \/ LogEnterEmpty
    \/ AtChar \/ AtColon \/ AtData \/ AtDataLate \/ AtRest \/ AtEnter \/ AtEnterEmpty

-----------------------------------------------------------------------------
(* The console task.  RtlConsolTaskRam starts with log_service_init: the   *)
(* semaphores are made, log_rx_interrupt_sema empty, and the command task  *)
(* is created.                                                             *)
CStartFull ==                                                     \* mutant
    /\ cpc = "start"
    /\ log_rx_interrupt_sema' = 1
    /\ spc' = "start"
    /\ TaskRdy' = TRUE
    /\ cpc' = "down"
    /\ UNCHANGED <<hosts, UARTLogBuf, BufCount, ExecuteCmd, Sema, at, log_buf, log_service_sema,
                   cmd, wakelock, npc, history>>

CStart ==
    /\ cpc = "start"
    /\ spc' = "start"
    /\ TaskRdy' = TRUE
    /\ cpc' = "down"
    /\ UNCHANGED <<hosts, UARTLogBuf, BufCount, ExecuteCmd, Sema, at, service, wakelock, npc,
                   history>>

(* RtlDownSema and the test of ExecuteCmd. *)
CDown ==
    /\ cpc = "down" /\ Sema > 0
    /\ Sema' = Sema - 1
    /\ cpc' = "test"
    /\ UNCHANGED <<hosts, UARTLogBuf, BufCount, ExecuteCmd, TaskRdy, at, service, wakelock, spc,
                   npc, history>>

CTest ==
    /\ cpc = "test"
    /\ cpc' = IF ExecuteCmd THEN "copy" ELSE "down"
    /\ UNCHANGED <<hosts, console, at, service, wakelock, spc, npc, history>>

(* console_cmd_exec: strncpy to log_buf; GetArgc; the command task is      *)
(* woken, or the prompt printed for an empty line; the buffer emptied.     *)
CCopy ==
    /\ cpc = "copy"
    /\ log_buf' = CString(UARTLogBuf)
    /\ cpc' = "argc"
    /\ UNCHANGED <<hosts, console, at, log_rx_interrupt_sema, log_service_sema, cmd, wakelock,
                   spc, npc, history>>

CArgc ==
    /\ cpc = "argc"
    /\ cpc' = IF UARTLogBuf[1] # Nul THEN "up" ELSE "null"
    /\ UNCHANGED <<hosts, console, at, service, wakelock, spc, npc, history>>

CUp ==
    /\ cpc = "up"
    /\ log_rx_interrupt_sema' = 1
    /\ cpc' = "count"
    /\ UNCHANGED <<hosts, console, at, log_buf, log_service_sema, cmd, wakelock, spc, npc, history>>

CNull ==
    /\ cpc = "null"
    /\ wakelock' = TRUE
    /\ prompt' = [prompt EXCEPT !["log"] = TRUE]
    /\ cpc' = "count"
    /\ UNCHANGED <<setup, line, keys, past, begun, console, at, service, spc, npc, history>>

CCountSkipped ==                                                  \* mutant
    /\ cpc = "count"
    /\ cpc' = "erase"
    /\ UNCHANGED <<hosts, console, at, service, wakelock, spc, npc, history>>

CCount ==
    /\ cpc = "count"
    /\ BufCount' = 0
    /\ cpc' = "erase"
    /\ UNCHANGED <<hosts, UARTLogBuf, ExecuteCmd, TaskRdy, Sema, at, service, wakelock, spc, npc,
                   history>>

CErase ==
    /\ cpc = "erase"
    /\ UARTLogBuf' = EmptyBuf
    /\ cpc' = "done"
    /\ UNCHANGED <<hosts, BufCount, ExecuteCmd, TaskRdy, Sema, at, service, wakelock, spc, npc,
                   history>>

CDone ==
    /\ cpc = "done"
    /\ ExecuteCmd' = FALSE
    /\ cpc' = "down"
    /\ UNCHANGED <<hosts, UARTLogBuf, BufCount, TaskRdy, Sema, at, service, wakelock, spc, npc,
                   history>>

ConsoleTask ==
    CStart \/ CDown \/ CTest \/ CCopy \/ CArgc \/ CUp \/ CNull \/ CCount \/ CErase \/ CDone

-----------------------------------------------------------------------------
(* The command task. *)
SGoto(from, to) == spc = from /\ spc' = to /\ ~ConsoleReady

(* The messages of the start; the log UART is given its prompt. *)
SStart ==
    /\ SGoto("start", "wait")
    /\ prompt' = [prompt EXCEPT !["log"] = TRUE]
    /\ UNCHANGED <<setup, line, keys, past, begun, console, at, service, wakelock, cpc, npc,
            history>>

SWaitLeavesSema ==                                                \* mutant
    /\ log_rx_interrupt_sema = 1
    /\ SGoto("wait", "lock")
    /\ UNCHANGED <<hosts, console, at, service, wakelock, cpc, npc, history>>

SWait ==
    /\ log_rx_interrupt_sema = 1
    /\ SGoto("wait", "lock")
    /\ log_rx_interrupt_sema' = 0
    /\ UNCHANGED <<hosts, console, at, log_buf, log_service_sema, cmd, wakelock, cpc, npc, history>>

SLock ==
    /\ log_service_sema = "free"
    /\ SGoto("lock", "read")
    /\ log_service_sema' = "service"
    /\ UNCHANGED <<hosts, console, at, log_buf, log_rx_interrupt_sema, cmd, wakelock, cpc, npc,
                   history>>

(* log_handler copies log_buf and looks the command up. *)
Known(s) == s # <<>> /\ s[1][1] \notin Unknown

SRead ==
    /\ SGoto("read", IF Known(log_buf) THEN "act" ELSE "fallback")
    /\ cmd' = log_buf
    /\ UNCHANGED <<hosts, console, at, log_buf, log_rx_interrupt_sema, log_service_sema, wakelock,
                   cpc, npc, history>>

(* The command runs, on its copy and, for ATPT, on the data in log_buf;    *)
(* without a command mp_commnad_handler and print_help_handler go by       *)
(* log_buf.                                                                *)
SRun ==
    /\ SGoto("act", "clear") \/ SGoto("fallback", "clear")
    /\ ran' = ran + 1
    /\ UNCHANGED <<hosts, console, at, service, wakelock, cpc, npc, entered, spoiled>>

SClear ==
    /\ SGoto("clear", "prompt")
    /\ log_buf' = <<>>
    /\ UNCHANGED <<hosts, console, at, log_rx_interrupt_sema, log_service_sema, cmd, wakelock,
                   cpc, npc, history>>

(* The prompt, on both UARTs. *)
SPrompt ==
    /\ SGoto("prompt", "unlock")
    /\ prompt' = [u \in Uart |-> TRUE]
    /\ UNCHANGED <<setup, line, keys, past, begun, console, at, service, wakelock, cpc, npc,
            history>>

SUnlockSkipped ==                                                 \* mutant
    /\ SGoto("unlock", "release")
    /\ UNCHANGED <<hosts, console, at, service, wakelock, cpc, npc, history>>

SUnlock ==
    /\ SGoto("unlock", "release")
    /\ log_service_sema' = "free"
    /\ UNCHANGED <<hosts, console, at, log_buf, log_rx_interrupt_sema, cmd, wakelock, cpc, npc,
                   history>>

SRelease ==
    /\ SGoto("release", "wait")
    /\ wakelock' = FALSE
    /\ UNCHANGED <<hosts, console, at, service, cpc, npc, history>>

CommandTask ==
    SStart \/ SWait \/ SLock \/ SRead \/ SRun \/ SClear \/ SPrompt \/ SUnlock \/ SRelease

-----------------------------------------------------------------------------
(* A connection's task prints a message that ends with the prompt, on the  *)
(* AT UART, under the lock.                                                *)
NGoto(from, to) == npc = from /\ npc' = to /\ ~ConsoleReady /\ ~ServiceReady

NLock ==
    /\ setup.messages /\ at_ready /\ log_service_sema = "free"
    /\ NGoto("idle", "print")
    /\ log_service_sema' = "connection"
    /\ UNCHANGED <<hosts, console, at, log_buf, log_rx_interrupt_sema, cmd, wakelock, cpc, spc,
                   history>>

NPrint ==
    /\ NGoto("print", "unlock")
    /\ prompt' = [prompt EXCEPT !["at"] = TRUE]
    /\ UNCHANGED <<setup, line, keys, past, begun, console, at, service, wakelock, cpc, spc,
            history>>

NUnlock ==
    /\ NGoto("unlock", "idle")
    /\ log_service_sema' = "free"
    /\ UNCHANGED <<hosts, console, at, log_buf, log_rx_interrupt_sema, cmd, wakelock, cpc, spc,
                   history>>

ConnectionTask == NLock \/ NPrint \/ NUnlock

Next == (\E u \in Uart : Begin(u)) \/ Irq \/ AtReady \/ ConsoleTask \/ CommandTask \/ ConnectionTask

Spec == Init /\ [][Next]_vars

(* The tasks run when they can; nobody is obliged to type or to send. *)
Fairness ==
    /\ WF_vars(ConsoleTask) /\ WF_vars(CommandTask)
    /\ WF_vars(NPrint) /\ WF_vars(NUnlock)

FairSpec == Spec /\ Fairness

-----------------------------------------------------------------------------
TypeOK ==
    /\ setup \in Setups
    /\ prompt \in [Uart -> BOOLEAN]
    /\ line \in [Uart -> Nat] /\ keys \in [Uart -> 0 .. DataLen + 1]
    /\ past \in BOOLEAN /\ spoiled \in BOOLEAN /\ begun \in Nat
    /\ UARTLogBuf \in [1 .. BufLen -> Nat \X Nat] /\ BufCount \in 0 .. BufLen - 1
    /\ ExecuteCmd \in BOOLEAN /\ TaskRdy \in BOOLEAN /\ Sema \in Nat
    /\ temp_buf \in Seq(Nat \X Nat) /\ data_cmd \in BOOLEAN /\ at_ready \in BOOLEAN
    /\ log_buf \in Seq(Nat \X Nat) /\ cmd \in Seq(Nat \X Nat)
    /\ log_rx_interrupt_sema \in 0 .. 1
    /\ log_service_sema \in {"free", "service", "connection"}
    /\ wakelock \in BOOLEAN
    /\ cpc \in {"start", "down", "test", "copy", "argc", "up", "null", "count", "erase", "done"}
    /\ spc \in {"none", "start", "wait", "lock", "read", "act", "fallback", "clear", "prompt",
                "unlock", "release"}
    /\ npc \in {"idle", "print", "unlock"}
    /\ entered \in Seq(Seq(Nat \X Nat)) /\ ran \in 0 .. Len(entered)

(* What the command task runs is the next line that was handed over, whole *)
(* and unmixed, each line once; what it reads of log_buf while it runs is  *)
(* that line too (console_cmd_exec, uart_irq and log_service together).    *)
(* Commands whose data come too late are dropped on the way; only when     *)
(* such data have been taken up as a command is there nothing to promise.  *)
RunsNextLine ==
    ~spoiled /\ spc \in {"act", "fallback"} =>
        /\ ran < Len(entered)
        /\ cmd = entered[ran + 1]
        /\ log_buf = cmd

(* A host that may type finds everything clean: no character of an old     *)
(* line or of dropped data in the buffers, no flag or semaphore that would *)
(* run one again; unless dropped data have been taken up as a command.     *)
PromptMeansReady ==
    \A u \in setup.hosts :
        ~spoiled /\ prompt[u] /\ at_ready /\ line[u] = 0 /\ ~ConsoleReady =>
            /\ UARTLogBuf = EmptyBuf /\ BufCount = 0 /\ ~ExecuteCmd
            /\ temp_buf = <<>> /\ log_buf = <<>> /\ log_rx_interrupt_sema = 0
            /\ ~data_cmd
            /\ ran = Len(entered)

(* Every line that was handed over is run (UartLogIrqHandleRam to          *)
(* log_service), whatever connections print in between; only dropped data  *)
(* taken up as a command, and ended by an Enter of their own, can hide one *)
(* line behind another.                                                    *)
EveryLineRuns == \A n \in 1 .. MaxLines : Len(entered) >= n ~> ran >= n \/ spoiled

(* log_service.h:54, of the lock: "to protect log_buf[], only one command  *)
(* processed per time": while the command task holds the lock, nobody else *)
(* writes log_buf.                                                         *)
LockProtectsLogBuf ==
    [][log_service_sema = "service" /\ log_buf' # log_buf => spc' # spc]_vars
=============================================================================
