-------------------------------- MODULE Ota ---------------------------------
(***************************************************************************)
(* Updating the firmware over the network, and choosing which image to     *)
(* boot, as the flash sees it: update_ota_local_task and cmd_ota_image of  *)
(* component/common/utilities/update.c (WRITE_OTA_ADDR 1, SWAP_UPDATE 0,   *)
(* CONFIG_CUSTOM_SIGNATURE 1), with the processor being reset between any  *)
(* two flash operations, or in the middle of a longer write.               *)
(*                                                                         *)
(* The default image is never written.  The new one is downloaded into a   *)
(* second region, whose first sector holds, at offsets 8 and 12, the two   *)
(* words of the signature that make the boot loader prefer it.  A sector   *)
(* of system data holds the region's address next to calibration data; it  *)
(* is rewritten through a backup sector.  All of it is done under the      *)
(* flash lock of device_lock.c, taken here as the LockService that         *)
(* DeviceLock implements.                                                  *)
(***************************************************************************)
EXTENDS Naturals

CONSTANTS
    Sectors,       \* sectors of the region for the new image
    File,          \* what the server may send; the image holds erased bytes
                   \* where the boot signature goes
    Announced,     \* the size the server announces for each, in sectors
    Sent,          \* how much of it is really there
    Intact,        \* those whose attached checksum is that of the rest
    Ours,          \* those with this product's customer signature
    Choices        \* the arguments cmd_ota_image is called with

Sector == 1 .. Sectors
Erased == "erased"
Started == "started"           \* erased, and now being written
Half == "half"                 \* neither erased nor what was to be written
Content == File \cup {Erased, Started, Half}

ASSUME SectorsAssumption == Sectors \in Nat \ {0}
ASSUME FileAssumption ==
    /\ File \cap {Erased, Started, Half, "none"} = {}
    /\ Announced \in [File -> 0 .. Sectors] /\ Sent \in [File -> Sector]
    /\ Intact \subseteq File /\ Ours \subseteq File
ASSUME ChoicesAssumption == Choices \subseteq BOOLEAN

VARIABLES
    image,         \* what each sector of the new image's region holds
    signature,     \* the two words at offsets 8 and 12 of its first sector
    system,        \* the sector OFFSET_DATA
    backup,        \* the sector BACKUP_SECTOR
    lock,          \* the owner of RT_DEV_LOCK_FLASH
    ota,           \* the update task: where it is and its locals
    cmd,           \* the task of the AT commands, in cmd_ota_image
    saved,         \* history: the data the last rewriting of system set out to keep
    deselected     \* history: cmd_ota_image(0) has finished since the last erasure

flash == <<image, signature, system, backup>>
vars == <<flash, lock, ota, cmd, saved, deselected>>

Word == {Erased, "set", "reset"}          \* "set": 81958711, "reset": 01958711
Blank == [addr |-> Erased, data |-> Erased]
SectorData == [addr : {Erased, "new"}, data : {Erased, Half, "data"}]

OtaPc ==
    {"idle", "connect", "addr", "backup", "copy", "copying", "erasesystem", "restore",
     "restoring", "erasebackup", "info", "erase", "receive", "write", "writing",
     "readback", "custom", "sign", "sign2", "exit"}
CmdPc == {"idle", "lock", "erase", "write", "writing", "reboot"}

OtaIdle == [pc |-> "idle", file |-> "none", size |-> 0, i |-> 0, broken |-> FALSE]
CmdIdle == [pc |-> "idle", choice |-> FALSE, buf |-> Erased]

Init ==
    /\ image = [i \in Sector |-> Erased]
    /\ signature = <<Erased, Erased>>
    /\ system \in {[addr |-> a, data |-> "data"] : a \in {Erased, "new"}}
    /\ backup = Blank
    /\ lock = [d \in {"flash"} |-> "none"]
    /\ ota = OtaIdle
    /\ cmd = CmdIdle
    /\ saved = "data"
    /\ deselected = FALSE

Flash == INSTANCE LockService
            WITH Task <- {"ota", "cmd"}, Device <- {"flash"}, NoTask <- "none", owner <- lock

Lock(t) == Flash!Lock(t, "flash")
Unlock(t) == Flash!Unlock(t, "flash")
LockFree == lock["flash"] = "none"

OtaGoto(from, to) == ota.pc = from /\ ota' = [ota EXCEPT !.pc = to]
CmdGoto(from, to) == cmd.pc = from /\ cmd' = [cmd EXCEPT !.pc = to]

ProgramOver(old, new) == new                                      \* mutant
(* Programming flash clears bits and sets none.  "reset" has no bit that   *)
(* "set" lacks.                                                            *)
Program(old, new) == IF old = Erased THEN new ELSE IF "reset" \in {old, new} THEN "reset" ELSE old

-----------------------------------------------------------------------------
(* update_ota_local: one update at a time (TaskOTA), and the start of the  *)
(* task: buffer, socket, connect, each of which may fail.                  *)
UpdateOtaLocal ==
    /\ OtaGoto("idle", "connect")
    /\ UNCHANGED <<flash, lock, cmd, saved, deselected>>

Connect ==
    /\ ota.pc = "connect"
    /\ \/ \E f \in File : ota' = [ota EXCEPT !.pc = "addr", !.file = f]
       \/ ota' = [ota EXCEPT !.pc = "exit"]
    /\ UNCHANGED <<flash, lock, cmd, saved, deselected>>

(* write_ota_addr_to_system_data: the address is written in place if there *)
(* is none, or else the sector is rewritten, from here to EraseBackup.     *)
WriteOtaAddr ==
    /\ ota.pc = "addr"
    /\ IF system.addr = Erased
         THEN /\ LockFree /\ UNCHANGED <<lock, saved>>
              /\ system' = [system EXCEPT !.addr = "new"]
              /\ OtaGoto("addr", "info")
         ELSE /\ Lock("ota")
              /\ saved' = system.data
              /\ OtaGoto("addr", "backup")
              /\ UNCHANGED system
    /\ UNCHANGED <<image, signature, backup, cmd, deselected>>

StartBackupErasesSystem ==                                        \* mutant
    /\ OtaGoto("backup", "copy")
    /\ system' = Blank
    /\ UNCHANGED <<image, signature, backup, lock, cmd, saved, deselected>>

StartBackup ==
    /\ OtaGoto("backup", "copy")
    /\ backup' = Blank
    /\ UNCHANGED <<image, signature, system, lock, cmd, saved, deselected>>

(* A sector is copied word by word, the address first. *)
CopySystem ==
    /\ \/ OtaGoto("copy", "copying") /\ backup' = [addr |-> "new", data |-> Half]
       \/ OtaGoto("copying", "erasesystem") /\ backup' = [backup EXCEPT !.data = system.data]
    /\ UNCHANGED <<image, signature, system, lock, cmd, saved, deselected>>

EraseSystem ==
    /\ OtaGoto("erasesystem", "restore")
    /\ system' = Blank
    /\ UNCHANGED <<image, signature, backup, lock, cmd, saved, deselected>>

Restore ==
    /\ \/ OtaGoto("restore", "restoring") /\ system' = [addr |-> backup.addr, data |-> Half]
       \/ OtaGoto("restoring", "erasebackup") /\ system' = [system EXCEPT !.data = backup.data]
    /\ UNCHANGED <<image, signature, backup, lock, cmd, saved, deselected>>

EraseBackup ==
    /\ OtaGoto("erasebackup", "info")
    /\ backup' = Blank
    /\ Unlock("ota")
    /\ UNCHANGED <<image, signature, system, cmd, saved, deselected>>

-----------------------------------------------------------------------------
(* The address is read back; the server sends the size (or nothing usable) *)
(* and the erasing of that many sectors starts, under one lock.            *)
ReadInfo ==
    /\ ota.pc = "info"
    /\ LockFree
    /\ \/ /\ system.addr # Erased /\ Announced[ota.file] > 0
          /\ Lock("ota")
          /\ ota' = [ota EXCEPT !.pc = "erase", !.i = 1]
       \/ ota' = [ota EXCEPT !.pc = "exit"] /\ UNCHANGED lock
    /\ UNCHANGED <<flash, cmd, saved, deselected>>

(* flash_erase_sector of the i-th of NewImg2BlkSize sectors; the first     *)
(* takes the signature with it.                                            *)
NewImg2BlkSizeShort == Announced[ota.file] - 1                    \* mutant
NewImg2BlkSizeOver == Announced[ota.file] + 1                     \* mutant
NewImg2BlkSize == Announced[ota.file]

EraseSectorLast(i) == NewImg2BlkSize + 1 - i                      \* mutant
EraseSector(i) == i

Erase ==
    /\ ota.pc = "erase"
    /\ LET s == EraseSector(ota.i)
       IN /\ image' = [image EXCEPT ![s] = Erased]
          /\ signature' = IF s = 1 THEN <<Erased, Erased>> ELSE signature
          /\ deselected' = (deselected /\ s # 1)
    /\ IF ota.i < NewImg2BlkSize
         THEN ota' = [ota EXCEPT !.i = @ + 1] /\ UNCHANGED lock
         ELSE ota' = [ota EXCEPT !.pc = "receive"] /\ Unlock("ota")
    /\ UNCHANGED <<system, backup, cmd, saved>>

(* One turn of the receive loop, up to the write: the next sector's worth  *)
(* of data; the end of the connection, before or after the last of it; or  *)
(* a failed read.  A read of fewer than four bytes spoils the bytes taken  *)
(* for the attached checksum: they are fetched from before the buffer.     *)
Receive ==
    /\ ota.pc = "receive"
    /\ \/ /\ ota.size < Sent[ota.file]
          /\ \E short \in BOOLEAN :
                ota' = [ota EXCEPT !.pc = "write", !.broken = @ \/ short]
       \/ ota' = [ota EXCEPT !.pc = "readback"]
       \/ ota' = [ota EXCEPT !.pc = "exit"]
    /\ UNCHANGED <<flash, lock, cmd, saved, deselected>>

(* flash_stream_write, in two halves: programming over anything that was   *)
(* not erased gives neither.                                               *)
WriteImage ==
    /\ OtaGoto("write", "writing")
    /\ Lock("ota")
    /\ LET s == ota.size + 1
       IN image' = [image EXCEPT ![s] = IF @ = Erased THEN Started
                                        ELSE IF @ = ota.file THEN @ ELSE Half]
    /\ UNCHANGED <<signature, system, backup, cmd, saved, deselected>>

(* The loop ends when exactly the announced size has come, which a read    *)
(* that goes past it (more is sent than announced) steps over.             *)
WroteImage ==
    /\ ota.pc = "writing"
    /\ LET s == ota.size + 1
       IN /\ image' = [image EXCEPT ![s] = IF @ \in {Started, ota.file} THEN ota.file ELSE Half]
          /\ \/ s = Announced[ota.file] /\ ota' = [ota EXCEPT !.pc = "readback", !.size = s]
             \/ /\ s = Announced[ota.file] => Sent[ota.file] > s
                /\ ota' = [ota EXCEPT !.pc = "receive", !.size = s]
    /\ Unlock("ota")
    /\ UNCHANGED <<signature, system, backup, cmd, saved, deselected>>

-----------------------------------------------------------------------------
(* The three sums agree: the one of the received data, the one attached to *)
(* it and the one of the flash read back (different data have different    *)
(* sums).  Of nothing, all three are 0.                                    *)
ChecksumNoReadback ==                                             \* mutant
    \/ ota.size = 0
    \/ ota.file \in Intact /\ ota.size = Sent[ota.file] /\ ~ota.broken

ChecksumsAgree ==
    \/ ota.size = 0
    \/ /\ ota.file \in Intact /\ ota.size = Sent[ota.file] /\ ~ota.broken
       /\ \A s \in 1 .. ota.size : image[s] = ota.file

(* The flash is read back without the lock. *)
ReadBack ==
    /\ ota.pc = "readback"
    /\ ota' = [ota EXCEPT !.pc = IF ChecksumsAgree THEN "custom" ELSE "exit"]
    /\ UNCHANGED <<flash, lock, cmd, saved, deselected>>

(* The customer signature at offset 0x28 of the new image is compared.     *)
(* (The code reads it before it compares the sums.)                        *)
CustomSignatureUnchecked == TRUE                                  \* mutant
CustomSignature == image[1] \in Ours

CheckCustomSignature ==
    /\ ota.pc = "custom"
    /\ LockFree
    /\ ota' = [ota EXCEPT !.pc = IF CustomSignature THEN "sign" ELSE "exit"]
    /\ UNCHANGED <<flash, lock, cmd, saved, deselected>>

Sign ==
    /\ \/ /\ OtaGoto("sign", "sign2")
          /\ Lock("ota")
          /\ signature' = [signature EXCEPT ![1] = Program(@, "set")]
       \/ /\ OtaGoto("sign2", "exit")
          /\ Unlock("ota")
          /\ signature' = [signature EXCEPT ![2] = Program(@, "set")]
    /\ UNCHANGED <<image, system, backup, cmd, saved, deselected>>

(* update_ota_exit: TaskOTA = NULL; after a success ota_platform_reset     *)
(* follows, 100 ms later.                                                  *)
Exit ==
    /\ ota.pc = "exit"
    /\ ota' = OtaIdle
    /\ UNCHANGED <<flash, lock, cmd, saved, deselected>>

-----------------------------------------------------------------------------
(* cmd_ota_image(choice), called by the AT command ATSC=0 or ATSC=1 (ATSY  *)
(* too, with 0).  It does nothing if there is no address or no room for a  *)
(* buffer; the command resets the system afterwards in any case.           *)
CmdOtaImage ==
    /\ cmd.pc = "idle"
    /\ LockFree
    /\ \E c \in Choices :
          \/ system.addr # Erased /\ cmd' = [cmd EXCEPT !.pc = "lock", !.choice = c]
          \/ cmd' = [cmd EXCEPT !.pc = "reboot", !.choice = c]
    /\ UNCHANGED <<flash, lock, ota, saved, deselected>>

(* The first sector is read, erased, and written with another signature.   *)
CmdRead ==
    /\ cmd.pc = "lock"
    /\ Lock("cmd")
    /\ cmd' = [cmd EXCEPT !.pc = "erase", !.buf = image[1]]
    /\ UNCHANGED <<flash, ota, saved, deselected>>

CmdErase ==
    /\ CmdGoto("erase", "write")
    /\ image' = [image EXCEPT ![1] = Erased]
    /\ signature' = <<Erased, Erased>>
    /\ UNCHANGED <<system, backup, lock, ota, saved, deselected>>

CmdWrite ==
    /\ CmdGoto("write", "writing")
    /\ image' = [image EXCEPT ![1] = Half]
    /\ signature' = <<IF cmd.choice THEN "set" ELSE "reset", "set">>
    /\ UNCHANGED <<system, backup, lock, ota, saved, deselected>>

CmdWrote ==
    /\ CmdGoto("writing", "reboot")
    /\ image' = [image EXCEPT ![1] = cmd.buf]
    /\ deselected' = ~cmd.choice
    /\ Unlock("cmd")
    /\ UNCHANGED <<signature, system, backup, ota, saved>>

(* The processor is reset: by ota_platform_reset or sys_reset, by a        *)
(* watchdog, by a loss of power.  The flash keeps what it holds.           *)
Reset ==
    /\ image' = [s \in Sector |-> IF image[s] = Started THEN Half ELSE image[s]]
    /\ lock' = [d \in {"flash"} |-> "none"]
    /\ ota' = OtaIdle
    /\ cmd' = CmdIdle
    /\ UNCHANGED <<signature, system, backup, saved, deselected>>

OtaStep ==
    \/ UpdateOtaLocal \/ Connect \/ WriteOtaAddr \/ StartBackup \/ CopySystem
    \/ EraseSystem \/ Restore \/ EraseBackup \/ ReadInfo \/ Erase \/ Receive
    \/ WriteImage \/ WroteImage \/ ReadBack \/ CheckCustomSignature \/ Sign \/ Exit

CmdStep == CmdOtaImage \/ CmdRead \/ CmdErase \/ CmdWrite \/ CmdWrote

Next == OtaStep \/ CmdStep \/ Reset

Spec == Init /\ [][Next]_vars

-----------------------------------------------------------------------------
TypeOK ==
    /\ image \in [Sector -> Content]
    /\ signature \in Word \X Word
    /\ system \in SectorData /\ backup \in SectorData
    /\ lock \in [{"flash"} -> {"none", "ota", "cmd"}]
    /\ ota \in [pc : OtaPc, file : File \cup {"none"}, size : 0 .. Sectors,
                i : 0 .. Sectors, broken : BOOLEAN]
    /\ cmd \in [pc : CmdPc, choice : BOOLEAN, buf : Content]
    /\ saved \in {Erased, Half, "data"}
    /\ deselected \in BOOLEAN

(* What makes the boot loader take the second image (its code is not in    *)
(* the repository; sys_api.c and update.c show what it looks at).          *)
Signed == signature = <<"set", "set">>
BootsUpdate == system.addr = "new" /\ Signed

Complete ==
    \E f \in Intact \cap Ours : \A s \in 1 .. Sent[f] : image[s] = f

(* A signed image is complete, unaltered and for this product, wherever    *)
(* the processor was reset and whatever the server sent: the signature is  *)
(* set last and erased first (update.c:547-680).  cmd_ota_image(1), which  *)
(* signs whatever is there, is the exception: Choices is {FALSE} here.     *)
SignedIsComplete == Signed => Complete

(* An update that received all of a good image from a server that          *)
(* announced its size, in reads of at least four bytes and with no command *)
(* in between, signs it.                                                   *)
GoodUpdateSucceeds ==
    /\ ota.pc = "exit" /\ cmd.pc = "idle"
    /\ ota.file \in Intact \cap Ours
    /\ ota.size = Sent[ota.file] /\ Announced[ota.file] = Sent[ota.file] /\ ~ota.broken
    => Signed

(* After cmd_ota_image(0) the update is not booted until another one has   *)
(* begun to replace it, not even if an update that was about to sign the   *)
(* image goes on before the command resets the system.                     *)
DeselectedStays == deselected => ~BootsUpdate

(* The rewriting of the system data sector always leaves a whole copy of   *)
(* what it started from, in the sector or in the backup, until the next    *)
(* rewriting (write_ota_addr_to_system_data).                              *)
RewriteKeepsCopy == saved \in {system.data, backup.data}
=============================================================================
