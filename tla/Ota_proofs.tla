----------------------------- MODULE Ota_proofs ------------------------------
(***************************************************************************)
(* Proofs about Ota, for any number of sectors and any files.              *)
(***************************************************************************)
EXTENDS Ota, TLAPS

(* Who has the flash lock. *)
OtaLocked ==
    {"backup", "copy", "copying", "erasesystem", "restore", "restoring", "erasebackup",
     "erase", "writing", "sign2"}
CmdLocked == {"erase", "write", "writing"}

LockHeld ==
    /\ ota.pc \in OtaLocked => lock["flash"] = "ota"
    /\ cmd.pc \in CmdLocked => lock["flash"] = "cmd"

(* The update's locals: what the counters are bounded by. *)
Locals ==
    /\ ota.pc \notin {"idle", "connect", "exit"} => ota.file \in File
    /\ ota.pc = "erase" => ota.i \in 1 .. Announced[ota.file]
    /\ ota.pc \in {"write", "writing"} => ota.size < Sent[ota.file]

(* Which of the two sectors has the whole of what is to be kept. *)
Rewriting ==
    /\ saved \in {system.data, backup.data}
    /\ ota.pc \in {"backup", "copy", "copying", "erasebackup"} => system.data = saved
    /\ ota.pc \in {"erasesystem", "restore", "restoring"} => backup.data = saved

TInv == TypeOK /\ LockHeld /\ Locals /\ Rewriting

-----------------------------------------------------------------------------
(* Taking and giving the lock. *)
LEMMA LockEffect ==
    ASSUME TypeOK, NEW t \in {"ota", "cmd"}, Lock(t)
    PROVE  /\ lock["flash"] = "none" /\ lock'["flash"] = t
           /\ lock' \in [{"flash"} -> {"none", "ota", "cmd"}]
  BY DEF TypeOK, Lock, Flash!Lock

LEMMA UnlockEffect ==
    ASSUME TypeOK, NEW t \in {"ota", "cmd"}, Unlock(t)
    PROVE  /\ lock["flash"] = t /\ lock'["flash"] = "none"
           /\ lock' \in [{"flash"} -> {"none", "ota", "cmd"}]
  BY DEF TypeOK, Unlock, Flash!Unlock

(* The types, who holds the lock and the copies of the system data, when   *)
(* the system starts.                                                      *)
LEMMA InitTInv == Init => TInv
<1> SUFFICES ASSUME Init PROVE TInv
  OBVIOUS
<1>1. image \in [Sector -> Content] /\ signature \in Word \X Word
  BY DEF Init, Content, Word
<1>2. system \in SectorData /\ backup \in SectorData
  BY DEF Init, SectorData, Blank
<1>3. ota \in [pc : OtaPc, file : File \cup {"none"}, size : 0 .. Sectors, i : 0 .. Sectors, broken : BOOLEAN]
  BY SectorsAssumption DEF Init, OtaIdle, OtaPc
<1>4. cmd \in [pc : CmdPc, choice : BOOLEAN, buf : Content]
  BY DEF Init, CmdIdle, CmdPc, Content
<1>5. TypeOK
  BY <1>1, <1>2, <1>3, <1>4 DEF Init, TypeOK
<1>6. LockHeld /\ Locals
  BY DEF Init, OtaIdle, CmdIdle, LockHeld, Locals, OtaLocked, CmdLocked
<1>7. Rewriting
  BY DEF Init, OtaIdle, Rewriting
<1> QED
  BY <1>5, <1>6, <1>7 DEF TInv

(* The steps of the update that leave the flash alone. *)
QuietOta ==
    \/ UpdateOtaLocal \/ Connect \/ ReadInfo \/ Receive \/ ReadBack \/ CheckCustomSignature \/ Exit

(* They are kept by the steps that leave the flash alone, *)
LEMMA QuietOtaTInv == ASSUME TInv, QuietOta PROVE TInv'
<1> USE SectorsAssumption, FileAssumption DEF TInv
<1>1. CASE UpdateOtaLocal
  <2>1. TypeOK'
    BY <1>1 DEF UpdateOtaLocal, OtaGoto, flash, TypeOK, OtaPc
  <2> QED
    BY <1>1, <2>1 DEF UpdateOtaLocal, OtaGoto, flash, TypeOK, LockHeld, Locals, Rewriting, OtaLocked, CmdLocked
<1>2. CASE Connect
  <2>1. TypeOK'
    BY <1>2 DEF Connect, flash, TypeOK, OtaPc
  <2> QED
    BY <1>2, <2>1 DEF Connect, flash, TypeOK, LockHeld, Locals, Rewriting, OtaLocked, CmdLocked
<1>3. CASE ReadInfo
  <2>1. CASE /\ Announced[ota.file] > 0 /\ Lock("ota")
             /\ ota' = [ota EXCEPT !.pc = "erase", !.i = 1]
    <3> 1 \in 0 .. Sectors /\ Announced[ota.file] \in 0 .. Sectors
      BY <1>3 DEF ReadInfo, Locals
    <3>1. TypeOK'
      BY <1>3, <2>1, LockEffect DEF ReadInfo, flash, TypeOK, OtaPc
    <3> QED
      BY <1>3, <2>1, <3>1, LockEffect
      DEF ReadInfo, flash, TypeOK, LockHeld, Locals, Rewriting, OtaLocked, CmdLocked
  <2>2. CASE ota' = [ota EXCEPT !.pc = "exit"] /\ UNCHANGED lock
    <3>1. TypeOK'
      BY <1>3, <2>2 DEF ReadInfo, flash, TypeOK, OtaPc
    <3> QED
      BY <1>3, <2>2, <3>1 DEF ReadInfo, flash, TypeOK, LockHeld, Locals, Rewriting, OtaLocked, CmdLocked
  <2> QED
    BY <1>3, <2>1, <2>2 DEF ReadInfo
<1>4. CASE Receive
  <2>1. TypeOK'
    BY <1>4 DEF Receive, flash, TypeOK, OtaPc
  <2> QED
    BY <1>4, <2>1 DEF Receive, flash, TypeOK, LockHeld, Locals, Rewriting, OtaLocked, CmdLocked
<1>5. CASE ReadBack
  <2>1. TypeOK'
    BY <1>5 DEF ReadBack, flash, TypeOK, OtaPc
  <2> QED
    BY <1>5, <2>1 DEF ReadBack, flash, TypeOK, LockHeld, Locals, Rewriting, OtaLocked, CmdLocked
<1>6. CASE CheckCustomSignature
  <2>1. TypeOK'
    BY <1>6 DEF CheckCustomSignature, flash, TypeOK, OtaPc
  <2> QED
    BY <1>6, <2>1 DEF CheckCustomSignature, flash, TypeOK, LockHeld, Locals, Rewriting, OtaLocked, CmdLocked
<1>7. CASE Exit
  <2>1. TypeOK'
    BY <1>7 DEF Exit, flash, TypeOK, OtaPc, OtaIdle
  <2> QED
    BY <1>7, <2>1 DEF Exit, OtaIdle, flash, TypeOK, LockHeld, Locals, Rewriting, OtaLocked, CmdLocked
<1> QED
  BY <1>1, <1>2, <1>3, <1>4, <1>5, <1>6, <1>7 DEF QuietOta

(* The rewriting of the system data sector. *)
RewriteStep ==
    \/ WriteOtaAddr \/ StartBackup \/ CopySystem \/ EraseSystem \/ Restore \/ EraseBackup

(* by the rewriting of the system data, *)
LEMMA RewriteTInv == ASSUME TInv, RewriteStep PROVE TInv'
<1> USE SectorsAssumption DEF TInv
<1>1. CASE WriteOtaAddr
  <2>1. CASE /\ system.addr = Erased /\ UNCHANGED <<lock, saved>>
             /\ system' = [system EXCEPT !.addr = "new"] /\ OtaGoto("addr", "info")
    <3>1. TypeOK'
      BY <1>1, <2>1 DEF WriteOtaAddr, OtaGoto, TypeOK, OtaPc, SectorData
    <3> QED
      BY <1>1, <2>1, <3>1
      DEF WriteOtaAddr, OtaGoto, TypeOK, SectorData, LockHeld, Locals, Rewriting, OtaLocked, CmdLocked
  <2>2. CASE /\ Lock("ota") /\ saved' = system.data
             /\ OtaGoto("addr", "backup") /\ UNCHANGED system
    <3>1. TypeOK'
      BY <1>1, <2>2, LockEffect DEF WriteOtaAddr, OtaGoto, TypeOK, OtaPc, SectorData
    <3> QED
      BY <1>1, <2>2, <3>1, LockEffect
      DEF WriteOtaAddr, OtaGoto, TypeOK, SectorData, LockHeld, Locals, Rewriting, OtaLocked, CmdLocked
  <2> QED
    BY <1>1, <2>1, <2>2 DEF WriteOtaAddr
<1>2. CASE StartBackup
  <2>1. TypeOK'
    BY <1>2 DEF StartBackup, OtaGoto, TypeOK, OtaPc, SectorData, Blank
  <2> QED
    BY <1>2, <2>1 DEF StartBackup, OtaGoto, TypeOK, LockHeld, Locals, Rewriting, OtaLocked, CmdLocked
<1>3. CASE CopySystem
  <2>1. TypeOK'
    BY <1>3 DEF CopySystem, OtaGoto, TypeOK, OtaPc, SectorData
  <2> QED
    BY <1>3, <2>1
    DEF CopySystem, OtaGoto, TypeOK, SectorData, LockHeld, Locals, Rewriting, OtaLocked, CmdLocked
<1>4. CASE EraseSystem
  <2>1. TypeOK'
    BY <1>4 DEF EraseSystem, OtaGoto, TypeOK, OtaPc, SectorData, Blank
  <2> QED
    BY <1>4, <2>1 DEF EraseSystem, OtaGoto, TypeOK, LockHeld, Locals, Rewriting, OtaLocked, CmdLocked
<1>5. CASE Restore
  <2>1. TypeOK'
    BY <1>5 DEF Restore, OtaGoto, TypeOK, OtaPc, SectorData
  <2> QED
    BY <1>5, <2>1
    DEF Restore, OtaGoto, TypeOK, SectorData, LockHeld, Locals, Rewriting, OtaLocked, CmdLocked
<1>6. CASE EraseBackup
  <2>1. TypeOK'
    BY <1>6, UnlockEffect DEF EraseBackup, OtaGoto, TypeOK, OtaPc, SectorData, Blank
  <2> QED
    BY <1>6, <2>1, UnlockEffect
    DEF EraseBackup, OtaGoto, TypeOK, LockHeld, Locals, Rewriting, OtaLocked, CmdLocked
<1> QED
  BY <1>1, <1>2, <1>3, <1>4, <1>5, <1>6 DEF RewriteStep

(* What the update does to the region. *)
ImageStep == Erase \/ WriteImage \/ WroteImage \/ Sign

(* A word that is programmed is a word. *)
LEMMA ProgramType == ASSUME NEW w \in Word PROVE Program(w, "set") \in Word
  BY DEF Program, Word

(* by the writing of the image, *)
LEMMA ImageTInv == ASSUME TInv, ImageStep PROVE TInv'
<1> USE SectorsAssumption DEF TInv
<1>1. CASE Erase
  <2> ota.file \in File /\ Announced[ota.file] \in 0 .. Sectors
    BY <1>1, FileAssumption DEF Erase, Locals
  <2>1. image' \in [Sector -> Content] /\ signature' \in Word \X Word /\ deselected' \in BOOLEAN
    BY <1>1 DEF Erase, TypeOK, Content, Word
  <2>2. CASE /\ ota.i < Announced[ota.file]
             /\ ota' = [ota EXCEPT !.i = @ + 1] /\ UNCHANGED lock
    <3>1. TypeOK'
      BY <1>1, <2>1, <2>2 DEF Erase, TypeOK
    <3> QED
      BY <1>1, <2>2, <3>1 DEF Erase, TypeOK, LockHeld, Locals, Rewriting, OtaLocked, CmdLocked
  <2>3. CASE ota' = [ota EXCEPT !.pc = "receive"] /\ Unlock("ota")
    <3>1. TypeOK'
      BY <1>1, <2>1, <2>3, UnlockEffect DEF Erase, TypeOK, OtaPc
    <3> QED
      BY <1>1, <2>3, <3>1, UnlockEffect
      DEF Erase, TypeOK, LockHeld, Locals, Rewriting, OtaLocked, CmdLocked
  <2> QED
    BY <1>1, <2>2, <2>3 DEF Erase, NewImg2BlkSize
<1>2. CASE WriteImage
  <2>1. image' \in [Sector -> Content]
    BY <1>2 DEF WriteImage, TypeOK, Content
  <2>2. TypeOK'
    BY <1>2, <2>1, LockEffect DEF WriteImage, OtaGoto, TypeOK, OtaPc
  <2> QED
    BY <1>2, <2>2, LockEffect
    DEF WriteImage, OtaGoto, TypeOK, LockHeld, Locals, Rewriting, OtaLocked, CmdLocked
<1>3. CASE WroteImage
  <2> ota.file \in File /\ Sent[ota.file] \in 1 .. Sectors
    BY <1>3, FileAssumption DEF WroteImage, Locals, Sector
  <2>1. image' \in [Sector -> Content]
    BY <1>3 DEF WroteImage, TypeOK, Content
  <2>2. ota.size + 1 \in 0 .. Sectors
    BY <1>3 DEF WroteImage, TypeOK, Locals
  <2>3. PICK p \in {"readback", "receive"} : ota' = [ota EXCEPT !.pc = p, !.size = ota.size + 1]
    BY <1>3 DEF WroteImage
  <2>4. TypeOK'
    BY <1>3, <2>1, <2>2, <2>3, UnlockEffect DEF WroteImage, TypeOK, OtaPc
  <2> QED
    BY <1>3, <2>3, <2>4, UnlockEffect
    DEF WroteImage, TypeOK, LockHeld, Locals, Rewriting, OtaLocked, CmdLocked
<1>4. CASE Sign
  <2>1. signature' \in Word \X Word
    BY <1>4, ProgramType DEF Sign, TypeOK
  <2>2. TypeOK'
    BY <1>4, <2>1, LockEffect, UnlockEffect DEF Sign, OtaGoto, TypeOK, OtaPc
  <2> QED
    BY <1>4, <2>2, LockEffect, UnlockEffect
    DEF Sign, OtaGoto, TypeOK, LockHeld, Locals, Rewriting, OtaLocked, CmdLocked
<1> QED
  BY <1>1, <1>2, <1>3, <1>4 DEF ImageStep

(* by cmd_ota_image, *)
LEMMA CmdTInv == ASSUME TInv, CmdStep PROVE TInv'
<1> USE SectorsAssumption DEF TInv
<1>1. CASE CmdOtaImage
  <2>1. TypeOK'
    BY <1>1, ChoicesAssumption DEF CmdOtaImage, flash, TypeOK, CmdPc
  <2> QED
    BY <1>1, <2>1 DEF CmdOtaImage, flash, TypeOK, LockHeld, Locals, Rewriting, OtaLocked, CmdLocked
<1>2. CASE CmdRead
  <2>1. image[1] \in Content
    BY DEF TypeOK, Sector
  <2>2. TypeOK'
    BY <1>2, <2>1, LockEffect DEF CmdRead, flash, TypeOK, CmdPc
  <2> QED
    BY <1>2, <2>2, LockEffect DEF CmdRead, flash, TypeOK, LockHeld, Locals, Rewriting, OtaLocked, CmdLocked
<1>3. CASE CmdErase
  <2>1. TypeOK'
    BY <1>3 DEF CmdErase, CmdGoto, TypeOK, CmdPc, Content, Word
  <2> QED
    BY <1>3, <2>1 DEF CmdErase, CmdGoto, TypeOK, LockHeld, Locals, Rewriting, OtaLocked, CmdLocked
<1>4. CASE CmdWrite
  <2>1. TypeOK'
    BY <1>4 DEF CmdWrite, CmdGoto, TypeOK, CmdPc, Content, Word
  <2> QED
    BY <1>4, <2>1 DEF CmdWrite, CmdGoto, TypeOK, LockHeld, Locals, Rewriting, OtaLocked, CmdLocked
<1>5. CASE CmdWrote
  <2>1. TypeOK'
    BY <1>5, UnlockEffect DEF CmdWrote, CmdGoto, TypeOK, CmdPc
  <2> QED
    BY <1>5, <2>1, UnlockEffect
    DEF CmdWrote, CmdGoto, TypeOK, LockHeld, Locals, Rewriting, OtaLocked, CmdLocked
<1> QED
  BY <1>1, <1>2, <1>3, <1>4, <1>5 DEF CmdStep

(* and by a reset. *)
LEMMA ResetTInv == ASSUME TInv, Reset PROVE TInv'
<1> USE DEF TInv, Reset
<1>1. image' \in [Sector -> Content] /\ lock' \in [{"flash"} -> {"none", "ota", "cmd"}]
  BY DEF TypeOK, Content
<1>2. ota' \in [pc : OtaPc, file : File \cup {"none"}, size : 0 .. Sectors, i : 0 .. Sectors, broken : BOOLEAN]
  BY SectorsAssumption DEF OtaIdle, OtaPc
<1>3. cmd' \in [pc : CmdPc, choice : BOOLEAN, buf : Content]
  BY DEF CmdIdle, CmdPc, Content
<1>4. TypeOK'
  BY <1>1, <1>2, <1>3 DEF TypeOK
<1>5. LockHeld' /\ Locals' /\ Rewriting'
  BY DEF OtaIdle, CmdIdle, LockHeld, Locals, Rewriting, OtaLocked, CmdLocked
<1> QED
  BY <1>4, <1>5

(* So they hold at all times. *)
LEMMA TInvariant == Spec => []TInv
<1>1. Init => TInv
  BY InitTInv
<1>2. ASSUME TInv, [Next]_vars PROVE TInv'
  <2>1. CASE OtaStep
    BY <1>2, <2>1, QuietOtaTInv, RewriteTInv, ImageTInv DEF OtaStep, QuietOta, RewriteStep, ImageStep
  <2>2. CASE CmdStep \/ Reset
    BY <1>2, <2>2, CmdTInv, ResetTInv
  <2>3. CASE UNCHANGED vars
    BY <1>2, <2>3 DEF TInv, vars, flash, TypeOK, LockHeld, Locals, Rewriting
  <2> QED
    BY <1>2, <2>1, <2>2, <2>3 DEF Next
<1> QED
  BY <1>1, <1>2, PTL DEF Spec

(* Every variable keeps its type, for any number of sectors and any files  *)
(* the server may send (update.c:393-697).                                 *)
THEOREM OtaTypes == Spec => []TypeOK
  BY TInvariant, PTL DEF TInv

(* A reset at any point of write_ota_addr_to_system_data leaves what the   *)
(* rewriting was to keep whole in one of the two sectors                   *)
(* (update.c:371-390).                                                     *)
THEOREM CopyKept == Spec => []RewriteKeepsCopy
<1>1. TInv => RewriteKeepsCopy
  BY DEF TInv, Rewriting, RewriteKeepsCopy
<1> QED
  BY <1>1, TInvariant, PTL

-----------------------------------------------------------------------------
(* The signature, when cmd_ota_image is never called to select.            *)
NeverSelects == Choices \subseteq {FALSE}

(* What a sector holds, or will hold when cmd_ota_image is done with it. *)
Holds(s, c) == IF s = 1 /\ cmd.pc \in CmdLocked THEN cmd.buf = c ELSE image[s] = c

(* cmd_ota_image between its read and its write: what it holds in its      *)
(* buffer stands for the first sector, which is then not to be trusted.    *)
CmdHolds ==
    /\ ~cmd.choice
    /\ cmd.pc = "erase" => cmd.buf = image[1]
    /\ cmd.pc = "write" => image[1] = Erased /\ signature[1] # "set"
    /\ cmd.pc = "writing" => image[1] = Half /\ signature[1] = "reset"

(* The update has erased the first sector and has not signed it. *)
Fresh ==
    \/ ota.pc \in {"receive", "write", "writing", "readback", "custom", "sign"}
    \/ ota.pc = "erase" /\ ota.i > 1

FreshUnsigned == Fresh => signature[1] # "set"

(* Nothing received yet: the first sector is not that of an image. *)
EmptyRegion ==
    /\ ota.pc = "erase" /\ ota.i > 1 => image[1] = Erased
    /\ ota.pc \in {"receive", "write", "readback", "custom"} /\ ota.size = 0 => Holds(1, Erased)

(* What was received has passed the comparison of the sums; and of the     *)
(* customer signature.                                                     *)
Compared ==
    /\ ota.pc \in {"custom", "sign", "sign2"} /\ ota.size # 0
       => ota.file \in Intact /\ \A s \in 1 .. Sent[ota.file] : Holds(s, ota.file)
    /\ ota.pc \in {"sign", "sign2"} => ota.size # 0 /\ ota.file \in Ours

SetIsComplete ==
    signature[1] = "set" => \E f \in Intact \cap Ours : \A s \in 1 .. Sent[f] : Holds(s, f)

(* A deselected image stays unsigned, and is not signed by an update that  *)
(* is under way.                                                           *)
Deselected ==
    deselected =>
        /\ signature[1] # "set"
        /\ Fresh \/ ota.pc = "sign2" => signature[1] = "reset" \/ cmd.pc = "write"

SInv == TInv /\ CmdHolds /\ FreshUnsigned /\ EmptyRegion /\ Compared /\ SetIsComplete /\ Deselected

(* Nothing is signed when the system starts, unless it is complete. *)
LEMMA InitSInv == Init => SInv
  BY InitTInv
  DEF Init, OtaIdle, CmdIdle, SInv, CmdHolds, Fresh, FreshUnsigned, EmptyRegion, Compared,
      SetIsComplete, Deselected, Erased

(* No name of a file is one of the words for what is not one. *)
LEMMA NotAFile == Erased \notin File /\ Started \notin File /\ Half \notin File
  BY FileAssumption DEF Erased, Started, Half

(* Outside its critical section cmd_ota_image holds nothing. *)
LEMMA HoldsFree ==
    ASSUME cmd.pc \notin CmdLocked, NEW s, NEW c
    PROVE  Holds(s, c) <=> image[s] = c
  BY DEF Holds

(* That is kept by the steps that leave the flash alone; ReadBack and      *)
(* CheckCustomSignature learn what they have tested,                       *)
LEMMA QuietOtaSInv == ASSUME SInv, QuietOta PROVE SInv'
<1> USE DEF SInv
<1>1. TInv'
  BY QuietOtaTInv
<1>2. /\ UNCHANGED <<flash, cmd, deselected>>
      /\ \A s, c : Holds(s, c)' <=> Holds(s, c)
  BY DEF QuietOta, UpdateOtaLocal, Connect, ReadInfo, Receive, ReadBack, CheckCustomSignature, Exit, flash, Holds
<1>3. CmdHolds' /\ SetIsComplete'
  BY <1>2 DEF CmdHolds, SetIsComplete, flash
<1>4. CASE UpdateOtaLocal \/ Connect \/ ReadInfo \/ Exit
  <2>1. ~Fresh' /\ ota'.pc \notin {"readback", "custom", "sign", "sign2"}
    <3>1. \/ ota'.pc \in {"idle", "connect", "addr", "exit"}
          \/ ota'.pc = "erase" /\ ota'.i = 1
      <4>1. CASE UpdateOtaLocal \/ Exit
        BY <4>1 DEF UpdateOtaLocal, Exit, OtaGoto, OtaIdle, TInv, TypeOK
      <4>2. CASE Connect
        BY <4>2 DEF Connect, TInv, TypeOK
      <4>3. CASE ReadInfo
        BY <4>3 DEF ReadInfo, TInv, TypeOK
      <4> QED
        BY <1>4, <4>1, <4>2, <4>3
    <3> QED
      BY <3>1 DEF Fresh
  <2>2. FreshUnsigned' /\ EmptyRegion' /\ Compared' /\ Deselected'
    BY <1>2, <2>1 DEF Fresh, FreshUnsigned, EmptyRegion, Compared, Deselected, flash
  <2> QED
    BY <1>1, <1>3, <2>2
<1>5. CASE Receive
  <2>1. ota.pc = "receive" /\ ota'.pc \in {"write", "readback", "exit"} /\ ota'.size = ota.size
    BY <1>5 DEF Receive, TInv, TypeOK
  <2>2. FreshUnsigned' /\ Deselected'
    BY <1>2, <2>1 DEF Fresh, FreshUnsigned, Deselected, flash
  <2>3. EmptyRegion' /\ Compared'
    BY <1>2, <2>1 DEF EmptyRegion, Compared
  <2> QED
    BY <1>1, <1>3, <2>2, <2>3
<1>6. CASE ReadBack
  <2>1. FreshUnsigned' /\ EmptyRegion' /\ Deselected'
    BY <1>2, <1>6
    DEF ReadBack, TInv, TypeOK, Fresh, FreshUnsigned, EmptyRegion, Compared, Deselected, flash
  <2>2. Compared'
    <3> SUFFICES ASSUME ota'.pc = "custom", ota.size # 0
                 PROVE  ota.file \in Intact /\ \A s \in 1 .. Sent[ota.file] : Holds(s, ota.file)
      BY <1>2, <1>6 DEF ReadBack, TInv, TypeOK, Compared
    <3>1. /\ ota.file \in Intact /\ ota.size = Sent[ota.file] /\ Sent[ota.file] \in Sector
          /\ \A s \in 1 .. Sent[ota.file] : image[s] = ota.file
      BY <1>6, FileAssumption DEF ReadBack, ChecksumsAgree, TInv, TypeOK, Locals
    <3>2. image[1] = ota.file /\ ota.file \in File
      BY <3>1, <1>6, SectorsAssumption DEF Sector, ReadBack, TInv, Locals
    <3>3. cmd.pc \notin {"write", "writing"}
      BY <3>2, NotAFile DEF CmdHolds
    <3> QED
      BY <3>1, <3>3 DEF Holds, CmdHolds, CmdLocked
  <2> QED
    BY <1>1, <1>3, <2>1, <2>2
<1>7. CASE CheckCustomSignature
  <2>1. cmd.pc \notin CmdLocked
    BY <1>7 DEF CheckCustomSignature, LockFree, TInv, LockHeld
  <2>2. FreshUnsigned' /\ EmptyRegion' /\ Deselected'
    BY <1>2, <1>7
    DEF CheckCustomSignature, TInv, TypeOK, Fresh, FreshUnsigned, EmptyRegion, Compared, Deselected, flash
  <2>3. Compared'
    <3> SUFFICES ASSUME ota'.pc = "sign" PROVE Compared'
      BY <1>7 DEF CheckCustomSignature, TInv, TypeOK, Compared
    <3>1. image[1] \in Ours
      BY <1>7 DEF CheckCustomSignature, CustomSignature, TInv, TypeOK
    <3>2. ota.size # 0
      BY <1>7, <2>1, <3>1, NotAFile, HoldsFree, FileAssumption DEF CheckCustomSignature, EmptyRegion
    <3>3. ota.file \in Intact /\ \A s \in 1 .. Sent[ota.file] : Holds(s, ota.file)
      BY <1>7, <3>2 DEF CheckCustomSignature, Compared
    <3>4. 1 \in 1 .. Sent[ota.file]
      BY <1>7, FileAssumption DEF CheckCustomSignature, TInv, Locals, Sector
    <3>5. ota.file \in Ours
      BY <2>1, <3>1, <3>3, <3>4, HoldsFree
    <3> QED
      BY <1>2, <1>7, <3>2, <3>3, <3>5 DEF CheckCustomSignature, TInv, TypeOK, Compared
  <2> QED
    BY <1>1, <1>3, <2>2, <2>3
<1> QED
  BY <1>4, <1>5, <1>6, <1>7 DEF QuietOta

(* by the rewriting of the system data, *)
LEMMA RewriteSInv == ASSUME SInv, RewriteStep PROVE SInv'
<1> USE DEF SInv
<1>1. TInv'
  BY RewriteTInv
<1>2. /\ UNCHANGED <<image, signature, cmd, deselected>>
      /\ \A s, c : Holds(s, c)' <=> Holds(s, c)
  BY DEF RewriteStep, WriteOtaAddr, StartBackup, CopySystem, EraseSystem, Restore, EraseBackup, Holds
<1>3. ota'.pc \in {"info", "backup", "copy", "copying", "erasesystem", "restore", "restoring", "erasebackup"}
  BY DEF RewriteStep, WriteOtaAddr, StartBackup, CopySystem, EraseSystem, Restore, EraseBackup, OtaGoto,
         TInv, TypeOK
<1>4. CmdHolds' /\ SetIsComplete'
  BY <1>2 DEF CmdHolds, SetIsComplete
<1>5. FreshUnsigned' /\ EmptyRegion' /\ Compared' /\ Deselected'
  BY <1>2, <1>3 DEF Fresh, FreshUnsigned, EmptyRegion, Compared, Deselected
<1> QED
  BY <1>1, <1>4, <1>5

(* by the writing of the image, which is signed only after both tests, *)
LEMMA ImageSInv == ASSUME SInv, ImageStep PROVE SInv'
<1> USE DEF SInv
<1>1. TInv'
  BY ImageTInv
<1>2. CASE Erase
  <2>1. ota.file \in File /\ Announced[ota.file] \in 0 .. Sectors /\ ota.i \in 1 .. Announced[ota.file]
    BY <1>2, FileAssumption DEF Erase, TInv, Locals
  <2>2. cmd.pc \notin CmdLocked /\ UNCHANGED cmd
    BY <1>2 DEF Erase, OtaLocked, TInv, LockHeld
  <2>3. image'[1] = Erased /\ signature'[1] # "set" /\ (deselected' => deselected /\ ota.i # 1)
    <3>1. 1 \in Sector /\ deselected \in BOOLEAN
      BY SectorsAssumption DEF Sector, TInv, TypeOK
    <3>2. CASE ota.i = 1
      BY <1>2, <3>1, <3>2 DEF Erase, EraseSector, TInv, TypeOK, Erased
    <3>3. CASE ota.i # 1
      <4>1. image[1] = Erased /\ signature[1] # "set"
        BY <1>2, <2>1, <3>3 DEF Erase, EmptyRegion, FreshUnsigned, Fresh
      <4>2. image'[1] = image[1] /\ signature' = signature /\ deselected' = deselected
        BY <1>2, <3>1, <3>3 DEF Erase, EraseSector, TInv, TypeOK
      <4> QED
        BY <3>3, <4>1, <4>2
    <3> QED
      BY <3>2, <3>3
  <2>4. signature'[1] = signature[1] \/ ota.i = 1
    BY <1>2 DEF Erase, EraseSector
  <2>5. ota'.pc \in {"erase", "receive"}
    BY <1>2 DEF Erase, TInv, TypeOK
  <2>6. CmdHolds' /\ FreshUnsigned' /\ SetIsComplete'
    BY <2>2, <2>3 DEF CmdHolds, CmdLocked, FreshUnsigned, SetIsComplete
  <2>7. EmptyRegion' /\ Compared'
    BY <2>2, <2>3, <2>5 DEF EmptyRegion, Compared, Holds
  <2>8. deselected' => Fresh /\ signature'[1] = signature[1]
    BY <1>2, <2>1, <2>3, <2>4 DEF Erase, Fresh
  <2>9. Deselected'
    BY <2>2, <2>3, <2>8 DEF Deselected, CmdLocked
  <2> QED
    BY <1>1, <2>6, <2>7, <2>9
<1>3. CASE WriteImage
  <2>1. ota.pc = "write" /\ ota'.pc = "writing" /\ UNCHANGED <<signature, cmd, deselected>>
    BY <1>3 DEF WriteImage, OtaGoto, TInv, TypeOK
  <2>2. cmd.pc \notin CmdLocked
    BY <1>3, LockEffect DEF WriteImage, TInv, LockHeld
  <2>3. signature[1] # "set"
    BY <2>1 DEF FreshUnsigned, Fresh
  <2>4. CmdHolds' /\ FreshUnsigned' /\ SetIsComplete'
    BY <2>1, <2>2, <2>3 DEF CmdHolds, CmdLocked, FreshUnsigned, SetIsComplete
  <2>5. EmptyRegion' /\ Compared' /\ Deselected'
    BY <2>1 DEF EmptyRegion, Compared, Deselected, Fresh
  <2> QED
    BY <1>1, <2>4, <2>5
<1>4. CASE WroteImage
  <2>1. /\ ota.pc = "writing" /\ ota'.pc \in {"readback", "receive"} /\ ota'.size # 0
        /\ UNCHANGED <<signature, cmd, deselected>>
    <3>1. PICK p \in {"readback", "receive"} : ota' = [ota EXCEPT !.pc = p, !.size = ota.size + 1]
      BY <1>4 DEF WroteImage
    <3> QED
      BY <1>4, <3>1 DEF WroteImage, TInv, TypeOK
  <2>2. cmd.pc \notin CmdLocked
    BY <1>4, UnlockEffect DEF WroteImage, TInv, LockHeld
  <2>3. signature[1] # "set"
    BY <2>1 DEF FreshUnsigned, Fresh
  <2>4. CmdHolds' /\ FreshUnsigned' /\ SetIsComplete'
    BY <2>1, <2>2, <2>3 DEF CmdHolds, CmdLocked, FreshUnsigned, SetIsComplete
  <2>5. EmptyRegion' /\ Compared' /\ Deselected'
    BY <2>1 DEF EmptyRegion, Compared, Deselected, Fresh
  <2> QED
    BY <1>1, <2>4, <2>5
<1>5. CASE Sign
  <2>1. cmd.pc \notin CmdLocked /\ UNCHANGED <<image, cmd, deselected>>
    BY <1>5, LockEffect, UnlockEffect DEF Sign, TInv, LockHeld
  <2>2. \A s, c : Holds(s, c)' <=> Holds(s, c)
    BY <2>1 DEF Holds
  <2>3. /\ ota.pc \in {"sign", "sign2"} /\ ota'.pc \in {"sign2", "exit"}
        /\ ota'.file = ota.file /\ ota'.size = ota.size
    BY <1>5 DEF Sign, OtaGoto, TInv, TypeOK
  <2>4. \A s \in 1 .. Sent[ota.file] : Holds(s, ota.file)
    BY <2>3 DEF Compared
  <2>5. ota.file \in Intact \cap Ours
    BY <2>3 DEF Compared
  <2>6. SetIsComplete' /\ Compared'
    BY <2>2, <2>3, <2>4, <2>5 DEF SetIsComplete, Compared
  <2>7. CmdHolds' /\ FreshUnsigned' /\ EmptyRegion'
    BY <2>1, <2>3 DEF CmdHolds, CmdLocked, FreshUnsigned, Fresh, EmptyRegion
  <2>8. Deselected'
    <3>1. deselected => signature[1] = "reset"
      BY <2>1, <2>3 DEF Deselected, Fresh, CmdLocked
    <3>2. signature[1] = "reset" => signature'[1] = "reset"
      BY <1>5 DEF Sign, Program, TInv, TypeOK, Word, Erased
    <3> QED
      BY <2>1, <3>1, <3>2 DEF Deselected
  <2> QED
    BY <1>1, <2>6, <2>7, <2>8
<1> QED
  BY <1>2, <1>3, <1>4, <1>5 DEF ImageStep

(* by cmd_ota_image, when it deselects, *)
LEMMA CmdSInv == ASSUME NeverSelects, SInv, CmdStep PROVE SInv'
<1> USE DEF SInv
<1>1. TInv'
  BY CmdTInv
<1>2. UNCHANGED ota
  BY DEF CmdStep, CmdOtaImage, CmdRead, CmdErase, CmdWrite, CmdWrote
<1>3. 1 \in Sector
  BY SectorsAssumption DEF Sector
<1>4. CASE CmdOtaImage
  <2>1. ~cmd'.choice /\ cmd'.pc \notin CmdLocked /\ cmd.pc \notin CmdLocked /\ cmd.pc # "write"
    BY <1>4 DEF CmdOtaImage, CmdLocked, NeverSelects, TInv, TypeOK
  <2>2. UNCHANGED <<image, signature, deselected>> /\ \A s, c : Holds(s, c)' <=> Holds(s, c)
    BY <1>4, <2>1 DEF CmdOtaImage, flash, Holds
  <2>3. CmdHolds' /\ FreshUnsigned' /\ Deselected'
    BY <1>2, <2>1, <2>2 DEF CmdHolds, CmdLocked, FreshUnsigned, Fresh, Deselected
  <2>4. EmptyRegion' /\ Compared' /\ SetIsComplete'
    BY <1>2, <2>2 DEF EmptyRegion, Compared, SetIsComplete
  <2> QED
    BY <1>1, <2>3, <2>4
<1>5. CASE CmdRead
  <2>1. /\ cmd.pc = "lock" /\ cmd'.pc = "erase" /\ cmd'.buf = image[1] /\ cmd'.choice = cmd.choice
        /\ UNCHANGED <<image, signature, deselected>>
    BY <1>5 DEF CmdRead, flash, TInv, TypeOK
  <2>2. \A s, c : Holds(s, c)' <=> Holds(s, c)
    BY <2>1 DEF Holds, CmdLocked
  <2>3. CmdHolds' /\ FreshUnsigned' /\ Deselected'
    BY <1>2, <2>1 DEF CmdHolds, FreshUnsigned, Fresh, Deselected
  <2>4. EmptyRegion' /\ Compared' /\ SetIsComplete'
    BY <1>2, <2>1, <2>2 DEF EmptyRegion, Compared, SetIsComplete
  <2> QED
    BY <1>1, <2>3, <2>4
<1>6. CASE CmdErase
  <2>1. /\ cmd.pc = "erase" /\ cmd'.pc = "write" /\ cmd'.buf = cmd.buf /\ cmd'.choice = cmd.choice
        /\ image'[1] = Erased /\ signature'[1] # "set" /\ UNCHANGED deselected
        /\ \A s : s # 1 => image'[s] = image[s]
    BY <1>3, <1>6 DEF CmdErase, CmdGoto, Erased, TInv, TypeOK
  <2>2. \A s, c : Holds(s, c)' <=> Holds(s, c)
    BY <2>1 DEF Holds, CmdLocked
  <2>3. CmdHolds' /\ FreshUnsigned' /\ Deselected' /\ SetIsComplete'
    BY <1>2, <2>1 DEF CmdHolds, FreshUnsigned, Deselected, SetIsComplete
  <2>4. ota.pc # "erase"
    BY <2>1 DEF TInv, LockHeld, OtaLocked, CmdLocked
  <2>5. EmptyRegion' /\ Compared'
    BY <1>2, <2>2, <2>4 DEF EmptyRegion, Compared
  <2> QED
    BY <1>1, <2>3, <2>5
<1>7. CASE CmdWrite
  <2>1. /\ cmd.pc = "write" /\ cmd'.pc = "writing" /\ cmd'.buf = cmd.buf /\ cmd'.choice = cmd.choice
        /\ image'[1] = Half /\ signature'[1] = "reset" /\ UNCHANGED deselected
        /\ \A s : s # 1 => image'[s] = image[s]
    BY <1>3, <1>7 DEF CmdWrite, CmdGoto, TInv, TypeOK, CmdHolds
  <2>2. \A s, c : Holds(s, c)' <=> Holds(s, c)
    BY <2>1 DEF Holds, CmdLocked
  <2>3. CmdHolds' /\ FreshUnsigned' /\ Deselected' /\ SetIsComplete'
    BY <1>2, <2>1 DEF CmdHolds, FreshUnsigned, Deselected, SetIsComplete
  <2>4. ota.pc # "erase"
    BY <2>1 DEF TInv, LockHeld, OtaLocked, CmdLocked
  <2>5. EmptyRegion' /\ Compared'
    BY <1>2, <2>2, <2>4 DEF EmptyRegion, Compared
  <2> QED
    BY <1>1, <2>3, <2>5
<1>8. CASE CmdWrote
  <2>1. /\ cmd.pc = "writing" /\ cmd'.pc = "reboot" /\ cmd'.choice = cmd.choice
        /\ image'[1] = cmd.buf /\ UNCHANGED signature
        /\ \A s : s # 1 => image'[s] = image[s]
    BY <1>3, <1>8 DEF CmdWrote, CmdGoto, TInv, TypeOK
  <2>2. \A s, c : Holds(s, c)' <=> Holds(s, c)
    BY <2>1 DEF Holds, CmdLocked
  <2>3. CmdHolds' /\ FreshUnsigned' /\ SetIsComplete'
    BY <1>2, <2>1 DEF CmdHolds, FreshUnsigned, SetIsComplete
  <2>4. signature[1] = "reset"
    BY <2>1 DEF CmdHolds
  <2>5. Deselected'
    BY <2>1, <2>4 DEF Deselected
  <2>6. ota.pc # "erase"
    BY <2>1 DEF TInv, LockHeld, OtaLocked, CmdLocked
  <2>7. EmptyRegion' /\ Compared'
    BY <1>2, <2>2, <2>6 DEF EmptyRegion, Compared
  <2> QED
    BY <1>1, <2>3, <2>5, <2>7
<1> QED
  BY <1>4, <1>5, <1>6, <1>7, <1>8 DEF CmdStep

(* and by a reset. *)
LEMMA ResetSInv == ASSUME SInv, Reset PROVE SInv'
<1> USE DEF SInv
<1>1. TInv'
  BY ResetTInv
<1>2. /\ cmd'.pc = "idle" /\ ~cmd'.choice /\ ota'.pc = "idle"
      /\ UNCHANGED <<signature, deselected>>
      /\ \A s \in Sector : image[s] \in File => image'[s] = image[s]
  BY NotAFile DEF Reset, CmdIdle, OtaIdle
<1>3. CmdHolds' /\ FreshUnsigned' /\ EmptyRegion' /\ Compared' /\ Deselected'
  BY <1>2 DEF CmdHolds, FreshUnsigned, Fresh, EmptyRegion, Compared, Deselected
<1>4. SetIsComplete'
  <2> SUFFICES ASSUME signature[1] = "set"
               PROVE  \E f \in Intact \cap Ours : \A s \in 1 .. Sent[f] : Holds(s, f)'
    BY <1>2 DEF SetIsComplete
  <2>1. PICK f \in Intact \cap Ours : \A s \in 1 .. Sent[f] : Holds(s, f)
    BY DEF SetIsComplete
  <2>2. \A s \in 1 .. Sent[f] : image[s] = f
    BY <2>1 DEF Holds, CmdHolds, CmdLocked
  <2>3. f \in File /\ \A s \in 1 .. Sent[f] : s \in Sector
    BY FileAssumption, SectorsAssumption DEF Sector
  <2>4. \A s \in 1 .. Sent[f] : Holds(s, f)'
    BY <1>2, <2>2, <2>3 DEF Holds, CmdLocked
  <2> QED
    BY <2>4
<1> QED
  BY <1>1, <1>3, <1>4

(* So it holds at all times. *)
LEMMA SInvariant == ASSUME NeverSelects PROVE Spec => []SInv
<1>1. Init => SInv
  BY InitSInv
<1>2. ASSUME SInv, [Next]_vars PROVE SInv'
  <2>1. CASE OtaStep
    BY <1>2, <2>1, QuietOtaSInv, RewriteSInv, ImageSInv DEF OtaStep, QuietOta, RewriteStep, ImageStep
  <2>2. CASE CmdStep \/ Reset
    BY <1>2, <2>2, CmdSInv, ResetSInv
  <2>3. CASE UNCHANGED vars
    BY <1>2, <2>3
    DEF SInv, TInv, vars, flash, TypeOK, LockHeld, Locals, Rewriting, CmdHolds, Fresh, FreshUnsigned,
        EmptyRegion, Compared, SetIsComplete, Deselected, Holds
  <2> QED
    BY <1>2, <2>1, <2>2, <2>3 DEF Next
<1> QED
  BY <1>1, <1>2, PTL DEF Spec

(* As long as cmd_ota_image is not called to select the image              *)
(* (update.c:1056), an image the boot loader takes is complete, unaltered  *)
(* and for this product, whatever is downloaded and whenever the           *)
(* processor is reset (update.c:547-680).                                  *)
THEOREM OnlyCompleteIsSigned == ASSUME NeverSelects PROVE Spec => []SignedIsComplete
<1>1. SInv => SignedIsComplete
  BY DEF SInv, CmdHolds, SetIsComplete, SignedIsComplete, Signed, Complete, Holds, CmdLocked
<1> QED
  BY <1>1, SInvariant, PTL

(* After cmd_ota_image(0) the update is not booted before another one has  *)
(* begun to replace it (update.c:1036-1077).                               *)
THEOREM DeselectionStays == ASSUME NeverSelects PROVE Spec => []DeselectedStays
<1>1. SInv => DeselectedStays
  BY DEF SInv, Deselected, DeselectedStays, BootsUpdate, Signed
<1> QED
  BY <1>1, SInvariant, PTL
-----------------------------------------------------------------------------
(* The update of a good image that no command has come across so far.      *)
Good ==
    /\ cmd.pc = "idle"
    /\ ota.file \in Intact \cap Ours
    /\ Announced[ota.file] = Sent[ota.file] /\ ~ota.broken

Blanks == signature = <<Erased, Erased>>

(* The first n sectors hold the image. *)
Written(n) == \A s \in 1 .. n : image[s] = ota.file

(* Nothing has been received before the region is erased. *)
NothingYet ==
    ota.pc \in OtaPc \ {"receive", "write", "writing", "readback", "custom", "sign", "sign2", "exit"}
    => ota.size = 0

(* The sectors are erased in order, the signature with the first of them.  *)
Erasing ==
    ota.pc = "erase" =>
        /\ \A s \in 1 .. ota.i - 1 : image[s] = Erased
        /\ ota.i > 1 => Blanks

(* What has come is in the region, what is to come finds it erased.        *)
Receiving ==
    ota.pc \in {"receive", "write", "writing"} =>
        /\ ota.size < Sent[ota.file] /\ Written(ota.size) /\ Blanks
        /\ image[ota.size + 1] = IF ota.pc = "writing" THEN Started ELSE Erased
        /\ \A s \in ota.size + 2 .. Sent[ota.file] : image[s] = Erased

(* An image that has come whole is in the region, and passes every test.   *)
Verified ==
    ota.size = Sent[ota.file] =>
        /\ ota.pc \in {"readback", "custom", "sign"} => Written(ota.size) /\ Blanks
        /\ ota.pc = "sign2" => signature = <<"set", Erased>>
        /\ ota.pc = "exit" => Signed

GInv == TInv /\ NothingYet /\ (Good => Erasing /\ Receiving /\ Verified)

(* No update is under way when the system starts. *)
LEMMA InitGInv == Init => GInv
<1> SUFFICES ASSUME Init PROVE GInv
  OBVIOUS
<1>1. ota.pc = "idle" /\ ota.size = 0 /\ ota.file = "none"
  BY DEF Init, OtaIdle
<1>2. NothingYet /\ ~Good
  BY <1>1, FileAssumption DEF NothingYet, Good
<1> QED
  BY <1>2, InitTInv DEF GInv

(* How large a good image is. *)
LEMMA GoodSize ==
    ASSUME TInv, Good
    PROVE  /\ ota.file \in File /\ ota.file # Erased /\ ota.file # Started
           /\ Sent[ota.file] \in 1 .. Sectors /\ Announced[ota.file] = Sent[ota.file]
           /\ ota.size \in 0 .. Sectors /\ ota.i \in 0 .. Sectors
<1>1. ota.file \in File
  BY FileAssumption DEF Good
<1> QED
  BY <1>1, FileAssumption, NotAFile DEF TInv, TypeOK, Good, Sector

(* A step of the update other than Connect neither changes what is         *)
(* downloaded nor mends it.                                                *)
LEMMA GoodBefore ==
    ASSUME TInv, UNCHANGED cmd, ota'.file = ota.file, ota.broken => ota'.broken, Good'
    PROVE  Good
  BY DEF Good

(* The steps that leave the flash alone: a whole image passes both tests. *)
LEMMA QuietGInv == ASSUME GInv, QuietOta PROVE GInv'
<1> USE DEF GInv
<1>1. TInv'
  BY QuietOtaTInv
<1>2. UNCHANGED <<image, signature, cmd>>
  BY DEF QuietOta, UpdateOtaLocal, Connect, ReadInfo, Receive, ReadBack, CheckCustomSignature, Exit, flash
<1>3. CASE UpdateOtaLocal \/ Connect \/ Exit
  <2>1. ota'.pc \in {"idle", "connect", "addr", "exit"} /\ ota'.size = 0
    <3>1. CASE UpdateOtaLocal
      BY <3>1 DEF UpdateOtaLocal, OtaGoto, TInv, TypeOK, NothingYet, OtaPc
    <3>2. CASE Connect
      BY <3>2 DEF Connect, TInv, TypeOK, NothingYet, OtaPc
    <3>3. CASE Exit
      BY <3>3 DEF Exit, OtaIdle
    <3> QED
      BY <1>3, <3>1, <3>2, <3>3
  <2>2. NothingYet'
    BY <2>1 DEF NothingYet
  <2>3. Good' => Sent[ota'.file] # 0
    BY FileAssumption DEF Good, Sector
  <2>4. Good' => Erasing' /\ Receiving' /\ Verified'
    BY <2>1, <2>3 DEF Erasing, Receiving, Verified
  <2> QED
    BY <1>1, <2>2, <2>4
<1>4. CASE ReadInfo
  <2>1. /\ ota'.file = ota.file /\ ota'.broken = ota.broken /\ ota'.size = ota.size /\ ota.size = 0
        /\ ota'.pc \in {"erase", "exit"} /\ (ota'.pc = "erase" => ota'.i = 1)
    BY <1>4 DEF ReadInfo, TInv, TypeOK, NothingYet, OtaPc
  <2>2. NothingYet'
    BY <2>1 DEF NothingYet
  <2>3. ASSUME Good' PROVE Erasing' /\ Receiving' /\ Verified'
    <3>1. Sent[ota'.file] # 0
      BY <2>3, FileAssumption DEF Good, Sector
    <3> QED
      BY <2>1, <3>1 DEF Erasing, Receiving, Verified
  <2> QED
    BY <1>1, <2>2, <2>3
<1>5. CASE Receive
  <2>1. /\ ota.pc = "receive" /\ ota'.pc \in {"write", "readback", "exit"}
        /\ ota'.file = ota.file /\ ota'.size = ota.size /\ (ota.broken => ota'.broken)
    <3>1. CASE \E short \in BOOLEAN : ota' = [ota EXCEPT !.pc = "write", !.broken = @ \/ short]
      <4>1. PICK b : ota' = [ota EXCEPT !.pc = "write", !.broken = b] /\ ota.broken => b
        BY <3>1
      <4> QED
        BY <1>5, <4>1 DEF Receive, TInv, TypeOK
    <3>2. CASE ota' = [ota EXCEPT !.pc = "readback"] \/ ota' = [ota EXCEPT !.pc = "exit"]
      BY <1>5, <3>2 DEF Receive, TInv, TypeOK
    <3> QED
      BY <1>5, <3>1, <3>2 DEF Receive
  <2>2. NothingYet'
    BY <2>1 DEF NothingYet
  <2>3. ASSUME Good' PROVE Erasing' /\ Receiving' /\ Verified'
    <3>1. Good
      BY <1>2, <2>1, <2>3, GoodBefore
    <3>2. ota.size < Sent[ota.file] /\ ota.size # Sent[ota.file]
      BY <2>1, <3>1, GoodSize DEF Receiving
    <3> QED
      BY <1>2, <2>1, <3>1, <3>2 DEF Erasing, Receiving, Verified, Written, Blanks
  <2> QED
    BY <1>1, <2>2, <2>3
<1>6. CASE ReadBack
  <2>1. /\ ota.pc = "readback" /\ ota'.pc = IF ChecksumsAgree THEN "custom" ELSE "exit"
        /\ ota'.file = ota.file /\ ota'.size = ota.size /\ ota'.broken = ota.broken
    BY <1>6 DEF ReadBack, TInv, TypeOK
  <2>2. NothingYet'
    BY <2>1 DEF NothingYet
  <2>3. ASSUME Good' PROVE Erasing' /\ Receiving' /\ Verified'
    <3>1. Good
      BY <1>2, <2>1, <2>3, GoodBefore
    <3>2. Erasing' /\ Receiving'
      BY <2>1 DEF Erasing, Receiving
    <3>3. ASSUME ota.size = Sent[ota.file] PROVE ChecksumsAgree /\ Written(ota.size) /\ Blanks
      BY <2>1, <3>1, <3>3 DEF Verified, Written, ChecksumsAgree, Good
    <3> QED
      BY <1>2, <2>1, <3>2, <3>3 DEF Verified, Written, Blanks
  <2> QED
    BY <1>1, <2>2, <2>3
<1>7. CASE CheckCustomSignature
  <2>1. /\ ota.pc = "custom" /\ ota'.pc = IF CustomSignature THEN "sign" ELSE "exit"
        /\ ota'.file = ota.file /\ ota'.size = ota.size /\ ota'.broken = ota.broken
    BY <1>7 DEF CheckCustomSignature, TInv, TypeOK
  <2>2. NothingYet'
    BY <2>1 DEF NothingYet
  <2>3. ASSUME Good' PROVE Erasing' /\ Receiving' /\ Verified'
    <3>1. Good
      BY <1>2, <2>1, <2>3, GoodBefore
    <3>2. Erasing' /\ Receiving'
      BY <2>1 DEF Erasing, Receiving
    <3>3. ASSUME ota.size = Sent[ota.file] PROVE CustomSignature /\ Written(ota.size) /\ Blanks
      <4>1. Written(ota.size) /\ Blanks
        BY <2>1, <3>1, <3>3 DEF Verified
      <4>2. image[1] = ota.file
        BY <3>1, <3>3, <4>1, GoodSize DEF Written
      <4> QED
        BY <3>1, <4>1, <4>2 DEF CustomSignature, Good
    <3> QED
      BY <1>2, <2>1, <3>2, <3>3 DEF Verified, Written, Blanks
  <2> QED
    BY <1>1, <2>2, <2>3
<1> QED
  BY <1>3, <1>4, <1>5, <1>6, <1>7 DEF QuietOta

(* The rewriting of the system data comes before the first sector. *)
LEMMA RewriteGInv == ASSUME GInv, RewriteStep PROVE GInv'
<1> USE DEF GInv
<1>1. TInv'
  BY RewriteTInv
<1>2. /\ ota.pc \in {"addr", "backup", "copy", "copying", "erasesystem", "restore", "restoring", "erasebackup"}
      /\ ota'.pc \in {"info", "backup", "copy", "copying", "erasesystem", "restore", "restoring", "erasebackup"}
      /\ ota'.size = ota.size
  BY DEF RewriteStep, WriteOtaAddr, StartBackup, CopySystem, EraseSystem, Restore, EraseBackup, OtaGoto,
         TInv, TypeOK
<1>3. ota'.size = 0 /\ NothingYet'
  BY <1>2 DEF NothingYet, OtaPc
<1>4. Good' => Sent[ota'.file] # 0
  BY FileAssumption DEF Good, Sector
<1>5. Good' => Erasing' /\ Receiving' /\ Verified'
  BY <1>2, <1>3, <1>4 DEF Erasing, Receiving, Verified
<1> QED
  BY <1>1, <1>3, <1>5

(* Every sector that will be written is erased. *)
LEMMA EraseGInv == ASSUME GInv, Erase PROVE GInv'
<1> USE SectorsAssumption DEF GInv
<1>1. TInv'
  BY ImageTInv DEF ImageStep
<1>2. /\ ota.pc = "erase" /\ ota'.file = ota.file /\ ota'.broken = ota.broken
      /\ ota'.size = ota.size /\ UNCHANGED cmd
      /\ \/ ota.i < Announced[ota.file] /\ ota'.pc = "erase" /\ ota'.i = ota.i + 1
         \/ ~(ota.i < Announced[ota.file]) /\ ota'.pc = "receive"
  BY DEF Erase, NewImg2BlkSize, TInv, TypeOK
<1>3. ota.size = 0 /\ NothingYet'
  BY <1>2 DEF NothingYet, OtaPc
<1>4. ASSUME Good' PROVE Erasing' /\ Receiving' /\ Verified'
  <2>1. Good
    BY <1>2, <1>4, GoodBefore
  <2>2. DEFINE n == Sent[ota.file]
  <2>3. n \in 1 .. Sectors /\ ota.i \in 1 .. n /\ Announced[ota.file] = n
    BY <1>2, <2>1, GoodSize DEF TInv, Locals
  <2>4. \A s \in 1 .. ota.i : image'[s] = Erased
    <3> SUFFICES ASSUME NEW s \in 1 .. ota.i PROVE image'[s] = Erased
      OBVIOUS
    <3>1. s \in Sector /\ (s # ota.i => s \in 1 .. ota.i - 1)
      BY <2>3 DEF Sector
    <3>2. s # ota.i => image[s] = Erased
      BY <1>2, <2>1, <3>1 DEF Erasing
    <3> QED
      BY <3>1, <3>2 DEF Erase, EraseSector, TInv, TypeOK
  <2>5. Blanks'
    BY <1>2, <2>1, <2>3 DEF Erase, EraseSector, Erasing, Blanks
  <2>6. CASE ota'.pc = "erase"
    BY <1>2, <1>3, <2>3, <2>4, <2>5, <2>6 DEF Erasing, Receiving, Verified
  <2>7. CASE ota'.pc = "receive"
    <3>1. ota.i = n
      BY <1>2, <2>3, <2>7
    <3> HIDE DEF n
    <3>2. ota'.size = 0 /\ Sent[ota'.file] = n
      BY <1>2, <1>3 DEF n
    <3>3. Written(0)' /\ image'[1] = Erased /\ \A s \in 2 .. n : image'[s] = Erased
      BY <2>3, <2>4, <3>1 DEF Written
    <3> QED
      BY <2>3, <2>5, <2>7, <3>2, <3>3 DEF Erasing, Receiving, Verified, Written
  <2> QED
    BY <1>2, <2>6, <2>7
<1> QED
  BY <1>1, <1>3, <1>4

(* Only an erased sector is written. *)
LEMMA WriteGInv == ASSUME GInv, WriteImage PROVE GInv'
<1> USE SectorsAssumption DEF GInv
<1>1. TInv'
  BY ImageTInv DEF ImageStep
<1>2. /\ ota.pc = "write" /\ ota'.pc = "writing" /\ ota'.file = ota.file
      /\ ota'.broken = ota.broken /\ ota'.size = ota.size /\ UNCHANGED <<cmd, signature>>
  BY DEF WriteImage, OtaGoto, TInv, TypeOK
<1>3. NothingYet'
  BY <1>2 DEF NothingYet
<1>4. ASSUME Good' PROVE Erasing' /\ Receiving' /\ Verified'
  <2>1. Good
    BY <1>2, <1>4, GoodBefore
  <2>2. /\ ota.size < Sent[ota.file] /\ Sent[ota.file] \in 1 .. Sectors /\ ota.size \in 0 .. Sectors
        /\ Written(ota.size) /\ Blanks /\ image[ota.size + 1] = Erased
        /\ \A s \in ota.size + 2 .. Sent[ota.file] : image[s] = Erased
    BY <1>2, <2>1, GoodSize DEF Receiving
  <2>3. image' = [image EXCEPT ![ota.size + 1] = Started] /\ ota.size + 1 \in Sector
    BY <2>2 DEF WriteImage, Sector, TInv, TypeOK
  <2>4. image'[ota.size + 1] = Started /\ \A s \in Sector : s # ota.size + 1 => image'[s] = image[s]
    BY <2>3 DEF TInv, TypeOK
  <2>5. \A s \in 1 .. ota.size : image'[s] = ota.file
    BY <2>2, <2>4 DEF Written, Sector
  <2>6. \A s \in ota.size + 2 .. Sent[ota.file] : image'[s] = Erased
    BY <2>2, <2>4 DEF Sector
  <2>7. Receiving'
    BY <1>2, <2>2, <2>4, <2>5, <2>6 DEF Receiving, Written, Blanks
  <2> QED
    BY <1>2, <2>2, <2>7 DEF Erasing, Verified
<1> QED
  BY <1>1, <1>3, <1>4

(* What has been written is what has come; the last of it ends the loop. *)
LEMMA WroteGInv == ASSUME GInv, WroteImage PROVE GInv'
<1> USE SectorsAssumption DEF GInv
<1>1. TInv'
  BY ImageTInv DEF ImageStep
<1>2. /\ ota.pc = "writing" /\ ota'.file = ota.file /\ ota'.broken = ota.broken
      /\ ota'.size = ota.size + 1 /\ UNCHANGED <<cmd, signature>>
      /\ \/ ota'.pc = "readback" /\ ota'.size = Announced[ota.file]
         \/ ota'.pc = "receive" /\ (ota'.size = Announced[ota.file] => Sent[ota.file] > ota'.size)
  BY DEF WroteImage, TInv, TypeOK
<1>3. NothingYet'
  BY <1>2 DEF NothingYet
<1>4. ASSUME Good' PROVE Erasing' /\ Receiving' /\ Verified'
  <2>1. Good
    BY <1>2, <1>4, GoodBefore
  <2>2. /\ ota.size < Sent[ota.file] /\ Sent[ota.file] \in 1 .. Sectors /\ ota.size \in 0 .. Sectors
        /\ Written(ota.size) /\ Blanks /\ image[ota.size + 1] = Started
        /\ \A s \in ota.size + 2 .. Sent[ota.file] : image[s] = Erased
    BY <1>2, <2>1, GoodSize DEF Receiving
  <2>3. image' = [image EXCEPT ![ota.size + 1] = ota.file] /\ ota.size + 1 \in Sector
    BY <2>2 DEF WroteImage, Sector, TInv, TypeOK
  <2>4. image'[ota.size + 1] = ota.file /\ \A s \in Sector : s # ota.size + 1 => image'[s] = image[s]
    BY <2>3 DEF TInv, TypeOK
  <2>5. \A s \in 1 .. ota.size + 1 : image'[s] = ota.file
    BY <2>2, <2>4 DEF Written, Sector
  <2>6. \A s \in ota.size + 2 .. Sent[ota.file] : image'[s] = Erased
    BY <2>2, <2>4 DEF Sector
  <2>7. Written(ota.size)' /\ Blanks'
    BY <1>2, <2>2, <2>5 DEF Written, Blanks
  <2>8. CASE ota'.pc = "readback"
    BY <2>7, <2>8 DEF Erasing, Receiving, Verified
  <2>9. CASE ota'.pc = "receive"
    <3>1. ota.size + 1 < Sent[ota.file]
      BY <1>2, <2>1, <2>2, <2>9, GoodSize
    <3>2. image'[ota.size + 2] = Erased /\ \A s \in ota.size + 3 .. Sent[ota.file] : image'[s] = Erased
      BY <2>2, <2>6, <3>1
    <3>3. ota'.size + 1 = ota.size + 2 /\ ota'.size + 2 = ota.size + 3 /\ ota'.size < Sent[ota'.file]
      BY <1>2, <2>2, <3>1
    <3>4. Receiving'
      BY <1>2, <2>7, <2>9, <3>2, <3>3 DEF Receiving
    <3>5. ota'.size # Sent[ota'.file]
      BY <1>2, <2>2, <3>1
    <3> QED
      BY <2>9, <3>4, <3>5 DEF Erasing, Verified
  <2> QED
    BY <1>2, <2>8, <2>9
<1> QED
  BY <1>1, <1>3, <1>4

(* The signature is programmed over erased words, first the one and then   *)
(* the other.                                                              *)
LEMMA SignGInv == ASSUME GInv, Sign PROVE GInv'
<1> USE DEF GInv
<1>1. TInv'
  BY ImageTInv DEF ImageStep
<1>2. /\ ota'.file = ota.file /\ ota'.broken = ota.broken /\ ota'.size = ota.size
      /\ UNCHANGED <<cmd, image>>
      /\ \/ /\ ota.pc = "sign" /\ ota'.pc = "sign2"
            /\ signature' = [signature EXCEPT ![1] = Program(@, "set")]
         \/ /\ ota.pc = "sign2" /\ ota'.pc = "exit"
            /\ signature' = [signature EXCEPT ![2] = Program(@, "set")]
  BY DEF Sign, OtaGoto, TInv, TypeOK
<1>3. NothingYet'
  BY <1>2 DEF NothingYet
<1>4. ASSUME Good' PROVE Erasing' /\ Receiving' /\ Verified'
  <2>1. Good
    BY <1>2, <1>4, GoodBefore
  <2>2. Erasing' /\ Receiving'
    BY <1>2 DEF Erasing, Receiving
  <2>3. ota.size = Sent[ota.file] /\ ota.pc = "sign" => signature' = <<"set", Erased>>
    BY <1>2, <2>1 DEF Verified, Blanks, Program
  <2>4. ota.size = Sent[ota.file] /\ ota.pc = "sign2" => signature' = <<"set", "set">>
    BY <1>2, <2>1 DEF Verified, Program
  <2> QED
    BY <1>2, <2>2, <2>3, <2>4 DEF Verified, Signed
<1> QED
  BY <1>1, <1>3, <1>4

(* A command ends what is said of the update. *)
LEMMA CmdGInv == ASSUME GInv, CmdStep PROVE GInv'
<1> USE DEF GInv
<1>1. TInv'
  BY CmdTInv
<1>2. UNCHANGED ota /\ cmd'.pc # "idle"
  BY DEF CmdStep, CmdOtaImage, CmdRead, CmdErase, CmdWrite, CmdWrote, CmdGoto, TInv, TypeOK
<1> QED
  BY <1>1, <1>2 DEF NothingYet, Good

(* A reset ends it. *)
LEMMA ResetGInv == ASSUME GInv, Reset PROVE GInv'
<1> USE DEF GInv
<1>1. TInv'
  BY ResetTInv
<1>2. ota'.pc = "idle" /\ ota'.size = 0 /\ ota'.file = "none"
  BY DEF Reset, OtaIdle
<1>3. NothingYet' /\ ~Good'
  BY <1>2, FileAssumption DEF NothingYet, Good
<1> QED
  BY <1>1, <1>3

(* So a good update is on its way at all times. *)
LEMMA GInvariant == Spec => []GInv
<1>1. Init => GInv
  BY InitGInv
<1>2. ASSUME GInv, [Next]_vars PROVE GInv'
  <2>1. CASE QuietOta \/ RewriteStep
    BY <1>2, <2>1, QuietGInv, RewriteGInv
  <2>2. CASE ImageStep
    BY <1>2, <2>2, EraseGInv, WriteGInv, WroteGInv, SignGInv DEF ImageStep
  <2>3. CASE CmdStep \/ Reset
    BY <1>2, <2>3, CmdGInv, ResetGInv
  <2>4. CASE UNCHANGED vars
    BY <1>2, <2>4
    DEF GInv, TInv, vars, flash, TypeOK, LockHeld, Locals, Rewriting, Good, NothingYet, Erasing,
        Receiving, Verified, Written, Blanks, Signed
  <2> QED
    BY <1>2, <2>1, <2>2, <2>3, <2>4 DEF Next, OtaStep, QuietOta, RewriteStep, ImageStep
<1> QED
  BY <1>1, <1>2, PTL DEF Spec

(* An image that is good, announced with its size and received whole, and  *)
(* with no cmd_ota_image in between, passes every test and is signed       *)
(* (update.c:547-680), for any number of sectors.                          *)
THEOREM GoodUpdates == Spec => []GoodUpdateSucceeds
<1>1. GInv => GoodUpdateSucceeds
  BY DEF GInv, Good, Verified, GoodUpdateSucceeds
<1> QED
  BY <1>1, GInvariant, PTL
=============================================================================
