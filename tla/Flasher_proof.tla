---------------------------- MODULE Flasher_proof ---------------------------
(***************************************************************************)
(* Proof that updating the firmware never leaves a device that cannot be   *)
(* updated again (NeverBricked), and that it is flashed when chilictl says *)
(* so (CompleteMeansFlashed), for every size of flash and of files, any    *)
(* number of runs and any number of failures.                              *)
(*                                                                         *)
(* A program is safe while it runs, since neither may write to itself:     *)
(* RunsWhatWorks.  What a device starts with is another matter, and hangs  *)
(* on the order of the commands.  So the invariant says of each command on *)
(* its way that it does no harm (CommandSafe), and of the host's state what*)
(* it has been told of the device: nothing until the answer to the boot    *)
(* mode command is there, and from then on that the device starts with the *)
(* program that is not replaced (Committed).                               *)
(***************************************************************************)
EXTENDS Flasher, TLAPS

Areas == {"APROM", "LDROM"}
Contents == {"old", "blank", "junk", "app", "both", "dfu", "manu"}
Region(area) == IF area = "LDROM" THEN LdromBase..(LdromBase + LdromSize - 1)
                ELSE 0..(ManuPage - 1)

AppWorks == Works("APROM")
LoaderWorks == Works("LDROM")
AreaWorks(area) == IF area = "LDROM" THEN LoaderWorks ELSE AppWorks

Typed ==
    /\ running \in BOOLEAN /\ open \in BOOLEAN /\ exposed \in BOOLEAN /\ works \in BOOLEAN
    /\ mCounter \in Nat /\ mFlashType \in FlashTypes /\ mOtaBootFilePresent \in BOOLEAN
    /\ mAppName \in {"app", "dfu"} /\ mode \in {"app", "dfu", "boot", "dead"}
    /\ vector \in Areas \union {"none"} /\ bootMode \in Areas
    /\ flash \in [Addresses -> Contents]
    /\ command.op \in {"none", "reboot", "bootmode", "erase", "write", "check", "metadata"}
    /\ answer.op \in {"none", "success", "failure"}
    /\ command.op # "none" => answer.op = "none"
    /\ mOtaBootFilePresent => mFlashType \in Programs

CommandTyped ==
    /\ command.op \in {"reboot", "bootmode"} => command.where \in Areas
    /\ command.op = "erase" => command \in [op : {"erase"}, from : Nat, to : Nat]
    /\ command.op = "write" => command.at \in Nat /\ command.image \in Contents

RunsWhatWorks ==
    /\ mode = "app" => AppWorks /\ vector # "LDROM"
    /\ mode = "dfu" => LoaderWorks /\ vector # "APROM"

\* Neither an application, nor on the way to one
StaysInLdrom == bootMode = "LDROM" /\ mode # "app" /\ vector # "APROM"

Committed == IF mFlashType \in Programs THEN StaysInLdrom ELSE bootMode = "APROM"

CommandSafe ==
    /\ command.op = "bootmode" => AreaWorks(command.where)
    /\ command.op = "erase" => \/ StaysInLdrom
                               \/ command.from = ManuPage /\ command.to = ApromSize
                               \/ bootMode = "APROM" /\ command.from >= LdromBase
    /\ command.op = "write" => \/ bootMode = "LDROM" /\ command.at < LdromBase
                               \/ command.at \in ManuPage..(ApromSize - 1)
                               \/ bootMode = "APROM" /\ command.at >= LdromBase

\* The host before it has had the answer to the boot mode command
Beginning ==
    running /\ mState \in {"INIT", "OTA_ERASE", "REBOOT"} =>
        /\ command.op \in {"none", "reboot", "bootmode", "metadata"}
        /\ mState # "REBOOT" => command.op \in {"none", "metadata"}
        /\ mState = "REBOOT" =>
               /\ command.op # "metadata"
               /\ command.op = "bootmode" =>
                      /\ command.where = BootModeWanted
                      /\ mFlashType \in Programs => mode = "dfu"
               /\ answer.op = "success" => Committed
        /\ mState = "INIT" => command.op = "none"
        /\ mState = "OTA_ERASE" => mFlashType \in Programs
        /\ mFlashType \notin Programs /\ mAppName = "app" => AppWorks
        /\ mFlashType = "MANUFACTURER" /\ (mState = "INIT" \/ ~open) => mAppName = "app"

Programming ==
    running /\ mState \in {"ERASE", "FLASH", "VERIFY"} =>
        /\ command.op \in {"none", "erase", "write", "check"}
        /\ Committed

Safe == AreaWorks(bootMode) /\ CommandSafe /\ Beginning /\ Programming

IInv == Typed /\ CommandTyped /\ RunsWhatWorks /\ (exposed \/ Safe)

----------------------------------------------------------------------------
(* Flash.                                                                  *)

\* Each program lies in its own region.
LEMMA FilledLies ==
    /\ Filled("app") \subseteq Region("APROM")
    /\ Filled("both") \subseteq Region("APROM")
    /\ Filled("dfu") \subseteq Region("LDROM")
  BY FlasherAssumption DEF Filled, Region, Start, ManuPage, LdromBase, Files

LEMMA RegionsLie ==
    /\ Region("APROM") \subseteq Addresses
    /\ Region("LDROM") \subseteq Addresses
  BY FlasherAssumption DEF Region, Addresses, ManuPage, LdromBase, Files

\* What is not written to works as before.
LEMMA AppKept ==
  ASSUME UNCHANGED works, \A a \in Region("APROM") : flash'[a] = flash[a]
  PROVE  AppWorks' = AppWorks
<1>1. \A a \in Filled("app") \union Filled("both") : flash'[a] = flash[a]
  BY FilledLies
<1> QED  BY <1>1 DEF AppWorks, Works, Holds

LEMMA LoaderKept ==
  ASSUME UNCHANGED works, \A a \in Region("LDROM") : flash'[a] = flash[a]
  PROVE  LoaderWorks' = LoaderWorks
<1>1. \A a \in Filled("dfu") : flash'[a] = flash[a]
  BY FilledLies
<1> QED  BY <1>1 DEF LoaderWorks, Works, Holds

LEMMA FlashKept ==
  ASSUME UNCHANGED works, UNCHANGED flash
  PROVE  AppWorks' = AppWorks /\ LoaderWorks' = LoaderWorks
  BY AppKept, LoaderKept

\* The data of the manufacturer fill a part of one page.
LEMMA ManuPages ==
  ASSUME mFlashType = "MANUFACTURER"
  PROVE  Image = "manu" /\ Start(Image) = ManuPage /\ EraseEnd = ApromSize
<1> DEFINE n == Sizes["manu"] + PageSize - 1
           q == n \div PageSize
<1>1. Image = "manu" /\ Start(Image) = ManuPage /\ mCombinedFileSize(Image) = Sizes["manu"]
  BY DEF Image, Start, mCombinedFileSize
<1>2. Sizes["manu"] \in Nat \ {0} /\ PageSize \in Nat \ {0} /\ ApromSize \in Nat /\ Sizes["manu"] < PageSize
  BY FlasherAssumption DEF Files
<1>3. n \in Nat /\ PageSize <= n /\ n < 2 * PageSize
  BY <1>2
<1> HIDE DEF n
<1>4. q \in Nat /\ PageSize * q <= n /\ n < PageSize * q + PageSize
  BY <1>2, <1>3
<1> HIDE DEF q
<1>5. q = 1
  <2>1. CASE q = 0  BY <2>1, <1>2, <1>3, <1>4
  <2>2. CASE q >= 2
    <3>1. PageSize * q >= PageSize * 2  BY <2>2, <1>2, <1>4
    <3> QED  BY <3>1, <1>2, <1>3, <1>4
  <2> QED  BY <2>1, <2>2, <1>4
<1>6. EraseEnd = ManuPage + q * PageSize
  BY <1>1 DEF EraseEnd, Clears, q, n
<1> QED  BY <1>1, <1>2, <1>5, <1>6 DEF ManuPage

----------------------------------------------------------------------------
(* The host.  It leaves the device alone: what works, works.               *)

LEMMA Constants ==
    /\ PageSize \in Nat \ {0} /\ ApromSize \in Nat \ {0} /\ LdromSize \in Nat \ {0}
    /\ AppStart \in Nat /\ AppStart + Sizes["app"] <= ManuPage /\ ManuPage \in Nat
    /\ ManuPage < ApromSize /\ LdromBase = ApromSize + 1
    /\ \A f \in Files : Sizes[f] \in Nat \ {0}
    /\ Sizes["manu"] < PageSize /\ Sizes["dfu"] < LdromSize /\ ManuPage + PageSize = ApromSize
  BY FlasherAssumption DEF ManuPage, LdromBase, Files

LEMMA StartRunStep ==
  ASSUME IInv, NEW type \in FlashTypes, NEW ota \in BOOLEAN, StartRun(type, ota)
  PROVE  IInv'
<1>1. AppWorks' = AppWorks /\ LoaderWorks' = LoaderWorks
  BY FlashKept DEF StartRun, device
<1> QED
  BY <1>1 DEF IInv, Typed, CommandTyped, RunsWhatWorks, Safe, AreaWorks, CommandSafe,
                     Beginning, Programming, Committed, StaysInLdrom,
      StartRun, None, Programs, vars, host, kept, device, history

LEMMA SendRebootStep ==
  ASSUME IInv, running, NEW where \in Areas, NEW next \in {"REBOOT", "VALIDATE", "COMPLETE"},
         SendReboot(where, next), UNCHANGED <<kept, device>>, mAppName' \in {"app", "dfu"},
         next = "REBOOT" => mState \in {"INIT", "OTA_ERASE"} /\ mAppName' = mAppName
  PROVE  IInv'
<1>1. UNCHANGED <<works, exposed, mode, vector, bootMode, flash, running, mFlashType, mOtaBootFilePresent>>
  BY DEF SendReboot, history, kept, device
<1>2. AppWorks' = AppWorks /\ LoaderWorks' = LoaderWorks
  BY <1>1, FlashKept
<1>3. /\ command'.op \in {"none", "reboot"} /\ (command'.op = "reboot" => command'.where = where)
      /\ answer'.op = "none" /\ mCounter' = 0
      /\ \/ mState' = next /\ open' = FALSE
         \/ mState' = "FAIL" /\ open' = open
  BY DEF SendReboot, Request, set_state, None, DFU_REBOOT
<1>4. Typed' /\ CommandTyped' /\ RunsWhatWorks'
  BY <1>1, <1>2, <1>3, ZenonT(40) DEF IInv, Typed, CommandTyped, RunsWhatWorks, Areas
<1>5. ASSUME Safe  PROVE Safe'
  <2>1. AreaWorks(bootMode)' /\ CommandSafe'
    BY <1>1, <1>2, <1>3, <1>5 DEF Safe, AreaWorks, CommandSafe
  <2>2. Beginning'
    BY <1>1, <1>2, <1>3, <1>5 DEF Safe, Beginning, Programs
  <2>3. Programming'
    BY <1>1, <1>3 DEF Programming
  <2> QED  BY <2>1, <2>2, <2>3 DEF Safe
<1> QED  BY <1>1, <1>4, <1>5 DEF IInv

LEMMA InitStep ==
  ASSUME IInv, running, init
  PROVE  IInv'
<1>1. CASE send_reboot_request
  BY <1>1, SendRebootStep DEF init, send_reboot_request, Areas, IInv, Typed
<1>2. CASE ~send_reboot_request
  <2>1. UNCHANGED <<device, history, command, answer, mAppName, kept>>
    BY <1>2 DEF init
  <2>2. AppWorks' = AppWorks /\ LoaderWorks' = LoaderWorks
    BY <2>1, FlashKept DEF device, history
  <2>3. /\ mState = "INIT" /\ mCounter' = 0
        /\ \/ mState' = "FAIL" /\ open' = open
           \/ mState' = "OTA_ERASE" /\ open' = TRUE /\ mOtaBootFilePresent
    BY <1>2 DEF init, set_state
  <2>4. Typed' /\ CommandTyped' /\ RunsWhatWorks'
    <3>1. open' \in BOOLEAN
      BY <2>3 DEF IInv, Typed
    <3>2. Typed'
      BY <2>1, <2>3, <3>1 DEF IInv, Typed, kept, device, history
    <3>3. CommandTyped'
      BY <2>1 DEF IInv, CommandTyped
    <3>4. RunsWhatWorks'
      BY <2>1, <2>2 DEF IInv, RunsWhatWorks, device
    <3> QED  BY <3>2, <3>3, <3>4
  <2>5. ASSUME Safe  PROVE Safe'
    <3>1. UNCHANGED <<mode, vector, bootMode, command, answer, mAppName, running, mFlashType>>
      BY <2>1 DEF kept, device
    <3>2. AreaWorks(bootMode)' /\ CommandSafe'
      BY <2>2, <2>5, <3>1 DEF Safe, AreaWorks, CommandSafe, StaysInLdrom
    <3>3. Beginning'
      BY <2>2, <2>3, <2>5, <3>1 DEF Safe, Beginning, IInv, Typed, Programs
    <3>4. Programming'
      BY <2>3 DEF Programming
    <3> QED  BY <3>2, <3>3, <3>4 DEF Safe
  <2> QED  BY <2>1, <2>4, <2>5 DEF IInv, history
<1> QED  BY <1>1, <1>2

LEMMA OtaEraseStep ==
  ASSUME IInv, running, ota_erase
  PROVE  IInv'
<1>1. AppWorks' = AppWorks /\ LoaderWorks' = LoaderWorks
  BY FlashKept DEF ota_erase, device, history
<1> QED
  BY <1>1 DEF IInv, Typed, CommandTyped, RunsWhatWorks, Safe, AreaWorks, CommandSafe,
                     Beginning, Programming, Committed, StaysInLdrom,
      ota_erase, Request, EraseMetadata, None, vars, host, kept, device, history

\* What remains to be shown of a step of the host
LEMMA HostStep ==
  ASSUME IInv, UNCHANGED <<device, works, exposed>>, Typed', CommandTyped',
         Safe /\ ~exposed => CommandSafe' /\ Beginning' /\ Programming'
  PROVE  IInv'
<1>1. AppWorks' = AppWorks /\ LoaderWorks' = LoaderWorks
  BY FlashKept DEF device
<1>2. RunsWhatWorks' /\ (Safe => AreaWorks(bootMode)')
  BY <1>1 DEF IInv, RunsWhatWorks, Safe, AreaWorks, device
<1> QED  BY <1>2 DEF IInv, Safe

LEMMA RebootStep ==
  ASSUME IInv, running, reboot
  PROVE  IInv'
<1>1. UNCHANGED <<device, works, exposed, running, mFlashType, mOtaBootFilePresent>>
  BY DEF reboot, history, kept
<1>2. AppWorks' = AppWorks /\ LoaderWorks' = LoaderWorks
  BY <1>1, FlashKept DEF device
<1>3. UNCHANGED <<mode, vector, bootMode, flash>>
  BY <1>1 DEF device
<1>4. CASE UNCHANGED <<open, mAppName, command, answer>>
  <2>1. mState = "REBOOT" /\ mState' \in {"REBOOT", "FAIL"} /\ mCounter' \in Nat
    BY <1>4 DEF reboot, set_state, IInv, Typed
  <2>2. Typed' /\ CommandTyped'
    BY <1>1, <1>3, <1>4, <2>1 DEF IInv, Typed, CommandTyped
  <2>3. Safe => CommandSafe' /\ Programming'
    BY <1>2, <1>3, <1>4, <2>1 DEF Safe, CommandSafe, AreaWorks, StaysInLdrom, Programming
  <2>4. Safe => Beginning'
    BY <1>1, <1>2, <1>3, <1>4, <2>1 DEF Safe, Beginning, BootModeWanted, Committed, StaysInLdrom
  <2> QED  BY <1>1, <2>2, <2>3, <2>4, HostStep
<1>5. CASE ~UNCHANGED <<open, mAppName, command, answer>>
  <2>1. /\ mState = "REBOOT" /\ mState' = "REBOOT" /\ ~open /\ open' = TRUE /\ mCounter' = mCounter + 1
        /\ command' = DFU_BOOTMODE(BootModeWanted) /\ answer' = None
        /\ mode \in RebootedInto /\ mAppName' = mode /\ ~(mFlashType = "DFU" /\ mAppName = "dfu")
    BY <1>5 DEF reboot, Request, Found
  <2>2. mode \in {"app", "dfu"} /\ (mFlashType \in Programs => mode = "dfu")
    BY <2>1 DEF RebootedInto
  <2>3. /\ command'.op = "bootmode" /\ command'.where = BootModeWanted /\ answer'.op = "none"
        /\ BootModeWanted \in Areas
    BY <2>1 DEF DFU_BOOTMODE, None, BootModeWanted, Areas
  <2>4. Typed' /\ CommandTyped'
    BY <1>1, <1>3, <2>1, <2>2, <2>3 DEF IInv, Typed, CommandTyped
  <2>5. BootModeWanted' = BootModeWanted
    BY <1>1 DEF BootModeWanted
  <2>6. ASSUME Safe, ~exposed  PROVE IF BootModeWanted = "LDROM" THEN LoaderWorks ELSE AppWorks
    <3>1. CASE mFlashType \in Programs
      BY <2>2, <3>1 DEF IInv, RunsWhatWorks, BootModeWanted
    <3>2. CASE mFlashType \notin Programs
      <4>1. mAppName = "app"
        BY <2>1, <2>6, <3>2 DEF Safe, Beginning, IInv, Typed, Programs, FlashTypes
      <4> QED  BY <2>1, <2>6, <3>2, <4>1 DEF Safe, Beginning, BootModeWanted
    <3> QED  BY <3>1, <3>2
  <2>7. Safe /\ ~exposed => CommandSafe' /\ Programming'
    BY <1>2, <2>1, <2>3, <2>6 DEF CommandSafe, AreaWorks, Programming
  <2>8. Safe => Beginning'
    BY <1>1, <1>2, <1>3, <2>1, <2>2, <2>3, <2>5 DEF Beginning, IInv, RunsWhatWorks
  <2> QED  BY <1>1, <2>4, <2>7, <2>8, HostStep
<1> QED  BY <1>4, <1>5

LEMMA EraseStep ==
  ASSUME IInv, running, erase
  PROVE  IInv'
<1>1. UNCHANGED <<device, works, exposed, running, mFlashType, mOtaBootFilePresent, open, mAppName>>
  BY DEF erase, history, kept
<1>2. UNCHANGED <<mode, vector, bootMode, flash>>
  BY <1>1 DEF device
<1>3. /\ mState = "ERASE" /\ mState' = "ERASE" /\ mCounter' = 1
      /\ command' = DFU_ERASE(Start(Image), EraseEnd) /\ answer' = None
  BY DEF erase, Request
<1>4. Start(Image) \in Nat /\ EraseEnd \in Nat
  <2>1. Start(Image) \in Nat /\ mCombinedFileSize(Image) \in Nat
    BY Constants DEF Start, Image, mCombinedFileSize, Files
  <2>2. \A n, p \in Nat : p # 0 => (n + p - 1) \div p \in Nat
    OBVIOUS
  <2>3. ((mCombinedFileSize(Image) + PageSize - 1) \div PageSize) * PageSize \in Nat
    BY <2>1, <2>2, Constants
  <2> QED  BY <2>1, <2>3, Constants DEF EraseEnd
<1>5. /\ command' \in [op : {"erase"}, from : Nat, to : Nat] /\ command'.op = "erase"
      /\ command'.from = Start(Image) /\ command'.to = EraseEnd /\ answer'.op = "none"
  BY <1>3, <1>4 DEF DFU_ERASE, None
<1>6. Typed' /\ CommandTyped'
  BY <1>1, <1>2, <1>3, <1>5 DEF IInv, Typed, CommandTyped
<1>7. Safe => CommandSafe'
  <2>1. CASE mFlashType \in Programs
    BY <1>2, <1>3, <1>5, <2>1 DEF Safe, CommandSafe, Programming, Committed, StaysInLdrom
  <2>2. CASE mFlashType = "MANUFACTURER"
    BY <1>5, <2>2, ManuPages DEF CommandSafe
  <2>3. CASE mFlashType = "DFU"
    <3>1. Start(Image) = LdromBase
      BY <2>3 DEF Start, Image
    <3> QED
      BY <1>2, <1>3, <1>5, <2>3, <3>1, Constants
         DEF Safe, CommandSafe, Programming, Committed, Programs
  <2> QED  BY <2>1, <2>2, <2>3 DEF IInv, Typed, FlashTypes, Programs
<1>8. Safe => Beginning' /\ Programming'
  BY <1>1, <1>2, <1>3, <1>5 DEF Safe, Beginning, Programming, Committed, StaysInLdrom
<1> QED  BY <1>1, <1>6, <1>7, <1>8, HostStep

LEMMA FlashDoneStep ==
  ASSUME IInv, running, mState = "FLASH", flash_done,
         UNCHANGED <<kept, mAppName, device>>
  PROVE  IInv'
<1>1. UNCHANGED <<device, works, exposed, running, mFlashType, mOtaBootFilePresent, open, mAppName>>
  BY DEF flash_done, history, kept
<1>2. UNCHANGED <<mode, vector, bootMode, flash>>
  BY <1>1 DEF device
<1>3. CASE mCounter >= mCombinedFileSize(Image)
  <2>1. mState' = "VERIFY" /\ mCounter' = 0 /\ command'.op = "none" /\ answer'.op = "none"
    BY <1>3 DEF flash_done, set_state, None
  <2>2. Typed' /\ CommandTyped'
    BY <1>1, <1>2, <2>1 DEF IInv, Typed, CommandTyped
  <2>3. Safe => CommandSafe' /\ Beginning' /\ Programming'
    BY <1>1, <1>2, <2>1 DEF Safe, CommandSafe, Beginning, Programming, Committed, StaysInLdrom
  <2> QED  BY <1>1, <2>2, <2>3, HostStep
<1>4. CASE ~(mCounter >= mCombinedFileSize(Image))
  <2> DEFINE at == Start(Image) + Skip(mCounter)
  <2>1. /\ mState' = "FLASH" /\ mCounter' = Skip(mCounter) + 1
        /\ command' = DFU_WRITE(at, Image) /\ answer' = None
    BY <1>4 DEF flash_done, Request
  <2>2. command'.op = "write" /\ command'.at = at /\ command'.image = Image /\ answer'.op = "none"
    BY <2>1 DEF DFU_WRITE, None
  <2>3. mCounter \in Nat /\ mCombinedFileSize(Image) \in Nat /\ Image \in Contents
    BY Constants DEF IInv, Typed, mCombinedFileSize, Image, Files, Contents
  <2>4. Skip(mCounter) \in Nat /\ Skip(mCounter) < mCombinedFileSize(Image)
    BY <1>4, <2>3, Constants DEF Skip, mCombinedFileSize, Files
  <2>5. Image = "dfu" => at >= LdromBase /\ at \in Nat
    BY <2>4, Constants DEF Start
  <2>6. Image = "manu" => at \in ManuPage..(ApromSize - 1)
    BY <2>3, <2>4, Constants DEF Start, mCombinedFileSize
  <2>7. Image \in {"app", "both"} => at < LdromBase /\ at \in Nat
    BY <2>3, <2>4, Constants DEF Start, mCombinedFileSize, Files
  <2> HIDE DEF at
  <2>8. \/ Image = "dfu" /\ mFlashType = "DFU"
        \/ Image = "manu" /\ mFlashType = "MANUFACTURER"
        \/ Image \in {"app", "both"} /\ mFlashType \in Programs
    BY DEF Image, IInv, Typed, FlashTypes, Programs
  <2>9. Typed' /\ CommandTyped'
    BY <1>1, <1>2, <2>1, <2>2, <2>3, <2>4, <2>5, <2>6, <2>7, <2>8, Constants DEF IInv, Typed, CommandTyped
  <2>10. Safe => CommandSafe'
    BY <1>1, <1>2, <2>2, <2>5, <2>6, <2>7, <2>8
       DEF Safe, CommandSafe, Programming, Committed, StaysInLdrom, Programs
  <2>11. Safe => Beginning' /\ Programming'
    BY <1>1, <1>2, <2>1, <2>2 DEF Safe, Beginning, Programming, Committed, StaysInLdrom
  <2> QED  BY <1>1, <2>9, <2>10, <2>11, HostStep
<1> QED  BY <1>3, <1>4

LEMMA VerifyDoneStep ==
  ASSUME IInv, running, mState = "VERIFY", verify_done,
         UNCHANGED <<kept, mAppName, device>>
  PROVE  IInv'
<1>1. CASE SendReboot(IF mFlashType = "DFU" THEN "LDROM" ELSE "APROM", "VALIDATE")
  BY <1>1, SendRebootStep DEF Areas, IInv, Typed
<1>2. CASE ~SendReboot(IF mFlashType = "DFU" THEN "LDROM" ELSE "APROM", "VALIDATE")
  <2>1. UNCHANGED <<device, works, exposed, running, mFlashType, mOtaBootFilePresent, open, mAppName>>
    BY <1>2 DEF verify_done, history, kept
  <2>2. UNCHANGED <<mode, vector, bootMode, flash>>
    BY <2>1 DEF device
  <2>3. mCounter \in Nat /\ Skip(mCounter) \in Nat
    BY Constants DEF IInv, Typed, Skip
  <2>4. /\ mState' \in {"VERIFY", "COMPLETE"} /\ mCounter' \in Nat
        /\ command'.op \in {"none", "check"} /\ answer'.op = "none"
    <3>1. CASE mCounter < VerifyEnd
      BY <1>2, <2>3, <3>1, Constants DEF verify_done, Request, DFU_CHECK, None
    <3>2. CASE ~(mCounter < VerifyEnd)
      BY <1>2, <3>2 DEF verify_done, set_state, None
    <3> QED  BY <3>1, <3>2
  <2>5. Typed' /\ CommandTyped'
    BY <2>1, <2>2, <2>4 DEF IInv, Typed, CommandTyped
  <2>6. Safe => CommandSafe' /\ Beginning' /\ Programming'
    BY <2>1, <2>2, <2>4 DEF Safe, CommandSafe, Beginning, Programming, Committed, StaysInLdrom
  <2> QED  BY <2>1, <2>5, <2>6, HostStep
<1> QED  BY <1>1, <1>2

LEMMA FlashVerifyStep ==
  ASSUME IInv, running, flash_verify
  PROVE  IInv'
  BY FlashDoneStep, VerifyDoneStep DEF flash_verify

LEMMA ValidateStep ==
  ASSUME IInv, running, validate
  PROVE  IInv'
<1>1. mState = "VALIDATE" /\ UNCHANGED <<device, running, mFlashType, mOtaBootFilePresent>>
  BY DEF validate, kept
<1>2. UNCHANGED <<mode, vector, bootMode, flash>>
  BY <1>1 DEF device
<1>3. mAppName' \in {"app", "dfu"}
  BY DEF validate, Found, ValidatedNames, IInv, Typed
<1>4. CASE SendReboot("APROM", "COMPLETE")
  BY <1>1, <1>3, <1>4, SendRebootStep DEF Areas, kept
<1>5. CASE ~SendReboot("APROM", "COMPLETE")
  <2>1. UNCHANGED <<works, exposed>>
    BY <1>5 DEF validate, history
  <2>2. AppWorks' = AppWorks /\ LoaderWorks' = LoaderWorks
    BY <1>2, <2>1, FlashKept
  <2>3. mState' \in {"VALIDATE", "FAIL"} /\ mCounter' \in Nat
    BY <1>1, <1>5 DEF validate, set_state, IInv, Typed
  <2>4. \/ UNCHANGED <<open, command, answer>>
        \/ /\ open' = TRUE /\ command' = DFU_BOOTMODE("APROM") /\ answer' = None
           /\ mode = "app"
    BY <1>5 DEF validate, Request, EvbmeAnswers
  <2>5. CASE UNCHANGED <<open, command, answer>>
    <3>1. Typed' /\ CommandTyped'
      BY <1>1, <1>2, <1>3, <2>1, <2>3, <2>5 DEF IInv, Typed, CommandTyped
    <3>2. Safe => CommandSafe' /\ Beginning' /\ Programming'
      BY <1>2, <2>2, <2>3, <2>5 DEF Safe, CommandSafe, AreaWorks, StaysInLdrom, Beginning, Programming
    <3> QED  BY <1>1, <2>1, <3>1, <3>2, HostStep
  <2>6. CASE open' = TRUE /\ command' = DFU_BOOTMODE("APROM") /\ answer' = None /\ mode = "app"
    <3>1. command'.op = "bootmode" /\ command'.where = "APROM" /\ answer'.op = "none"
      BY <2>6 DEF DFU_BOOTMODE, None
    <3>2. Typed' /\ CommandTyped'
      BY <1>1, <1>2, <1>3, <2>1, <2>3, <2>6, <3>1 DEF IInv, Typed, CommandTyped, Areas
    <3>3. CommandSafe' /\ Beginning' /\ Programming'
      BY <2>2, <2>3, <2>6, <3>1 DEF IInv, RunsWhatWorks, CommandSafe, AreaWorks, Beginning, Programming
    <3> QED  BY <1>1, <2>1, <3>2, <3>3, HostStep
  <2> QED  BY <2>4, <2>5, <2>6
<1> QED  BY <1>4, <1>5

\* Nothing is expected of a process that has ended.
LEMMA EndStep ==
  ASSUME IInv, running' = FALSE,
         UNCHANGED <<mState, mCounter, mFlashType, mOtaBootFilePresent, open, mAppName,
                     command, answer, device, works, exposed>>
  PROVE  IInv'
<1>1. AppWorks' = AppWorks /\ LoaderWorks' = LoaderWorks
  BY FlashKept DEF device
<1>2. Typed' /\ CommandTyped'
  BY ZenonT(40) DEF IInv, Typed, CommandTyped, device
<1>3. Safe => CommandSafe' /\ Beginning' /\ Programming'
  BY <1>1 DEF Safe, CommandSafe, AreaWorks, StaysInLdrom, Beginning, Programming, device
<1> QED  BY <1>2, <1>3, HostStep

LEMMA CallbackStep ==
  ASSUME IInv, dfu_callback
  PROVE  IInv'
<1>1. running /\ open /\ answer.op # "none" /\ UNCHANGED <<kept, mAppName, retries, device>>
  BY DEF dfu_callback
<1>2. ASSUME NEW s \in {"FAIL", "ERASE", "VERIFY", "FLASH", "COMPLETE"}, Done(s),
             s = "ERASE" => mState = "REBOOT" /\ answer.op = "success",
             s \in {"VERIFY", "FLASH"} => mState = "ERASE"
      PROVE  IInv'
  <2>1. /\ mState' = s /\ mCounter' = 0 /\ command'.op = "none" /\ answer'.op = "none"
        /\ UNCHANGED <<open, works, exposed>>
    BY <1>2 DEF Done, set_state, None, history
  <2>2. UNCHANGED <<mode, vector, bootMode, flash, running, mFlashType, mOtaBootFilePresent, mAppName>>
    BY <1>1 DEF device, kept
  <2>3. Typed' /\ CommandTyped'
    BY <2>1, <2>2 DEF IInv, Typed, CommandTyped
  <2>4. Safe => CommandSafe' /\ Beginning'
    BY <1>2, <2>1, <2>2 DEF Safe, CommandSafe, Beginning
  <2>5. Safe => Programming'
    <3>1. CASE s = "ERASE"
      BY <1>1, <1>2, <2>1, <2>2, <3>1 DEF Safe, Beginning, Programming, Committed, StaysInLdrom
    <3>2. CASE s # "ERASE"
      BY <1>1, <1>2, <2>1, <2>2, <3>2 DEF Safe, Programming, Committed, StaysInLdrom
    <3> QED  BY <3>1, <3>2
  <2> QED  BY <1>1, <2>1, <2>3, <2>4, <2>5, HostStep
<1>3. CASE answer.op = "failure"
  BY <1>2, <1>3 DEF dfu_callback
<1>4. CASE answer.op # "failure"
  <2>1. answer.op = "success"
    BY <1>1, <1>4 DEF IInv, Typed
  <2>2. CASE mState = "OTA_ERASE" /\ send_reboot_request
    BY <1>1, <2>2, SendRebootStep DEF send_reboot_request, Areas, kept, IInv, Typed
  <2>3. CASE mState = "FLASH" /\ flash_done
    BY <1>1, <2>3, FlashDoneStep
  <2>4. CASE mState = "VERIFY" /\ verify_done
    BY <1>1, <2>4, VerifyDoneStep
  <2>5. CASE mState = "REBOOT" /\ Done("ERASE")
    BY <1>2, <2>1, <2>5
  <2>6. CASE mState = "ERASE" /\ Done(IF mFlashType = "APROM_CLEAR" THEN "VERIFY" ELSE "FLASH")
    BY <1>2, <2>6
  <2>7. CASE mState = "VALIDATE" /\ Done("COMPLETE")
    BY <1>2, <2>7
  <2> QED  BY <1>4, <2>2, <2>3, <2>4, <2>5, <2>6, <2>7 DEF dfu_callback
<1> QED  BY <1>3, <1>4

LEMMA ProcessStep ==
  ASSUME IInv, Process
  PROVE  IInv'
<1>1. CASE Finish
  BY <1>1, EndStep DEF Finish, history
<1> QED
  BY <1>1, InitStep, OtaEraseStep, RebootStep, EraseStep, FlashVerifyStep, ValidateStep DEF Process

----------------------------------------------------------------------------
(* The device.                                                             *)

LEMMA BootStep ==
  ASSUME IInv, Boot
  PROVE  IInv'
<1>1. /\ UNCHANGED <<command, answer, vector, bootMode, flash, works, exposed, running, mState,
                     mCounter, mFlashType, mOtaBootFilePresent, open, mAppName>>
      /\ mode = "boot"
  BY DEF Boot, host, history
<1>2. AppWorks' = AppWorks /\ LoaderWorks' = LoaderWorks
  BY <1>1, FlashKept
<1>3. /\ mode' \in {"app", "dfu", "dead"}
      /\ mode' = "app" => AppWorks /\ (vector = "APROM" \/ (vector = "none" /\ bootMode = "APROM"))
      /\ mode' = "dfu" => LoaderWorks /\ (vector = "LDROM" \/ (vector = "none" /\ bootMode = "LDROM"))
  <2>1. vector \in {"APROM", "LDROM", "none"} /\ bootMode \in {"APROM", "LDROM"}
    BY DEF IInv, Typed, Areas
  <2>2. CASE (IF vector = "none" THEN bootMode ELSE vector) = "APROM"
    BY <2>1, <2>2 DEF Boot, AppWorks
  <2>3. CASE (IF vector = "none" THEN bootMode ELSE vector) = "LDROM"
    BY <2>1, <2>3 DEF Boot, LoaderWorks
  <2> QED  BY <2>1, <2>2, <2>3
<1>4. Typed' /\ CommandTyped' /\ RunsWhatWorks'
  BY <1>1, <1>2, <1>3 DEF IInv, Typed, CommandTyped, RunsWhatWorks
<1>5. Safe => AreaWorks(bootMode)' /\ CommandSafe'
  BY <1>1, <1>2, <1>3 DEF Safe, AreaWorks, CommandSafe, StaysInLdrom
<1>6. Safe => Beginning'
  BY <1>1, <1>2, <1>3 DEF Safe, Beginning, BootModeWanted, Committed, StaysInLdrom
<1>7. Safe => Programming'
  BY <1>1, <1>3 DEF Safe, Programming, Committed, StaysInLdrom
<1> QED  BY <1>1, <1>4, <1>5, <1>6, <1>7 DEF IInv, Safe

\* A program does not write to itself.
LEMMA OwnKept ==
  ASSUME Typed, UNCHANGED works, \A a \in Addresses \ Writable : flash'[a] = flash[a]
  PROVE  /\ mode = "app" => AppWorks' = AppWorks
         /\ mode # "app" => LoaderWorks' = LoaderWorks
<1>1. CASE mode = "app"
  <2>1. \A a \in Region("APROM") : a \notin Writable
    BY <1>1, Constants DEF Region, Writable, Allowed
  <2> QED  BY <1>1, <2>1, AppKept, RegionsLie
<1>2. CASE mode # "app"
  <2>1. \A a \in Region("LDROM") : a \notin Writable
    BY <1>2, Constants DEF Region, Writable
  <2> QED  BY <1>2, <2>1, LoaderKept, RegionsLie
<1> QED  BY <1>1, <1>2

\* A command that changes flash, and what the device has still to do of it
LEMMA FlashingStep ==
  ASSUME IInv, mode \in {"app", "dfu"}, command.op \in {"erase", "write"},
         UNCHANGED <<host, mode, vector, bootMode, works, exposed>>,
         flash' \in [Addresses -> Contents],
         \A a \in Addresses \ Writable : flash'[a] = flash[a],
         command'.op \in {"none", "erase"}, CommandTyped',
         answer'.op \in {"none", "success", "failure"}, command'.op # "none" => answer'.op = "none",
         Safe => /\ AreaWorks(bootMode)'
                 /\ CommandSafe'
  PROVE  IInv'
<1>1. UNCHANGED <<running, mState, mCounter, mFlashType, mOtaBootFilePresent, open, mAppName>>
  BY DEF host
<1>2. Typed'
  BY <1>1 DEF IInv, Typed
<1>3. RunsWhatWorks'
  BY OwnKept DEF IInv, RunsWhatWorks
<1>4. Safe => Beginning' /\ Programming'
  BY <1>1 DEF Safe, Beginning, Programming, Committed, StaysInLdrom
<1> QED  BY <1>2, <1>3, <1>4 DEF IInv, Safe

LEMMA DeviceEraseStep ==
  ASSUME IInv, mode \in {"app", "dfu"}, Erase, UNCHANGED host
  PROVE  IInv'
<1>1. /\ command \in [op : {"erase"}, from : Nat, to : Nat] /\ command.op = "erase"
      /\ UNCHANGED <<mode, vector, bootMode, works, exposed>>
  BY DEF Erase, IInv, CommandTyped, history
<1>2. /\ flash' \in [Addresses -> Contents]
      /\ \A a \in Addresses \ (Page(command.from) \intersect Writable) : flash'[a] = flash[a]
  BY DEF Erase, IInv, Typed, Contents
<1>3. \/ command' = None /\ answer'.op \in {"success", "failure"}
      \/ /\ command' = [command EXCEPT !.from = @ + PageSize] /\ answer' = answer
         /\ ~(command.from + PageSize >= command.to)
  BY DEF Erase, Answer
<1>4. \/ command'.op = "none"
      \/ /\ command' \in [op : {"erase"}, from : Nat, to : Nat]
         /\ command'.from = command.from + PageSize /\ command'.to = command.to
         /\ ~(command.from + PageSize >= command.to)
  BY <1>1, <1>3, Constants DEF None
<1>5. command'.op \in {"none", "erase"} /\ CommandTyped'
  BY <1>4 DEF CommandTyped
<1>6. ASSUME Safe  PROVE AreaWorks(bootMode)' /\ CommandSafe'
  <2>1. CASE StaysInLdrom
    <3>1. LoaderWorks' = LoaderWorks
      BY <1>1, <1>2, <2>1, OwnKept DEF StaysInLdrom, IInv
    <3> QED
      BY <1>1, <1>5, <1>6, <2>1, <3>1 DEF Safe, AreaWorks, CommandSafe, StaysInLdrom
  <2>2. CASE command.from = ManuPage /\ command.to = ApromSize
    <3>1. Page(command.from) = ManuPage..(ApromSize - 1) /\ command'.op = "none"
      BY <1>1, <1>4, <2>2, Constants DEF Page
    <3>2. AppWorks' = AppWorks
      <4>1. \A a \in Region("APROM") : a \notin Page(command.from)
        BY <3>1, Constants DEF Region
      <4> QED  BY <1>1, <1>2, <4>1, AppKept, RegionsLie
    <3>3. LoaderWorks' = LoaderWorks
      <4>1. \A a \in Region("LDROM") : a \notin Page(command.from)
        BY <3>1, Constants DEF Region
      <4> QED  BY <1>1, <1>2, <4>1, LoaderKept, RegionsLie
    <3> QED  BY <1>1, <1>6, <3>1, <3>2, <3>3 DEF Safe, AreaWorks, CommandSafe
  <2>3. CASE bootMode = "APROM" /\ command.from >= LdromBase
    <3>1. \A a \in Region("APROM") : a \notin Page(command.from)
      BY <1>1, <2>3, Constants DEF Region, Page
    <3>2. AppWorks' = AppWorks
      BY <1>1, <1>2, <3>1, AppKept, RegionsLie
    <3>3. CommandSafe'
      BY <1>1, <1>4, <2>3, Constants DEF CommandSafe
    <3> QED  BY <1>1, <1>6, <2>3, <3>2, <3>3 DEF Safe, AreaWorks
  <2> QED  BY <1>1, <1>6, <2>1, <2>2, <2>3 DEF Safe, CommandSafe
<1>7. answer'.op \in {"none", "success", "failure"} /\ (command'.op # "none" => answer'.op = "none")
  BY <1>1, <1>3 DEF IInv, Typed, None
<1> QED  BY <1>1, <1>2, <1>5, <1>6, <1>7, FlashingStep

LEMMA DeviceWriteStep ==
  ASSUME IInv, mode \in {"app", "dfu"}, Write, UNCHANGED host
  PROVE  IInv'
<1>1. /\ command.op = "write" /\ command.at \in Nat /\ command.image \in Contents
      /\ UNCHANGED <<mode, vector, bootMode, works, exposed>>
  BY DEF Write, IInv, CommandTyped, history
<1>2. /\ flash' \in [Addresses -> Contents]
      /\ \A a \in Addresses \ ({command.at} \intersect Writable) : flash'[a] = flash[a]
  BY <1>1 DEF Write, IInv, Typed, Contents
<1>3. command'.op = "none" /\ answer'.op \in {"success", "failure"}
  BY DEF Write, Answer, None
<1>4. CommandTyped' /\ CommandSafe'
  BY <1>3 DEF CommandTyped, CommandSafe
<1>5. ASSUME Safe  PROVE AreaWorks(bootMode)'
  <2>1. CASE bootMode = "LDROM" /\ command.at < LdromBase
    <3>1. \A a \in Region("LDROM") : a # command.at
      BY <1>1, <2>1, Constants DEF Region
    <3>2. LoaderWorks' = LoaderWorks
      BY <1>1, <1>2, <3>1, LoaderKept, RegionsLie
    <3> QED  BY <1>1, <1>5, <2>1, <3>2 DEF Safe, AreaWorks
  <2>2. CASE command.at \in ManuPage..(ApromSize - 1)
    <3>1. AppWorks' = AppWorks
      <4>1. \A a \in Region("APROM") : a # command.at
        BY <1>1, <2>2, Constants DEF Region
      <4> QED  BY <1>1, <1>2, <4>1, AppKept, RegionsLie
    <3>2. LoaderWorks' = LoaderWorks
      <4>1. \A a \in Region("LDROM") : a # command.at
        BY <1>1, <2>2, Constants DEF Region
      <4> QED  BY <1>1, <1>2, <4>1, LoaderKept, RegionsLie
    <3> QED  BY <1>1, <1>5, <3>1, <3>2 DEF Safe, AreaWorks
  <2>3. CASE bootMode = "APROM" /\ command.at >= LdromBase
    <3>1. \A a \in Region("APROM") : a # command.at
      BY <1>1, <2>3, Constants DEF Region
    <3>2. AppWorks' = AppWorks
      BY <1>1, <1>2, <3>1, AppKept, RegionsLie
    <3> QED  BY <1>1, <1>5, <2>3, <3>2 DEF Safe, AreaWorks
  <2> QED  BY <1>1, <1>5, <2>1, <2>2, <2>3 DEF Safe, CommandSafe
<1> QED  BY <1>1, <1>2, <1>3, <1>4, <1>5, FlashingStep

LEMMA DeviceBootModeStep ==
  ASSUME IInv, mode \in {"app", "dfu"}, BootMode, UNCHANGED host
  PROVE  IInv'
<1>1. /\ command.op = "bootmode" /\ command.where \in Areas /\ bootMode' = command.where
      /\ command'.op = "none" /\ answer'.op = "success"
      /\ UNCHANGED <<mode, vector, flash, works, exposed>>
  BY DEF BootMode, Answer, None, IInv, CommandTyped, history
<1>2. AppWorks' = AppWorks /\ LoaderWorks' = LoaderWorks
  BY <1>1, FlashKept
<1>3. UNCHANGED <<running, mState, mCounter, mFlashType, mOtaBootFilePresent, open, mAppName>>
  BY DEF host
<1>4. Typed' /\ CommandTyped' /\ RunsWhatWorks'
  BY <1>1, <1>2, <1>3 DEF IInv, Typed, CommandTyped, RunsWhatWorks
<1>5. Safe => AreaWorks(bootMode)' /\ CommandSafe' /\ Programming'
  BY <1>1, <1>2, <1>3 DEF Safe, AreaWorks, CommandSafe, Programming
<1>6. ASSUME Safe, running, mState = "REBOOT"  PROVE Committed'
  BY <1>1, <1>3, <1>6 DEF Safe, Beginning, Committed, StaysInLdrom, BootModeWanted, IInv, RunsWhatWorks
<1>7. Safe => Beginning'
  BY <1>1, <1>2, <1>3, <1>6 DEF Safe, Beginning
<1> QED  BY <1>1, <1>4, <1>5, <1>7 DEF IInv, Safe

\* The device starts, or is started, again: commands on their way to it are lost,
\* or it was told to by one.
LEMMA RestartStep ==
  ASSUME IInv, mode' = "boot", vector' \in Areas \union {"none"}, command' = None,
         \/ vector' = "none" /\ answer' = None
         \/ command.op = "reboot" /\ UNCHANGED answer,
         UNCHANGED <<host, bootMode, flash, works, exposed>>
  PROVE  IInv'
<1>1. AppWorks' = AppWorks /\ LoaderWorks' = LoaderWorks
  BY FlashKept
<1>2. UNCHANGED <<running, mState, mCounter, mFlashType, mOtaBootFilePresent, open, mAppName>>
  BY DEF host
<1>3. command'.op = "none" /\ (answer'.op = "none" \/ answer' = answer)
  BY DEF None
<1>4. Typed' /\ CommandTyped' /\ RunsWhatWorks'
  BY <1>1, <1>2, <1>3 DEF IInv, Typed, CommandTyped, RunsWhatWorks
<1>5. Safe => AreaWorks(bootMode)' /\ CommandSafe'
  BY <1>1, <1>2, <1>3 DEF Safe, AreaWorks, CommandSafe
<1>6. Safe => Programming'
  BY <1>2, <1>3 DEF Safe, Programming, Committed, StaysInLdrom
<1>7. Safe => Beginning'
  <2>1. CASE vector' = "none" /\ answer' = None
    BY <1>1, <1>2, <1>3, <2>1 DEF Safe, Beginning, None
  <2>2. CASE command.op = "reboot" /\ UNCHANGED answer
    BY <1>1, <1>2, <1>3, <2>2 DEF Safe, Beginning, IInv, Typed
  <2> QED  BY <2>1, <2>2
<1> QED  BY <1>4, <1>5, <1>6, <1>7 DEF IInv, Safe

LEMMA DeviceRebootStep ==
  ASSUME IInv, mode \in {"app", "dfu"}, Reboot, UNCHANGED host
  PROVE  IInv'
  BY RestartStep DEF Reboot, IInv, CommandTyped, history

\* Commands that only read
LEMMA DeviceReadStep ==
  ASSUME IInv, mode \in {"app", "dfu"}, Check \/ Metadata, UNCHANGED host
  PROVE  IInv'
<1>1. /\ command.op \in {"check", "metadata"} /\ command'.op = "none"
      /\ answer'.op \in {"success", "failure"} /\ UNCHANGED <<device, works, exposed>>
  BY DEF Check, Metadata, Answer, None, history
<1>2. UNCHANGED <<mode, vector, bootMode, flash, running, mState, mCounter, mFlashType,
                  mOtaBootFilePresent, open, mAppName>>
  BY <1>1 DEF host, device
<1>3. AppWorks' = AppWorks /\ LoaderWorks' = LoaderWorks
  BY <1>1, <1>2, FlashKept
<1>4. Typed' /\ CommandTyped'
  BY <1>1, <1>2 DEF IInv, Typed, CommandTyped
<1>5. Safe => CommandSafe' /\ Beginning' /\ Programming'
  BY <1>1, <1>2, <1>3 DEF Safe, CommandSafe, Beginning, Programming, Committed, StaysInLdrom
<1> QED  BY <1>1, <1>4, <1>5, HostStep

LEMMA ExecuteStep ==
  ASSUME IInv, Execute
  PROVE  IInv'
  BY DeviceEraseStep, DeviceWriteStep, DeviceBootModeStep, DeviceRebootStep, DeviceReadStep DEF Execute

----------------------------------------------------------------------------
LEMMA Initially ==
  ASSUME Init
  PROVE  IInv
<1>1. AppWorks /\ LoaderWorks
  <2>1. \A a \in Filled("app") \union Filled("dfu") : flash[a] = "old"
    BY FilledLies, RegionsLie DEF Init
  <2> QED  BY <2>1 DEF AppWorks, LoaderWorks, Works
<1>2. Typed /\ CommandTyped
  BY DEF Init, Typed, CommandTyped, Areas, Contents, FlashTypes, None
<1>3. RunsWhatWorks /\ Safe
  BY <1>1 DEF Init, RunsWhatWorks, Safe, AreaWorks, CommandSafe, Beginning, Programming, None
<1> QED  BY <1>2, <1>3 DEF IInv

LEMMA Inductive ==
  ASSUME IInv, [Next]_vars
  PROVE  IInv'
<1>1. CASE \E type \in FlashTypes, ota \in BOOLEAN : StartRun(type, ota)
  BY <1>1, StartRunStep
<1>2. CASE Process  BY <1>2, ProcessStep
<1>3. CASE dfu_callback  BY <1>3, CallbackStep
<1>4. CASE Boot  BY <1>4, BootStep
<1>5. CASE Execute  BY <1>5, ExecuteStep
<1>6. CASE PowerCut
  BY <1>6, RestartStep DEF PowerCut
<1>7. CASE Replug
  BY <1>7, RestartStep DEF Replug, history
<1>8. CASE Kill
  BY <1>8, EndStep DEF Kill
<1>9. CASE UNCHANGED vars
  <2>1. /\ UNCHANGED <<running, mState, mCounter, mFlashType, mOtaBootFilePresent, open, mAppName,
                       command, answer, device, works, exposed>>
    BY <1>9 DEF vars, host, history
  <2>2. AppWorks' = AppWorks /\ LoaderWorks' = LoaderWorks
    BY <2>1, FlashKept DEF device
  <2>3. Typed' /\ CommandTyped'
    BY <2>1 DEF IInv, Typed, CommandTyped, device
  <2>4. Safe => CommandSafe' /\ Beginning' /\ Programming'
    BY <2>1, <2>2 DEF Safe, CommandSafe, AreaWorks, StaysInLdrom, Beginning, BootModeWanted,
                      Committed, Programming, device
  <2> QED  BY <2>1, <2>3, <2>4, HostStep
<1> QED  BY <1>1, <1>2, <1>3, <1>4, <1>5, <1>6, <1>7, <1>8, <1>9 DEF Next

\* Whenever a run of chilictl is interrupted, by a power cut, by a write that goes
\* wrong or by its own end, the device starts a program that can be flashed again:
\* set_state and the boot mode commands of reboot and validate come in the right
\* order, for flash and files of any size.
THEOREM UpdateIsSafe == Spec => []NeverBricked
<1>1. IInv => NeverBricked
  BY DEF IInv, Typed, Safe, AreaWorks, AppWorks, LoaderWorks, Areas, NeverBricked
<1> QED  BY <1>1, Initially, Inductive, PTL DEF Spec

\* A program that runs is never overwritten: neither the application, which may
\* write to the boot loader, nor the boot loader in LDROM.
THEOREM RunningProgramKept == Spec => []RunsWhatWorks
<1>1. IInv => RunsWhatWorks
  BY DEF IInv
<1> QED  BY <1>1, Initially, Inductive, PTL DEF Spec
----------------------------------------------------------------------------
(* What success means.  The commands of a run are answered before the next *)
(* run starts, so nothing that is under way when a run has ended, or while *)
(* it verifies, changes the flash.  The invariant does not depend on       *)
(* whether chilictl still runs, nor on exposed.                            *)

\* The first n chunks of what the run flashes are as they should be.
Checked(n) ==
    IF mFlashType = "APROM_CLEAR" THEN \A a \in 0..(ApromSize - 1) : a < n => flash[a] = "blank"
    ELSE \A a \in Filled(Image) : a < Start(Image) + n => flash[a] = Image

\* A run that does not replace an application makes the device start with it,
\* and nothing takes that back.
StartsWithApp ==
    mFlashType \notin Programs =>
        /\ mState \in {"REBOOT", "ERASE", "FLASH", "VERIFY", "VALIDATE", "COMPLETE"} =>
               (command.op = "bootmode" => command.where = "APROM")
        /\ mState \in {"ERASE", "FLASH", "VERIFY", "VALIDATE", "COMPLETE"} => bootMode = "APROM"
        /\ mState = "REBOOT" => /\ command.op \in {"none", "reboot", "bootmode"}
                                /\ answer.op = "success" => bootMode = "APROM"

\* The page of the last check command counts when it has been answered.
Verifying ==
    mState = "VERIFY" =>
        /\ command.op \in {"none", "check"}
        /\ command.op = "check" =>
               /\ command.at = Start(Image) + (mCounter - PageSize)
               /\ command.image = IF mFlashType = "APROM_CLEAR" THEN "blank" ELSE Image
        /\ Checked(mCounter - PageSize)
        /\ answer.op = "success" => Checked(mCounter)

\* The boot mode command is sent to an application that has answered.
Validating ==
    mState = "VALIDATE" =>
        /\ mFlashType # "APROM_CLEAR" /\ Holds(Image)
        /\ command.op \in {"none", "reboot", "bootmode"}
        /\ command.op = "bootmode" => command.where = "APROM"
        /\ command.op = "bootmode" \/ answer.op = "success" => Works("APROM")
        /\ answer.op = "success" => bootMode = "APROM"

Completed ==
    /\ CompleteMeansFlashed
    /\ mState = "COMPLETE" => command.op \in {"none", "reboot"}

SuccessInv == StartsWithApp /\ Verifying /\ Validating /\ Completed

\* Nothing is claimed of a run that has not rebooted the device, or has failed.
LEMMA SuccessBegins ==
  ASSUME mState' \in {"INIT", "OTA_ERASE", "FAIL"}
  PROVE  SuccessInv'
  BY DEF SuccessInv, StartsWithApp, Verifying, Validating, Completed, CompleteMeansFlashed

\* What runs, or breaks down, beside the host's progress
LEMMA SuccessKept ==
  ASSUME SuccessInv,
         UNCHANGED <<mState, mFlashType, mOtaBootFilePresent, bootMode, flash, works>>,
         mState = "VERIFY" => mCounter' = mCounter,
         command' = command \/ command'.op = "none",
         answer' = answer \/ answer'.op # "success"
  PROVE  SuccessInv'
<1>1. Image' = Image
  BY DEF Image
<1>2. /\ Holds(Image)' = Holds(Image) /\ Start(Image)' = Start(Image)
      /\ Works("APROM")' = Works("APROM")
      /\ \A n : Checked(n)' = Checked(n)
  BY <1>1 DEF Holds, Works, Filled, Start, Checked
<1>3. StartsWithApp'
  BY DEF SuccessInv, StartsWithApp
<1>4. Verifying'
  BY <1>1, <1>2 DEF SuccessInv, Verifying
<1>5. Validating'
  BY <1>1, <1>2 DEF SuccessInv, Validating
<1>6. Completed'
  BY <1>1, <1>2 DEF SuccessInv, Completed, CompleteMeansFlashed
<1> QED  BY <1>3, <1>4, <1>5, <1>6 DEF SuccessInv

\* The host reboots the device to begin, to have it validated and, if it was the
\* boot loader that was replaced, to end.
LEMMA SuccessSendReboot ==
  ASSUME SuccessInv, NEW where \in Areas, NEW next, SendReboot(where, next),
         UNCHANGED <<kept, device>>,
         \/ next = "REBOOT"
         \/ /\ next \in {"VALIDATE", "COMPLETE"}
            /\ mFlashType # "APROM_CLEAR" /\ Holds(Image)
            /\ mFlashType \notin Programs => bootMode = "APROM"
            /\ next = "COMPLETE" => mFlashType = "DFU"
  PROVE  SuccessInv'
<1>1. CASE mState' = "FAIL"
  BY <1>1, SuccessBegins
<1>2. CASE mState' # "FAIL"
  <2>1. /\ mState' = next /\ UNCHANGED works
        /\ command' = DFU_REBOOT(where) /\ answer' = None
    BY <1>2 DEF SendReboot, set_state, Request, history
  <2>2. command'.op = "reboot" /\ answer'.op = "none"
    BY <2>1 DEF DFU_REBOOT, None
  <2>3. UNCHANGED <<mFlashType, mOtaBootFilePresent, bootMode, flash, works>>
    BY <2>1 DEF kept, device
  <2>4. Image' = Image /\ Holds(Image)' = Holds(Image)
    BY <2>3 DEF Image, Holds, Filled, Start
  <2>5. CASE next = "REBOOT"
    BY <2>1, <2>2, <2>5
       DEF SuccessInv, StartsWithApp, Verifying, Validating, Completed, CompleteMeansFlashed
  <2>6. CASE next = "VALIDATE"
    BY <2>1, <2>2, <2>3, <2>4, <2>6
       DEF SuccessInv, StartsWithApp, Verifying, Validating, Completed, CompleteMeansFlashed
  <2>7. CASE next = "COMPLETE"
    BY <2>1, <2>2, <2>3, <2>4, <2>7
       DEF SuccessInv, StartsWithApp, Verifying, Validating, Completed, CompleteMeansFlashed, Programs
  <2> QED  BY <2>5, <2>6, <2>7
<1> QED  BY <1>1, <1>2

LEMMA SuccessReboot ==
  ASSUME IInv, SuccessInv, reboot
  PROVE  SuccessInv'
<1>1. /\ mState = "REBOOT" /\ mState' \in {"REBOOT", "FAIL"}
      /\ UNCHANGED <<mFlashType, mOtaBootFilePresent, bootMode, flash, works>>
  BY DEF reboot, set_state, kept, device, history
<1>2. CASE mState' = "FAIL"
  BY <1>2, SuccessBegins
<1>3. CASE mState' = "REBOOT" /\ UNCHANGED <<command, answer>>
  BY <1>1, <1>3, SuccessKept
<1>4. CASE mState' = "REBOOT" /\ command' = DFU_BOOTMODE(BootModeWanted) /\ answer' = None
  <2>1. command'.op = "bootmode" /\ command'.where = BootModeWanted /\ answer'.op = "none"
    BY <1>4 DEF DFU_BOOTMODE, None
  <2> QED
    BY <1>1, <1>4, <2>1 DEF SuccessInv, StartsWithApp, Verifying, Validating, Completed,
                            CompleteMeansFlashed, BootModeWanted
<1>5. \/ mState' = "FAIL" \/ UNCHANGED <<command, answer>>
      \/ command' = DFU_BOOTMODE(BootModeWanted) /\ answer' = None
  BY DEF reboot, Request
<1> QED  BY <1>1, <1>2, <1>3, <1>4, <1>5

\* Where an image lies
LEMMA Extent ==
  ASSUME IInv
  PROVE  /\ Start(Image) \in Nat /\ mCombinedFileSize(Image) \in Nat
         /\ \A a \in Filled(Image) :
                a \in Int /\ Start(Image) <= a /\ a < Start(Image) + mCombinedFileSize(Image)
<1>1. Image \in {"app", "both", "dfu", "manu"}
  BY DEF Image
<1>2. Sizes["boot"] <= AppStart
  BY FlasherAssumption
<1>3. CASE Image = "both"
  BY <1>2, <1>3, Constants DEF Filled, Start, mCombinedFileSize, Files
<1>4. CASE Image # "both"
  <2>1. Image \in Files /\ Start(Image) \in Nat /\ Sizes[Image] \in Nat
    BY <1>1, <1>4, Constants DEF Files, Start
  <2> QED  BY <1>4, <2>1 DEF Filled, mCombinedFileSize
<1> QED  BY <1>3, <1>4

\* Before it verifies, the host has nothing to be right about.
LEMMA SuccessFlashing ==
  ASSUME IInv, SuccessInv, mState' \in {"ERASE", "FLASH", "VERIFY"},
         UNCHANGED <<mFlashType, mOtaBootFilePresent, bootMode>>,
         \/ mState = "REBOOT" /\ answer.op = "success"
         \/ mState \in {"ERASE", "FLASH"},
         command'.op \in {"none", "erase", "write"}, answer'.op = "none",
         mState' = "VERIFY" => mCounter' = 0 /\ command'.op = "none"
  PROVE  SuccessInv'
<1>1. StartsWithApp'
  BY DEF SuccessInv, StartsWithApp
<1>2. ASSUME mState' = "VERIFY"  PROVE Verifying'
  <2>1. Checked(mCounter - PageSize)'
    <3>1. (mCounter - PageSize)' < 0
      BY <1>2, Constants
    <3>2. \A n \in Int : n < 0 => Checked(n)'
      <4>1. Image' = Image
        BY DEF Image
      <4>2. \A a \in Filled(Image)' : a \in Int /\ a >= Start(Image)'
        BY <4>1, Extent DEF Filled, Start
      <4>3. Start(Image)' \in Int /\ ApromSize \in Int
        BY <4>1, Extent, Constants DEF Start
      <4> QED  BY <4>2, <4>3 DEF Checked
    <3> QED  BY <1>2, <3>1, <3>2, Constants
  <2> QED  BY <1>2, <2>1 DEF Verifying
<1> QED  BY <1>1, <1>2 DEF SuccessInv, Verifying, Validating, Completed, CompleteMeansFlashed

\* The last page ends behind the files.
LEMMA AllChecked ==
  ASSUME IInv, Checked(mCounter), mCounter >= VerifyEnd
  PROVE  IF mFlashType = "APROM_CLEAR" THEN \A a \in 0..(ApromSize - 1) : flash[a] = "blank"
         ELSE Holds(Image)
<1>1. mCounter \in Nat /\ mFlashType \in FlashTypes
  BY DEF IInv, Typed
<1>2. CASE mFlashType = "APROM_CLEAR"
  BY <1>1, <1>2, Constants DEF Checked, VerifyEnd
<1>3. CASE mFlashType # "APROM_CLEAR"
  BY <1>1, <1>3, Extent DEF Checked, VerifyEnd, Holds
<1> QED  BY <1>2, <1>3

\* Nothing is skipped but the gap.
LEMMA SkippedIsEmpty ==
  ASSUME IInv, Checked(mCounter), mFlashType # "APROM_CLEAR"
  PROVE  Checked(Skip(mCounter)) /\ Skip(mCounter) \in Nat
<1>1. mCounter \in Nat
  BY DEF IInv, Typed
<1>2. CASE Skip(mCounter) = mCounter
  BY <1>1, <1>2
<1>3. CASE Skip(mCounter) # mCounter
  <2>1. /\ Image = "both" /\ Skip(mCounter) = AppStart /\ Start(Image) = 0
        /\ mCounter >= Sizes["boot"] /\ Sizes["boot"] \in Nat
    BY <1>3, Constants DEF Skip, Start, Files
  <2>2. \A a \in Filled(Image) : a \in Int /\ (a < AppStart => a < mCounter)
    BY <1>1, <2>1, Constants DEF Filled, Files
  <2> QED  BY <1>1, <2>1, <2>2, Constants DEF Checked
<1> QED  BY <1>2, <1>3

LEMMA SuccessVerify ==
  ASSUME IInv, SuccessInv, mState = "VERIFY", verify_done,
         mCounter = 0 \/ answer.op = "success", UNCHANGED <<kept, device>>
  PROVE  SuccessInv'
<1>1. UNCHANGED <<mFlashType, mOtaBootFilePresent, bootMode, flash>>
  BY DEF kept, device
<1>2. mCounter \in Nat /\ mFlashType \in FlashTypes
  BY DEF IInv, Typed
<1>3. Image' = Image
  BY <1>1 DEF Image
<1>4. Checked(mCounter)
  <2>1. CASE mCounter = 0
    <3>1. \A a \in 0..(ApromSize - 1) : ~(a < 0)
      OBVIOUS
    <3> QED  BY <2>1, <3>1, Extent DEF Checked
  <2>2. CASE answer.op = "success"
    BY <2>2 DEF SuccessInv, Verifying
  <2> QED  BY <2>1, <2>2
<1>5. mFlashType \notin Programs => bootMode = "APROM"
  BY DEF SuccessInv, StartsWithApp
<1>6. CASE mCounter < VerifyEnd
  <2> DEFINE at == IF mFlashType = "APROM_CLEAR" THEN mCounter ELSE Skip(mCounter)
             image == IF mFlashType = "APROM_CLEAR" THEN "blank" ELSE Image
  <2>1. /\ mState' = "VERIFY" /\ mCounter' = at + PageSize
        /\ command' = DFU_CHECK(Start(Image) + at, image) /\ answer' = None
    BY <1>6 DEF verify_done, Request
  <2>2. /\ command'.op = "check" /\ command'.at = Start(Image) + at /\ command'.image = image
        /\ answer'.op = "none"
    BY <2>1 DEF DFU_CHECK, None
  <2>3. Checked(at) /\ at \in Nat
    BY <1>2, <1>4, SkippedIsEmpty
  <2> HIDE DEF at
  <2>4. mCounter' - PageSize = at
    BY <2>1, <2>3, Constants
  <2>5. Start(Image)' = Start(Image)
    BY <1>3 DEF Start
  <2>6. Verifying'
    <3>1. Checked(mCounter - PageSize)'
      BY <1>1, <1>3, <2>3, <2>4 DEF Checked, Filled, Start
    <3> QED  BY <1>1, <1>3, <2>2, <2>4, <2>5, <3>1 DEF Verifying
  <2>7. StartsWithApp'
    BY <1>1, <1>5, <2>1, <2>2 DEF StartsWithApp
  <2> QED  BY <2>1, <2>6, <2>7 DEF SuccessInv, Validating, Completed, CompleteMeansFlashed
<1>7. CASE ~(mCounter < VerifyEnd)
  <2>1. mCounter >= VerifyEnd
    BY <1>2, <1>7, Constants DEF VerifyEnd, mCombinedFileSize, Image, Files
  <2>2. IF mFlashType = "APROM_CLEAR" THEN \A a \in 0..(ApromSize - 1) : flash[a] = "blank"
        ELSE Holds(Image)
    BY <1>4, <2>1, AllChecked
  <2>3. CASE mFlashType = "APROM_CLEAR"
    <3>1. mState' = "COMPLETE" /\ command'.op = "none" /\ answer'.op = "none"
      BY <1>7, <2>3 DEF verify_done, set_state, None
    <3> QED
      BY <1>1, <2>2, <2>3, <3>1 DEF SuccessInv, StartsWithApp, Verifying, Validating, Completed,
                                    CompleteMeansFlashed, Programs
  <2>4. CASE mFlashType # "APROM_CLEAR"
    <3>1. SendReboot(IF mFlashType = "DFU" THEN "LDROM" ELSE "APROM", "VALIDATE")
      BY <1>7, <2>4 DEF verify_done
    <3> QED  BY <1>5, <2>2, <2>4, <3>1, SuccessSendReboot DEF Areas
  <2> QED  BY <2>3, <2>4
<1> QED  BY <1>6, <1>7
LEMMA SuccessValidate ==
  ASSUME IInv, SuccessInv, validate
  PROVE  SuccessInv'
<1>1. /\ mState = "VALIDATE" /\ UNCHANGED <<kept, device>>
      /\ UNCHANGED <<mFlashType, mOtaBootFilePresent, mode, bootMode, flash>>
  BY DEF validate, kept, device
<1>2. mFlashType # "APROM_CLEAR" /\ Holds(Image) /\ (mFlashType \notin Programs => bootMode = "APROM")
  BY <1>1 DEF SuccessInv, Validating, StartsWithApp
<1>3. CASE mFlashType = "DFU" /\ SendReboot("APROM", "COMPLETE")
  BY <1>1, <1>2, <1>3, SuccessSendReboot DEF Areas
<1>4. CASE mState' = "FAIL"
  BY <1>4, SuccessBegins
<1>5. CASE UNCHANGED <<mState, command, answer, history>>
  BY <1>1, <1>5, SuccessKept DEF history
<1>6. CASE /\ mode = "app" /\ UNCHANGED <<mState, history>>
           /\ command' = DFU_BOOTMODE("APROM") /\ answer' = None
  <2>1. command'.op = "bootmode" /\ command'.where = "APROM" /\ answer'.op = "none"
    BY <1>6 DEF DFU_BOOTMODE, None
  <2>2. Image' = Image /\ Holds(Image)' = Holds(Image) /\ Works("APROM")' = Works("APROM")
    BY <1>1, <1>6 DEF Image, Holds, Filled, Start, Works, history
  <2>3. Works("APROM")
    BY <1>6 DEF IInv, RunsWhatWorks, AppWorks
  <2> QED
    BY <1>1, <1>2, <1>6, <2>1, <2>2, <2>3
       DEF SuccessInv, StartsWithApp, Verifying, Validating, Completed, CompleteMeansFlashed
<1>7. \/ mFlashType = "DFU" /\ SendReboot("APROM", "COMPLETE")
      \/ mState' = "FAIL"
      \/ UNCHANGED <<mState, command, answer, history>>
      \/ /\ mode = "app" /\ UNCHANGED <<mState, history>>
         /\ command' = DFU_BOOTMODE("APROM") /\ answer' = None
  BY DEF validate, set_state, Request, EvbmeAnswers
<1> QED  BY <1>3, <1>4, <1>5, <1>6, <1>7

LEMMA SuccessFlashDone ==
  ASSUME IInv, SuccessInv, mState = "FLASH", flash_done, UNCHANGED <<kept, device>>
  PROVE  SuccessInv'
<1>1. UNCHANGED <<mFlashType, mOtaBootFilePresent, bootMode>>
  BY DEF kept, device
<1>2. CASE mCounter >= mCombinedFileSize(Image)
  <2>1. mState' = "VERIFY" /\ mCounter' = 0 /\ command'.op = "none" /\ answer'.op = "none"
    BY <1>2 DEF flash_done, set_state, None
  <2> QED  BY <1>1, <2>1, SuccessFlashing
<1>3. CASE ~(mCounter >= mCombinedFileSize(Image))
  <2>1. mState' = "FLASH" /\ command'.op = "write" /\ answer'.op = "none"
    BY <1>3 DEF flash_done, Request, DFU_WRITE, None
  <2> QED  BY <1>1, <2>1, SuccessFlashing
<1> QED  BY <1>2, <1>3

LEMMA SuccessProcess ==
  ASSUME IInv, SuccessInv, Process
  PROVE  SuccessInv'
<1>1. CASE init
  <2>1. CASE mState' \in {"FAIL", "OTA_ERASE"}
    BY <2>1, SuccessBegins
  <2>2. CASE send_reboot_request
    BY <1>1, <2>2, SuccessSendReboot DEF init, send_reboot_request, Areas
  <2> QED  BY <1>1, <2>1, <2>2 DEF init, set_state
<1>2. CASE ota_erase
  BY <1>2, SuccessBegins DEF ota_erase
<1>3. CASE erase
  <2>1. /\ mState = "ERASE" /\ mState' = "ERASE" /\ command'.op = "erase" /\ answer'.op = "none"
        /\ UNCHANGED <<mFlashType, mOtaBootFilePresent, bootMode>>
    BY <1>3 DEF erase, Request, DFU_ERASE, None, kept, device
  <2> QED  BY <2>1, SuccessFlashing
<1>4. CASE flash_verify
  BY <1>4, SuccessFlashDone, SuccessVerify DEF flash_verify
<1>5. CASE Finish
  BY <1>5, SuccessKept DEF Finish, device, history
<1> QED  BY <1>1, <1>2, <1>3, <1>4, <1>5, SuccessReboot, SuccessValidate DEF Process

LEMMA SuccessCallback ==
  ASSUME IInv, SuccessInv, dfu_callback
  PROVE  SuccessInv'
<1>1. /\ UNCHANGED <<kept, device>>
      /\ UNCHANGED <<mFlashType, mOtaBootFilePresent, bootMode, flash>>
      /\ answer.op \in {"success", "failure"}
  BY DEF dfu_callback, kept, device, IInv, Typed
<1>2. \A s : Done(s) => /\ mState' = s /\ mCounter' = 0 /\ command'.op = "none"
                        /\ answer'.op = "none" /\ UNCHANGED works
  BY DEF Done, set_state, None, history
<1>3. CASE mState' = "FAIL"
  BY <1>3, SuccessBegins
<1>4. CASE mState = "OTA_ERASE" /\ send_reboot_request
  BY <1>1, <1>4, SuccessSendReboot DEF send_reboot_request, Areas
<1>5. CASE mState = "REBOOT" /\ answer.op = "success" /\ Done("ERASE")
  BY <1>1, <1>2, <1>5, SuccessFlashing
<1>6. CASE mState = "ERASE" /\ Done(IF mFlashType = "APROM_CLEAR" THEN "VERIFY" ELSE "FLASH")
  BY <1>1, <1>2, <1>6, SuccessFlashing
<1>7. CASE mState = "VALIDATE" /\ answer.op = "success" /\ Done("COMPLETE")
  <2>1. /\ mState' = "COMPLETE" /\ command'.op = "none" /\ UNCHANGED works
        /\ Image' = Image /\ Holds(Image)' = Holds(Image) /\ Works("APROM")' = Works("APROM")
    BY <1>1, <1>2, <1>7 DEF Image, Holds, Filled, Start, Works
  <2> QED
    BY <1>1, <1>7, <2>1
       DEF SuccessInv, StartsWithApp, Verifying, Validating, Completed, CompleteMeansFlashed
<1>8. CASE mState = "FLASH" /\ flash_done
  BY <1>1, <1>8, SuccessFlashDone
<1>9. CASE mState = "VERIFY" /\ answer.op = "success" /\ verify_done
  BY <1>1, <1>9, SuccessVerify
<1> QED
  BY <1>1, <1>2, <1>3, <1>4, <1>5, <1>6, <1>7, <1>8, <1>9 DEF dfu_callback

\* The device flashes only while nothing is claimed.
LEMMA SuccessFlashes ==
  ASSUME IInv, SuccessInv, Erase \/ Write, UNCHANGED host
  PROVE  SuccessInv'
<1>1. /\ command.op \in {"erase", "write"} /\ command'.op \in {"none", "erase"}
      /\ UNCHANGED <<mState, mFlashType, bootMode>>
  BY DEF Erase, Write, Answer, None, host, IInv, CommandTyped
<1>2. mState \notin {"VERIFY", "VALIDATE", "COMPLETE"} /\ (mState = "REBOOT" => mFlashType \in Programs)
  BY <1>1 DEF SuccessInv, StartsWithApp, Verifying, Validating, Completed
<1> QED
  BY <1>1, <1>2 DEF SuccessInv, StartsWithApp, Verifying, Validating, Completed, CompleteMeansFlashed

LEMMA SuccessCheck ==
  ASSUME IInv, SuccessInv, Check, UNCHANGED host
  PROVE  SuccessInv'
<1>1. /\ command.op = "check" /\ command'.op = "none"
      /\ UNCHANGED <<mState, mCounter, mFlashType, mOtaBootFilePresent, bootMode, flash, works>>
  BY DEF Check, Answer, None, host, device, history
<1>2. CASE mState # "VERIFY"
  BY <1>1, <1>2 DEF SuccessInv, StartsWithApp, Verifying, Validating, Completed, CompleteMeansFlashed
<1>3. CASE mState = "VERIFY"
  <2>1. /\ mCounter \in Nat /\ mFlashType \in FlashTypes
        /\ Checked(mCounter - PageSize) /\ command.at = Start(Image) + (mCounter - PageSize)
        /\ command.image = IF mFlashType = "APROM_CLEAR" THEN "blank" ELSE Image
    BY <1>1, <1>3 DEF IInv, Typed, SuccessInv, Verifying
  <2>2. Image' = Image /\ Start(Image)' = Start(Image) /\ \A n : Checked(n)' = Checked(n)
    BY <1>1 DEF Image, Start, Checked, Filled
  <2>3. ASSUME answer'.op = "success"  PROVE Checked(mCounter)
    <3>1. \A a \in Page(command.at) :
             flash[a] = IF command.image # "blank" /\ a \in Filled(command.image)
                        THEN command.image ELSE "blank"
      BY <2>3 DEF Check, Answer
    <3>2. \A a \in Int : /\ command.at <= a
                         /\ a < Start(Image) + mCounter
                         => a \in Page(command.at)
      BY <2>1, Extent, Constants DEF Page
    <3>3. CASE mFlashType = "APROM_CLEAR"
      <4>1. Start(Image) = 0
        BY <3>3 DEF Start, Image
      <4> QED  BY <2>1, <3>1, <3>2, <3>3, <4>1, Constants DEF Checked
    <3>4. CASE mFlashType # "APROM_CLEAR"
      <4>1. Image # "blank" /\ command.image = Image
        BY <2>1, <3>4 DEF Image
      <4> QED  BY <2>1, <3>1, <3>2, <3>4, <4>1, Extent, Constants DEF Checked
    <3> QED  BY <3>3, <3>4
  <2>4. Verifying'
    BY <1>1, <1>3, <2>1, <2>2, <2>3 DEF Verifying
  <2> QED
    BY <1>1, <1>3, <2>4 DEF SuccessInv, StartsWithApp, Validating, Completed, CompleteMeansFlashed
<1> QED  BY <1>2, <1>3

LEMMA SuccessBootMode ==
  ASSUME IInv, SuccessInv, BootMode, UNCHANGED host
  PROVE  SuccessInv'
<1>1. /\ command.op = "bootmode" /\ bootMode' = command.where /\ command'.op = "none"
      /\ UNCHANGED <<mState, mCounter, mFlashType, mOtaBootFilePresent, flash, works>>
  BY DEF BootMode, Answer, None, host, history
<1>2. mState \notin {"VERIFY", "COMPLETE"}
  BY <1>1 DEF SuccessInv, Verifying, Completed
<1>3. Image' = Image /\ Holds(Image)' = Holds(Image) /\ Works("APROM")' = Works("APROM")
  BY <1>1 DEF Image, Holds, Filled, Start, Works
<1> QED
  BY <1>1, <1>2, <1>3
     DEF SuccessInv, StartsWithApp, Verifying, Validating, Completed, CompleteMeansFlashed

LEMMA SuccessMetadata ==
  ASSUME SuccessInv, Metadata, UNCHANGED host
  PROVE  SuccessInv'
<1>1. /\ command.op = "metadata" /\ command'.op = "none"
      /\ UNCHANGED <<mState, mFlashType, bootMode>>
  BY DEF Metadata, Answer, None, host, device
<1>2. mState \notin {"VERIFY", "VALIDATE", "COMPLETE"} /\ (mState = "REBOOT" => mFlashType \in Programs)
  BY <1>1 DEF SuccessInv, StartsWithApp, Verifying, Validating, Completed
<1> QED
  BY <1>1, <1>2 DEF SuccessInv, StartsWithApp, Verifying, Validating, Completed, CompleteMeansFlashed

LEMMA SuccessInductive ==
  ASSUME IInv, SuccessInv, [Next]_vars
  PROVE  SuccessInv'
<1>1. CASE \E type \in FlashTypes, ota \in BOOLEAN : StartRun(type, ota)
  BY <1>1, SuccessBegins DEF StartRun
<1>2. CASE Process  BY <1>2, SuccessProcess
<1>3. CASE dfu_callback  BY <1>3, SuccessCallback
<1>4. CASE Boot
  BY <1>4, SuccessKept DEF Boot, host, history
<1>5. CASE Execute
  <2>1. CASE Reboot /\ UNCHANGED host
    BY <2>1, SuccessKept DEF Reboot, host, history, None
  <2> QED
    BY <1>5, <2>1, SuccessFlashes, SuccessCheck, SuccessBootMode, SuccessMetadata DEF Execute
<1>6. CASE PowerCut
  BY <1>6, SuccessKept DEF PowerCut, host, None
<1>7. CASE Replug
  BY <1>7, SuccessKept DEF Replug, host, history, None
<1>8. CASE Kill
  BY <1>8, SuccessKept DEF Kill, device
<1>9. CASE UNCHANGED vars
  BY <1>9, SuccessKept DEF vars, host, device, history
<1> QED  BY <1>1, <1>2, <1>3, <1>4, <1>5, <1>6, <1>7, <1>8, <1>9 DEF Next

\* When chilictl ends with COMPLETE the flash holds every chunk of the files and
\* the device starts with them, whatever earlier, interrupted or failing runs have
\* left behind: verify_done asks for every page, and what is checked stays.
THEOREM SuccessMeansFlashed == Spec => []CompleteMeansFlashed
<1>1. Init => SuccessInv
  BY DEF Init, SuccessInv, StartsWithApp, Verifying, Validating, Completed, CompleteMeansFlashed
<1>2. SuccessInv => CompleteMeansFlashed
  BY DEF SuccessInv, Completed
<1>3. Init => IInv /\ SuccessInv
  BY <1>1, Initially
<1>4. IInv /\ SuccessInv /\ [Next]_vars => (IInv /\ SuccessInv)'
  BY Inductive, SuccessInductive
<1> QED  BY <1>2, <1>3, <1>4, PTL DEF Spec
=============================================================================
