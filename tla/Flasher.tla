------------------------------ MODULE Flasher -------------------------------
(***************************************************************************)
(* Updating the firmware of a Chili 2 (chilictl flash): the state machine  *)
(* of Flasher.cpp, the boot loader in LDROM (ldrom_hid.c) and the commands *)
(* for it that an application answers (cascoda_evbme.c).  The host works   *)
(* from two threads under one mutex, the polling loop (Process) and the    *)
(* callback for the device's answers, which go on from one another.        *)
(*                                                                         *)
(* Flash is counted in chunks, the data of one write command; a page is    *)
(* PageSize of them.  What a chunk holds is named by the image it is a part *)
(* of.  A reboot command chooses the program that runs next; only the boot *)
(* mode outlives the loss of power.                                        *)
(***************************************************************************)
EXTENDS Integers, FiniteSets

CONSTANTS
    PageSize, ApromSize, LdromSize, \* chunks in a page, in each flash memory
    AppStart,   \* where an application starts that has an OTA boot loader
    Sizes,      \* chunks of each of the files that may be given
    kMaxRebootDiscoverAttempts,
    MaxRuns,    \* bound: chilictl is started this often
    MaxFaults   \* bound: failures of any kind

FlashTypes == {"APROM_CLEAR", "APROM_PROGRAM", "APROM_CLEAR_AND_PROGRAM", "DFU", "MANUFACTURER"}
Files == {"app", "boot", "dfu", "manu"}

ASSUME FlasherAssumption ==
    /\ {PageSize, ApromSize, LdromSize, kMaxRebootDiscoverAttempts} \subseteq Nat \ {0}
    /\ ApromSize % PageSize = 0 /\ LdromSize % PageSize = 0 /\ AppStart % PageSize = 0
    /\ Sizes \in [Files -> Nat \ {0}]
    /\ AppStart \in Nat /\ Sizes["boot"] <= AppStart /\ AppStart + Sizes["app"] <= ApromSize - PageSize
    /\ Sizes["dfu"] < LdromSize /\ Sizes["manu"] < PageSize
    /\ MaxRuns \in Nat /\ MaxFaults \in Nat

VARIABLES
    \* ---- chilictl
    running,        \* is there a process?
    mState, mCounter, mFlashType, mOtaBootFilePresent,
    open,           \* is mDeviceRef in use (its context set)?
    mAppName,       \* of mDeviceInfo: what the device was running when found
    retries,        \* of validate
    \* ---- between them
    command, answer,
    \* ---- the device
    mode,           \* the program that runs; "dead" if it is not there
    vector,         \* where a reboot in software goes, until power is lost
    bootMode,       \* where the device starts when it gets power (CONFIG0)
    flash,
    \* ---- history
    works,          \* do the programs in the files work?
    lost,           \* has this run lost a command or an answer?
    clean,          \* is this run without any failure so far?
    exposed,        \* has manufacturer data been given to a boot loader?
    runs, faults

host == <<running, mState, mCounter, mFlashType, mOtaBootFilePresent, open, mAppName, retries>>
kept == <<running, mFlashType, mOtaBootFilePresent>>    \* for as long as a run lasts
device == <<mode, vector, bootMode, flash>>
history == <<works, lost, clean, exposed, runs, faults>>
vars == <<host, command, answer, device, history>>

None == [op |-> "none"]
DFU_REBOOT(where) == [op |-> "reboot", where |-> where]
DFU_BOOTMODE(where) == [op |-> "bootmode", where |-> where]
DFU_ERASE(from, to) == [op |-> "erase", from |-> from, to |-> to]
DFU_WRITE(at, image) == [op |-> "write", at |-> at, image |-> image]
DFU_CHECK(at, image) == [op |-> "check", at |-> at, image |-> image]
EraseMetadata == [op |-> "metadata"]    \* DFU_ERASE in the external flash

\* The addresses of LDROM do not follow those of APROM.
LdromBase == ApromSize + 1
Addresses == 0..(ApromSize - 1) \union LdromBase..(LdromBase + LdromSize - 1)
Page(a) == a..(a + PageSize - 1)
ManuPage == ApromSize - PageSize

\* An image is a type of flashing and whether an OTA boot loader comes with it.
Image == IF mFlashType = "DFU" THEN "dfu"
         ELSE IF mFlashType = "MANUFACTURER" THEN "manu"
         ELSE IF mOtaBootFilePresent THEN "both" ELSE "app"

\* configure_size_and_addresses, get_start_address
Start(image) == IF image = "dfu" THEN LdromBase ELSE IF image = "manu" THEN ManuPage ELSE 0
mCombinedFileSize(image) ==
    IF image = "both" THEN AppStart + Sizes["app"] ELSE Sizes[image]

\* The chunks that the files of an image fill: between an OTA boot loader and
\* the application there is a gap.
Filled(image) ==
    IF image = "both" THEN 0..(Sizes["boot"] - 1) \union AppStart..(AppStart + Sizes["app"] - 1)
    ELSE Start(image)..(Start(image) + Sizes[image] - 1)

Holds(image) == \A a \in Filled(image) : flash[a] = image

\* Does a flash memory hold a program that starts and answers?
Works(area) ==
    IF area = "LDROM" THEN \/ \A a \in Filled("dfu") : flash[a] = "old"
                           \/ works /\ Holds("dfu")
    ELSE \/ \A a \in Filled("app") : flash[a] = "old"
         \/ works /\ (Holds("app") \/ Holds("both"))

Programs == {"APROM_CLEAR", "APROM_PROGRAM", "APROM_CLEAR_AND_PROGRAM"}
Clears == {"APROM_CLEAR", "APROM_CLEAR_AND_PROGRAM"}

Fault == faults < MaxFaults /\ faults' = faults + 1 /\ clean' = FALSE

----------------------------------------------------------------------------
(* chilictl.                                                               *)

\* Flash::Process starts a flasher for a device that it has found, whatever it
\* is running.
StartRun(type, ota) ==
    /\ ~running /\ runs < MaxRuns /\ runs' = runs + 1
    /\ mode \in {"app", "dfu"} /\ command = None
    /\ ota => type \in Programs \ {"APROM_CLEAR"}
    /\ running' = TRUE /\ mState' = "INIT" /\ mCounter' = 0
    /\ mFlashType' = type /\ mOtaBootFilePresent' = ota
    /\ open' = FALSE /\ mAppName' = mode /\ retries' = 0
    /\ answer' = None /\ UNCHANGED command
    /\ lost' = FALSE /\ clean' = TRUE
    /\ exposed' = (exposed \/ (type = "MANUFACTURER" /\ mode = "dfu"))
    /\ UNCHANGED <<device, works, faults>>

\* mutant: it does not reset the counter
set_state_only(s) == mState' = s /\ UNCHANGED mCounter
set_state(s) == mState' = s /\ mCounter' = 0
Request(c) == command' = c /\ answer' = None

\* A reboot, after which the device is given up.  It may not be sent in time.
SendReboot(where, next) ==
    \/ /\ Request(DFU_REBOOT(where)) /\ open' = FALSE
       /\ set_state(next)
       /\ UNCHANGED history
    \/ /\ Fault /\ set_state("FAIL")
       /\ \/ Request(DFU_REBOOT(where)) \/ Request(None)
       /\ UNCHANGED <<open, works, lost, exposed, runs>>

send_reboot_request ==
    SendReboot(IF mFlashType \in Programs THEN "LDROM" ELSE "APROM", "REBOOT")

init ==
    /\ mState = "INIT"
    /\ IF mode \notin {"app", "dfu"}    \* it cannot be opened, or asked its version
       THEN /\ set_state("FAIL")
            /\ UNCHANGED <<open, command, answer, history>>
       ELSE IF mOtaBootFilePresent
       THEN /\ set_state("OTA_ERASE") /\ open' = TRUE
            /\ UNCHANGED <<command, answer, history>>
       ELSE send_reboot_request
    /\ UNCHANGED <<kept, mAppName, retries, device>>

ota_erase ==
    /\ mState = "OTA_ERASE" /\ mCounter = 0
    /\ Request(EraseMetadata) /\ mCounter' = 1
    /\ UNCHANGED <<kept, mState, open, mAppName, retries, device, history>>

\* DeviceList::Refresh.  The device carries out a reboot, and is back, before
\* the attempts to find it run out.
Away == mode = "boot" \/ command # None
Found(names) == ~Away /\ mode \in names

RebootedInto == IF mFlashType \in Programs THEN {"dfu"} ELSE {"app", "dfu"}

\* mutant: the boot mode is left for later
BootModeKept == IF mFlashType \in Programs THEN bootMode ELSE "APROM"
BootModeWanted == IF mFlashType \in Programs THEN "LDROM" ELSE "APROM"

reboot ==
    /\ mState = "REBOOT" /\ ~open
    /\ \/ /\ ~Found(RebootedInto)
          /\ Away => mCounter + 1 < kMaxRebootDiscoverAttempts
          /\ IF mCounter + 1 >= kMaxRebootDiscoverAttempts THEN set_state("FAIL")
             ELSE mCounter' = mCounter + 1 /\ UNCHANGED mState
          /\ UNCHANGED <<open, mAppName, command, answer>>
       \/ /\ Found(RebootedInto)
          /\ IF mFlashType = "DFU" /\ mAppName = "dfu"
             THEN /\ set_state("FAIL")
                  /\ UNCHANGED <<open, mAppName, command, answer>>
             ELSE /\ mAppName' = mode /\ open' = TRUE
                  /\ Request(DFU_BOOTMODE(BootModeWanted))
                  /\ mCounter' = mCounter + 1
                  /\ UNCHANGED mState
    /\ UNCHANGED <<kept, retries, device, history>>

\* get_page_count_for_erase.  mutant: the last page is left out if not full
EraseEndFloor ==
    IF mFlashType \in Clears THEN ApromSize
    ELSE Start(Image) + (mCombinedFileSize(Image) \div PageSize) * PageSize
EraseEnd ==
    IF mFlashType \in Clears THEN ApromSize
    ELSE Start(Image) + ((mCombinedFileSize(Image) + PageSize - 1) \div PageSize) * PageSize

erase ==
    /\ mState = "ERASE" /\ mCounter = 0
    /\ Request(DFU_ERASE(Start(Image), EraseEnd)) /\ mCounter' = 1
    /\ UNCHANGED <<kept, mState, open, mAppName, retries, device, history>>

\* Where the next write or check goes, behind the gap if it has reached it
Skip(n) == IF Image = "both" /\ n >= Sizes["boot"] /\ n < AppStart THEN AppStart ELSE n

\* flash_done(CA_ERROR_SUCCESS), of a callback or to begin with
flash_done ==
    /\ IF mCounter >= mCombinedFileSize(Image)
       THEN set_state("VERIFY") /\ command' = None /\ answer' = None
       ELSE /\ Request(DFU_WRITE(Start(Image) + Skip(mCounter), Image))
            /\ mCounter' = Skip(mCounter) + 1
            /\ UNCHANGED mState
    /\ UNCHANGED <<open, history>>

\* verify_done(CA_ERROR_SUCCESS).  mutant: it ends with the last whole page
VerifyEndFloor == (mCombinedFileSize(Image) \div PageSize) * PageSize
VerifyEnd == IF mFlashType = "APROM_CLEAR" THEN ApromSize ELSE mCombinedFileSize(Image)

verify_done ==
    IF mCounter < VerifyEnd
    THEN LET at == IF mFlashType = "APROM_CLEAR" THEN mCounter ELSE Skip(mCounter)
         IN /\ Request(DFU_CHECK(Start(Image) + at,
                                 IF mFlashType = "APROM_CLEAR" THEN "blank" ELSE Image))
            /\ mCounter' = at + PageSize
            /\ UNCHANGED <<mState, open, history>>
    ELSE IF mFlashType = "APROM_CLEAR"
    THEN /\ set_state("COMPLETE") /\ command' = None /\ answer' = None
         /\ UNCHANGED <<open, history>>
    ELSE SendReboot(IF mFlashType = "DFU" THEN "LDROM" ELSE "APROM", "VALIDATE")

flash_verify ==
    /\ mCounter = 0
    /\ \/ mState = "FLASH" /\ flash_done
       \/ mState = "VERIFY" /\ verify_done
    /\ UNCHANGED <<kept, mAppName, retries, device>>

\* mutant: the application need not answer
EvbmeNotAsked == TRUE
EvbmeAnswers == mode = "app"

ValidatedNames == IF mFlashType = "DFU" THEN {"dfu"} ELSE {"app", "dfu"}

validate ==
    /\ mState = "VALIDATE" /\ mCounter = 0
    /\ \/ /\ ~Found(ValidatedNames)
          /\ Away => retries < kMaxRebootDiscoverAttempts
          /\ retries' = retries + 1
          /\ IF retries >= kMaxRebootDiscoverAttempts THEN set_state("FAIL")
             ELSE UNCHANGED <<mState, mCounter>>
          /\ UNCHANGED <<open, mAppName, command, answer, history>>
       \/ /\ Found(ValidatedNames)
          /\ mAppName' = mode
          /\ IF mFlashType = "DFU"
             THEN SendReboot("APROM", "COMPLETE")
             ELSE IF EvbmeAnswers
             THEN /\ Request(DFU_BOOTMODE("APROM")) /\ mCounter' = 1 /\ open' = TRUE
                  /\ UNCHANGED <<mState, history>>
             ELSE /\ set_state("FAIL")
                  /\ UNCHANGED <<open, command, answer, history>>
          /\ UNCHANGED retries
    /\ UNCHANGED <<kept, device>>

\* The loop of Flash::flash_process ends.
Finish ==
    /\ mState \in {"COMPLETE", "FAIL"}
    /\ running' = FALSE
    /\ UNCHANGED <<mState, mCounter, mFlashType, mOtaBootFilePresent, open, mAppName, retries,
                   command, answer, device, history>>

Process ==
    running /\ (init \/ ota_erase \/ reboot \/ erase \/ flash_verify \/ validate \/ Finish)

\* dfu_callback with an answer of the device
Done(s) == /\ set_state(s) /\ command' = None /\ answer' = None
           /\ UNCHANGED <<open, history>>
dfu_callback ==
    /\ running /\ open /\ answer.op # "none"
    /\ IF answer.op = "failure" THEN Done("FAIL")
       ELSE \/ mState = "OTA_ERASE" /\ send_reboot_request
            \/ mState = "REBOOT" /\ Done("ERASE")
            \/ mState = "ERASE" /\ Done(IF mFlashType = "APROM_CLEAR" THEN "VERIFY" ELSE "FLASH")
            \/ mState = "FLASH" /\ flash_done
            \/ mState = "VERIFY" /\ verify_done
            \/ mState = "VALIDATE" /\ Done("COMPLETE")
    /\ UNCHANGED <<kept, mAppName, retries, device>>

----------------------------------------------------------------------------
(* The device.                                                             *)

\* A program starts, or hangs.
Boot ==
    LET area == IF vector = "none" THEN bootMode ELSE vector
    IN
    /\ mode = "boot"
    /\ mode' = IF ~Works(area) THEN "dead" ELSE IF area = "LDROM" THEN "dfu" ELSE "app"
    /\ UNCHANGED <<host, command, answer, vector, bootMode, flash, history>>

\* isValidFlashAddr: an application writes to its data and to the boot loader;
\* the boot loader only to APROM, and does not find out that it has not written
Allowed(a) == a \in ManuPage..(ApromSize - 1) \union LdromBase..(LdromBase + LdromSize - 1)
Writable == IF mode = "app" THEN {a \in Addresses : Allowed(a)} ELSE 0..(ApromSize - 1)

Answer(ok) == command' = None /\ answer' = [op |-> IF ok THEN "success" ELSE "failure"]

\* ParseErase and EVBME_DFU_erase, a page at a time: it may fail, which only an
\* application notices
Erase ==
    LET Blank(S) == [a \in Addresses |-> IF a \in S \intersect Writable THEN "blank" ELSE flash[a]]
        Next == IF command.from + PageSize >= command.to THEN Answer(TRUE)
                ELSE /\ command' = [command EXCEPT !.from = @ + PageSize]
                     /\ UNCHANGED answer
    IN
    /\ command.op = "erase"
    /\ IF mode = "app" /\ ~Allowed(command.from)
       THEN Answer(FALSE) /\ UNCHANGED <<flash, history>>
       ELSE \/ flash' = Blank(Page(command.from)) /\ Next /\ UNCHANGED history
            \/ /\ Fault /\ UNCHANGED <<flash, works, lost, exposed, runs>>
               /\ IF mode = "app" THEN Answer(FALSE) ELSE Next
    /\ UNCHANGED <<mode, vector, bootMode>>

\* ParseWrite and EVBME_DFU_write: bits that are clear stay clear, and nobody
\* looks whether a write has worked
Write ==
    LET Put(x) == [flash EXCEPT ![command.at] = IF command.at \in Writable THEN x ELSE @]
    IN
    /\ command.op = "write"
    /\ IF mode = "app" /\ ~(Allowed(command.at) /\ Allowed(command.at + 1))
       THEN Answer(FALSE) /\ UNCHANGED <<flash, history>>
       ELSE /\ Answer(TRUE)
            /\ \/ /\ flash' = Put(IF flash[command.at] = "blank" THEN command.image ELSE "junk")
                  /\ UNCHANGED history
               \/ Fault /\ flash' = Put("junk") /\ UNCHANGED <<works, lost, exposed, runs>>
    /\ UNCHANGED <<mode, vector, bootMode>>

\* ParseCheck and BSP_FlashCheck: behind the end of a file a page is blank
Check ==
    /\ command.op = "check"
    /\ Answer(\A a \in Page(command.at) :
           flash[a] = IF command.image # "blank" /\ a \in Filled(command.image)
                      THEN command.image ELSE "blank")
    /\ UNCHANGED <<device, history>>

\* ParseBootMode and BSP_SetBootMode.  The configuration page is erased only to
\* set APROM, which is also what a blank one says.
BootMode ==
    /\ command.op = "bootmode"
    /\ bootMode' = command.where
    /\ Answer(TRUE)
    /\ UNCHANGED <<mode, vector, flash, history>>

\* ParseReboot and EVBME_DFU_reboot
Reboot ==
    /\ command.op = "reboot"
    /\ mode' = "boot" /\ vector' = command.where
    /\ command' = None /\ UNCHANGED answer
    /\ UNCHANGED <<bootMode, flash, history>>

\* Only an application with an external flash can erase its metadata; the boot
\* loader says that it has done so.
Metadata ==
    /\ command.op = "metadata"
    /\ \/ Answer(TRUE) /\ UNCHANGED history
       \/ mode = "app" /\ Fault /\ Answer(FALSE) /\ UNCHANGED <<works, lost, exposed, runs>>
    /\ UNCHANGED device

Execute ==
    /\ mode \in {"app", "dfu"}
    /\ Erase \/ Write \/ Check \/ BootMode \/ Reboot \/ Metadata
    /\ UNCHANGED host

\* The device loses power and gets it back.
PowerCut ==
    /\ Fault
    /\ mode' = "boot" /\ vector' = "none"
    /\ lost' = (lost \/ command # None \/ answer # None)
    /\ command' = None /\ answer' = None
    /\ UNCHANGED <<host, bootMode, flash, works, exposed, runs>>

\* Somebody unplugs a device that hangs, to plug it in again.
Replug ==
    /\ mode = "dead" /\ ~running
    /\ mode' = "boot" /\ vector' = "none" /\ command' = None /\ answer' = None
    /\ UNCHANGED <<host, bootMode, flash, history>>

\* chilictl is stopped; the device carries out what it has been told to.
Kill ==
    /\ running /\ Fault
    /\ running' = FALSE
    /\ UNCHANGED <<mState, mCounter, mFlashType, mOtaBootFilePresent, open, mAppName, retries,
                   command, answer, device, works, lost, exposed, runs>>

----------------------------------------------------------------------------
Init ==
    /\ running = FALSE /\ mState = "INIT" /\ mCounter = 0 /\ mFlashType = "APROM_PROGRAM"
    /\ mOtaBootFilePresent = FALSE /\ open = FALSE /\ mAppName = "app" /\ retries = 0
    /\ command = None /\ answer = None
    /\ mode = "boot" /\ vector = "none" /\ bootMode = "APROM"
    /\ flash = [a \in Addresses |-> "old"]
    /\ works \in BOOLEAN /\ lost = FALSE /\ clean = TRUE /\ exposed = FALSE
    /\ runs = 0 /\ faults = 0

Next ==
    \/ \E type \in FlashTypes, ota \in BOOLEAN : StartRun(type, ota)
    \/ Process \/ dfu_callback
    \/ Boot \/ Execute \/ PowerCut \/ Replug \/ Kill

\* chilictl polls every half a second, its exchange hands up answers, and the
\* device carries out what it is sent.
Fairness == WF_vars(Process) /\ WF_vars(dfu_callback) /\ WF_vars(Boot) /\ WF_vars(Execute)

Spec == Init /\ [][Next]_vars /\ Fairness

----------------------------------------------------------------------------
(* Properties.                                                             *)

\* Whatever fails, and whenever: a device that gets power starts a program that
\* can be asked to flash it again.  So the boot loader must be what it starts
\* with before the application is erased, and the application only again when
\* it has answered, or when it is the boot loader that is replaced.  This fails
\* once manufacturer data is given to a device in its boot loader: unlike for the
\* boot loader itself, reboot then makes the application what the device starts
\* with although nothing has shown that there is one.
NeverBricked == Works(bootMode) \/ exposed

\* When chilictl reports success the flash holds all of the files, and nothing
\* else in the pages that it has programmed, and the device starts with them.
CompleteMeansFlashed ==
    mState = "COMPLETE" =>
        /\ IF mFlashType = "APROM_CLEAR" THEN \A a \in 0..(ApromSize - 1) : flash[a] = "blank"
           ELSE Holds(Image) /\ bootMode = "APROM"
        /\ mFlashType = "MANUFACTURER" => Works("APROM")

\* chilictl comes to an end, with polling loop and callback each waiting for the
\* other to go on, unless the device loses power with a command to answer, or does
\* not start again (see NeverBricked): there is no time-out for that.
FlashingEnds == running ~> ~running \/ lost \/ (exposed /\ mode = "dead")

\* However earlier runs have been interrupted, flashing succeeds in a run without
\* failures: of APROM as long as there is a boot loader, of anything else as long
\* as the application runs.
RetrySucceeds ==
    /\ running /\ clean /\ works
    /\ IF mFlashType \in Programs THEN Works("LDROM") ELSE mAppName = "app"
    ~> mState = "COMPLETE" \/ ~clean
=============================================================================
