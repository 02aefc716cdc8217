------------------------------- MODULE DiskIo -------------------------------
(***************************************************************************)
(* The FatFs media layer (periph/sd/fatfs/diskio.c) over SdDriver: one     *)
(* physical drive and the functions FatFs calls.  Each of them returns at  *)
(* once or runs one sd_* call to its end; res is what it has returned.     *)
(***************************************************************************)
EXTENDS SdDriver

CONSTANT LbaModulus   \* number of values of LBA_t, 2^32 in the code

ASSUME LbaAssumption == LbaModulus \in Nat \ {0}

VARIABLES configured, initialized, disk, res

diskVars == <<sdVars, configured, initialized, disk, res>>

DiskInit ==
  /\ SdInit
  /\ configured = FALSE /\ initialized = FALSE
  /\ disk = "none" /\ res = "OK"

Status == IF initialized THEN "OK" ELSE "NOINIT"

\* Disk function d returns r without a call to the card.
Answer(d, r) == disk' = d /\ res' = r /\ UNCHANGED <<sdVars, configured, initialized>>

\* Disk function d has called into sd.c.
Enter(d) == disk' = d /\ UNCHANGED <<configured, initialized, res>>

sd_fatfs_bridge_configure ==
  /\ step = "idle"
  /\ configured' = TRUE /\ initialized' = FALSE
  /\ disk' = "configure" /\ res' = "OK" /\ UNCHANGED sdVars

disk_initialize ==
  /\ step = "idle"
  /\ \/ ~configured /\ Answer("initialize", Status)
     \/ configured /\ CallInit /\ Enter("initialize")

\* CTRL_SYNC: the driver is taken to have waited, and after a success it has
\* (TransmissionClosed of SdDriver).
disk_ioctl_sync ==
  /\ step = "idle"
  /\ Answer("sync", IF initialized THEN "OK" ELSE "NOTRDY")

\* The sum wraps with the width of its type.
Fits(s, c) == (s + c) % LbaModulus <= dev.sector_count

\* disk_read and disk_write, which differ in the two operations.
Transfers(d, s, c, one, many) ==
  LET o == IF c = 1 THEN one ELSE many IN
  /\ step = "idle"
  /\ \/ ~initialized /\ Answer(d, "NOTRDY")
     \/ initialized /\ (~Fits(s, c) \/ c = 0) /\ Answer(d, "PARERR")
     \/ initialized /\ Fits(s, c) /\ c # 0 /\ CallBlock(o, s, c) /\ Enter(d)
     \/ /\ initialized /\ Fits(s, c) /\ c # 0 /\ RefuseBlock(o, s, c)
        /\ disk' = d /\ res' = "ERROR" /\ UNCHANGED <<configured, initialized>>

disk_read(s, c) == Transfers("read", s, c, "read", "readn")
disk_write(s, c) == Transfers("write", s, c, "write", "writen")

\* disk_read and disk_write make every error of sd.c RES_ERROR.
ReadWriteResult == IF ret' = "ok" THEN "OK" ELSE "ERROR"

\* What becomes of the result of the sd_* call.  The flag is set and never
\* cleared here.  First a variant that sets it in every case.
ReturnAlways ==
  \/ disk = "initialize" /\ initialized' = TRUE /\ res' = "OK"
  \/ disk # "initialize" /\ res' = ReadWriteResult /\ UNCHANGED initialized

Return ==
  \/ /\ disk = "initialize"
     /\ initialized' = (initialized \/ ret' = "ok")
     /\ res' = IF initialized' THEN "OK" ELSE "NOINIT"
  \/ disk # "initialize" /\ res' = ReadWriteResult /\ UNCHANGED initialized

RunCall ==
  /\ CallStep
  /\ IF step' = "idle" THEN Return ELSE UNCHANGED <<initialized, res>>
  /\ UNCHANGED <<configured, disk>>

DiskCall ==
  \/ sd_fatfs_bridge_configure
  \/ disk_initialize
  \/ disk_ioctl_sync
  \/ \E s \in Args, c \in Counts : disk_read(s, c) \/ disk_write(s, c)

DiskNext ==
  \/ DiskCall
  \/ RunCall
  \/ CardStep /\ UNCHANGED <<configured, initialized, disk, res>>

DiskSpec == DiskInit /\ [][DiskNext]_diskVars /\ WF_diskVars(RunCall)
-----------------------------------------------------------------------------
\* No transfer FatFs can ask for goes past the end of the card as the driver
\* knows it, although sd.c tests only the first sector and the sum that
\* diskio.c tests may have wrapped (as long as no count is close to 2^32).
TransferInsideCard ==
  [][step = "idle" /\ step' = "command" =>
       n' > 0 /\ sector' + n' <= dev.sector_count]_diskVars

\* While the drive says it is initialised, through every initialisation that
\* fails and every card that is swapped, the geometry that disk_ioctl reports
\* and the range tests use is that of a card the driver supports, never a
\* partly filled one.
GeometryOfSomeCard ==
  initialized =>
    /\ dev.sector_size = BlockLen
    /\ \E c \in Cards : c.class = "standard" /\ dev.sector_count = c.counted
=============================================================================
