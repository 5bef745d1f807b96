----------------------------- MODULE Bootloader -----------------------------
(***************************************************************************)
(* The boot loader: starting a firmware, and installing another over USB   *)
(* with power lost before any step that writes flash.                      *)
(*                                                                         *)
(* Flash holds the descriptor of a firmware, behind it the storage of the  *)
(* wallet, and the code.  The first packet of an upload is the descriptor  *)
(* and every other one a piece of the code; lengths count half packets, so *)
(* that one may end within a word.  A long flash operation is a job: a     *)
(* sequence of steps.  Of the storage it only matters who wrote it.        *)
(***************************************************************************)
EXTENDS Integers, Sequences, FiniteSets

CONSTANTS
  Firmwares,      \* what the host uploads
  Lengths,        \* the lengths it announces, in half packets
  UPDATE_BOOTLOADER
PUBKEYS == 5
Packet == 2       \* half packets

\* sigs are the signature indices of the descriptor, valid the positions of those that
\* verify; keep is the restore flag, fits: is codelen within its limits?
ASSUME BootloaderAssumption ==
  /\ UPDATE_BOOTLOADER \in BOOLEAN
  /\ Lengths \subseteq Nat
  /\ Firmwares \subseteq
       [sigs : [1 .. 3 -> Nat], valid : SUBSET (1 .. 3), codelen : Nat, keep : BOOLEAN, fits : BOOLEAN]

VARIABLES
  \* Flash.
  boot,           \* the boot loader: old and known, new (that of the firmware), unknown or broken
  magic,          \* is "SAFT" in front of the descriptor?
  descriptor,     \* the firmware it belongs to, or NoFirmware
  storage,        \* who wrote the storage, see Storages
  code,           \* packets of the code of that firmware
  \* RAM.
  running,        \* off, loader, signed, unsigned or halt
  flash_state, flash_pos, flash_len, brand_new_firmware, old_was_unsigned, meta_backup,
  job,            \* the flash steps to be done, with what follows
  \* History variables.
  before,         \* the storage at the last start
  approved        \* the firmware whose fingerprint was confirmed, with its length

flash == <<boot, magic, descriptor, storage, code>>
upload == <<flash_pos, flash_len>>
session == <<brand_new_firmware, old_was_unsigned>>
vars == <<flash, running, flash_state, upload, session, meta_backup, job, before, approved>>

NoFirmware == [sigs |-> <<0, 0, 0>>, valid |-> {}, codelen |-> 0, keep |-> TRUE, fits |-> FALSE]
Nothing == [firmware |-> NoFirmware, code |-> 0]
NoBackup == [magic |-> FALSE, descriptor |-> NoFirmware, storage |-> "zero"]
Storages == {"erased", "zero", "pattern", "signed", "unsigned", "part of signed", "part of unsigned"}

Init ==
  /\ boot \in {"old", "new", "unknown"}
  /\ magic = FALSE /\ descriptor = NoFirmware /\ storage = "erased" /\ code = 0
  /\ running = "off" /\ flash_state = "READY" /\ flash_pos = 0 /\ flash_len = 0
  /\ brand_new_firmware = FALSE /\ old_was_unsigned = FALSE /\ meta_backup = NoBackup
  /\ job = <<>> /\ before = "erased" /\ approved = Nothing

-----------------------------------------------------------------------------
(* What flash holds.                                                       *)

\* The signatures are for the first codelen bytes of the code.
signatures_ok ==
  /\ \A i \in 1 .. 3 : descriptor.sigs[i] \in 1 .. PUBKEYS /\ i \in descriptor.valid
  /\ \A i, j \in 1 .. 3 : i # j => descriptor.sigs[i] # descriptor.sigs[j]
  /\ code >= descriptor.codelen
firmware_present == magic /\ descriptor.fits

-----------------------------------------------------------------------------
(* Flash operations.                                                       *)

Flashed(m, d, s, c) == magic' = m /\ descriptor' = d /\ storage' = s /\ code' = c

\* The descriptor with its storage fills two sectors, and the first one has part of it.
Part(s) ==
  IF s = "signed" THEN "part of signed" ELSE IF s = "unsigned" THEN "part of unsigned" ELSE s
Half(d) ==
  [sigs |-> d.sigs, valid |-> {}, codelen |-> d.codelen, keep |-> d.keep, fits |-> d.fits]

\* Code is erased and programmed in words: nothing in flash is whole before the last one.
Step(step) ==
  \/ step = "erase first" /\ Flashed(FALSE, NoFirmware, Part(storage), code)
  \/ step = "erase second" /\ Flashed(magic, descriptor, "erased", code)
  \/ step = "erase code" /\ Flashed(magic, descriptor, storage, 0)
  \/ step = "pattern" /\ Flashed(FALSE, NoFirmware, "pattern", code)
  \/ step = "magic" /\ Flashed(meta_backup.magic, descriptor, storage, code)
  \/ /\ step = "half descriptor"
     /\ Flashed(magic, IF descriptor = NoFirmware THEN Half(meta_backup.descriptor) ELSE descriptor,
                storage, code)
  \/ step = "descriptor" /\ Flashed(magic, meta_backup.descriptor, storage, code)
  \/ step = "some storage" /\ Flashed(magic, descriptor, Part(meta_backup.storage), code)
  \/ step = "storage" /\ Flashed(magic, descriptor, meta_backup.storage, code)

erase_metadata_sectors == <<"erase first", "erase second">>
NoStorage == <<"magic", "half descriptor", "descriptor">>   \* a mistake
restore_metadata == <<"magic", "half descriptor", "descriptor", "some storage", "storage">>
CodeFirst == <<"erase code">> \o erase_metadata_sectors   \* a mistake
EraseAll == erase_metadata_sectors \o <<"erase code">>

FlashStep ==
  /\ Len(job) > 1 /\ job' = Tail(job)
  /\ IF Head(job) \in {"erase boot", "write boot"}
     THEN /\ boot' = IF Head(job) = "erase boot" THEN "broken" ELSE "new"
          /\ UNCHANGED <<magic, descriptor, storage, code>>
     ELSE Step(Head(job)) /\ UNCHANGED boot
  /\ UNCHANGED <<running, flash_state, upload, session, meta_backup, before, approved>>

\* The last entry of a job says where it ends.  FirmwareErase may find that flash is not
\* erased.
JobDone ==
  /\ Len(job) = 1 /\ job' = <<>>
  /\ IF Head(job) = "halt"
     THEN running' = "halt" /\ UNCHANGED <<flash_state, meta_backup>>
     ELSE /\ flash_state' \in {Head(job)} \cup (IF Head(job) = "FLASHSTART" THEN {"END"} ELSE {})
          /\ meta_backup' = IF Head(job) = "FLASHSTART" THEN meta_backup ELSE NoBackup
          /\ UNCHANGED running
  /\ UNCHANGED <<flash, upload, session, before, approved>>

-----------------------------------------------------------------------------
(* Start.                                                                  *)

\* The statics of a fresh start.
Fresh ==
  /\ flash_state' = "READY" /\ flash_pos' = 0 /\ flash_len' = 0 /\ old_was_unsigned' = FALSE
  /\ meta_backup' = NoBackup

Starting == running = "off" /\ boot # "broken" /\ before' = storage /\ UNCHANGED <<flash, approved>>

\* check_bootloader, the first thing the firmware does.
check_bootloader(kind) ==
  /\ running' = IF boot = "unknown" THEN "halt" ELSE kind
  /\ job' = IF boot = "old" /\ UPDATE_BOOTLOADER THEN <<"erase boot", "write boot", "halt">> ELSE <<>>
\* main: no button is held.  show_unofficial_warning asks twice.
load_app ==
  /\ Starting /\ firmware_present
  /\ check_bootloader(IF signatures_ok THEN "signed" ELSE "unsigned")
  /\ UNCHANGED <<flash_state, upload, session, meta_backup>>
show_halt ==
  /\ Starting /\ firmware_present /\ ~signatures_ok /\ running' = "halt"
  /\ UNCHANGED <<flash_state, upload, session, meta_backup, job>>

\* A button is held, or there is no firmware.
bootloader_loop ==
  /\ Starting /\ running' = "loader" /\ brand_new_firmware' = ~firmware_present /\ Fresh
  /\ UNCHANGED job

\* Power is lost, or the user unplugs the device.
PowerLoss ==
  /\ running # "off" /\ running' = "off" /\ job' = <<>>
  /\ Fresh /\ brand_new_firmware' = FALSE /\ before' = storage
  /\ UNCHANGED <<flash, approved>>

\* The firmware stores a seed.
FirmwareStores ==
  /\ running \in {"signed", "unsigned"} /\ job = <<>>
  /\ storage' = running /\ before' = running
  /\ UNCHANGED <<boot, magic, descriptor, code, running, flash_state, upload, session, meta_backup, job, approved>>

-----------------------------------------------------------------------------
(* Messages.  The user answers every question in the loop of its handler.  *)

Ready(states) == running = "loader" /\ job = <<>> /\ flash_state \in states
Ends(state) ==
  /\ flash_state' = state
  /\ UNCHANGED <<flash, running, upload, session, meta_backup, job, before, approved>>
Starts(steps, end) ==
  job' = Append(steps, end) /\ UNCHANGED <<flash, running, flash_state, upload, before, approved>>
\* backup_metadata
Backup == meta_backup' = [magic |-> magic, descriptor |-> descriptor, storage |-> storage]

Initialize == Ready({"READY", "OPEN"}) /\ Ends("OPEN")

WipeDevice ==
  /\ Ready({"READY", "OPEN"})
  /\ \/ Starts(EraseAll, "END") /\ UNCHANGED <<session, meta_backup>>
     \/ Ends("END")

\* The flash test of SelfTest asks nobody.
SelfTest ==
  /\ Ready({"READY", "OPEN"}) /\ Backup /\ UNCHANGED session
  /\ Starts(erase_metadata_sectors \o <<"pattern">> \o erase_metadata_sectors \o restore_metadata, flash_state)

OldIsPresent == ~brand_new_firmware                       \* a mistake
OldIsSigned == ~brand_new_firmware /\ signatures_ok
FirmwareErase ==
  /\ Ready({"OPEN"})
  /\ \/ /\ Starts(EraseAll, "FLASHSTART")
        /\ old_was_unsigned' = ~OldIsSigned /\ UNCHANGED brand_new_firmware
        /\ IF OldIsSigned THEN Backup ELSE UNCHANGED meta_backup
     \/ ~brand_new_firmware /\ Ends("END")

\* The first packet is the descriptor, whose magic is not written yet.
FirmwareUpload(f, len) ==
  /\ Ready({"FLASHSTART"})
  /\ flash_state' = "FLASHING" /\ flash_len' = len /\ flash_pos' = Packet
  /\ descriptor' = f
  /\ UNCHANGED <<boot, magic, storage, code, running, session, meta_backup, job, before, approved>>
\* Bad contents, a length beyond flash, or another magic.
BadUpload == Ready({"FLASHSTART", "FLASHING"}) /\ Ends("END")

Wipes == brand_new_firmware \/ old_was_unsigned \/ ~descriptor.keep \/ ~signatures_ok
\* The new descriptor and the old storage, or zeros, are written; the descriptor is there.
Install(hash_check_ok, c) ==
  /\ meta_backup' = [magic |-> hash_check_ok, descriptor |-> descriptor,
                     storage |-> IF Wipes THEN "zero" ELSE meta_backup.storage]
  /\ job' = Append(restore_metadata, "END")
  /\ approved' = IF hash_check_ok THEN [firmware |-> descriptor, code |-> c] ELSE approved

\* Words are written up to the announced length, and a device without a firmware goes on
\* at once.
FlashPacket ==
  LET more == flash_pos < flash_len
      pos == IF more THEN flash_pos + Packet ELSE flash_pos IN
  /\ Ready({"FLASHING"}) /\ flash_pos' = pos
  /\ code' = IF more THEN code + 1 ELSE code
  /\ flash_state' = IF pos = flash_len THEN "CHECK" ELSE "FLASHING"
  /\ IF pos = flash_len /\ brand_new_firmware
     THEN Install(TRUE, code')
     ELSE UNCHANGED <<meta_backup, job, approved>>
  /\ UNCHANGED <<boot, magic, descriptor, storage, running, flash_len, session, before>>

\* The user compares the fingerprint after ButtonAck.
ButtonAck(hash_check_ok) ==
  /\ Ready({"CHECK"}) /\ Install(hash_check_ok, code)
  /\ UNCHANGED <<flash, running, flash_state, upload, session, before>>

Next ==
  \/ FlashStep \/ JobDone
  \/ load_app \/ show_halt \/ bootloader_loop \/ PowerLoss \/ FirmwareStores
  \/ Initialize \/ WipeDevice \/ SelfTest \/ FirmwareErase
  \/ \E f \in Firmwares, len \in Lengths : FirmwareUpload(f, len)
  \/ BadUpload \/ FlashPacket
  \/ \E hash_check_ok \in BOOLEAN : ButtonAck(hash_check_ok)
Spec == Init /\ [][Next]_vars

-----------------------------------------------------------------------------
(* Properties.                                                             *)

TypeOK ==
  /\ boot \in {"old", "new", "unknown", "broken"} /\ magic \in BOOLEAN
  /\ descriptor \in Firmwares \cup {Half(f) : f \in Firmwares} \cup {NoFirmware}
  /\ storage \in Storages /\ code \in Nat
  /\ running \in {"off", "loader", "signed", "unsigned", "halt"}
  /\ flash_state \in {"READY", "OPEN", "FLASHSTART", "FLASHING", "CHECK", "END"}
  /\ flash_pos \in Nat /\ flash_len \in Nat
  /\ brand_new_firmware \in BOOLEAN /\ old_was_unsigned \in BOOLEAN

\* A firmware with the signatures never starts over the storage of one without, nor the
\* other way round, wherever power was lost.
SeedStaysWithItsFirmware ==
  firmware_present =>
    IF signatures_ok THEN storage \notin {"unsigned", "part of unsigned"}
                     ELSE storage \notin {"signed", "part of signed"}

\* A firmware that can start is whole, and its fingerprint was confirmed or the device
\* had none before.  (SelfTest may lose signatures, which makes it unofficial.)
BootableIsConfirmed ==
  firmware_present => Half(descriptor) = Half(approved.firmware) /\ code = approved.code

\* Between jobs the storage is as it was at the start, and so it is after the update of
\* a signed firmware by a signed one that keeps it.
StorageSurvives ==
  running = "loader" /\ job = <<>> =>
    /\ flash_state \in {"READY", "OPEN"} => storage = before
    /\ flash_state = "END" /\ firmware_present /\ signatures_ok /\ descriptor.keep
         /\ ~brand_new_firmware /\ ~old_was_unsigned => storage = before

=============================================================================
