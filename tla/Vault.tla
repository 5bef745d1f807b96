------------------------------- MODULE Vault -------------------------------
(***************************************************************************)
(* The life of the seed on a device with crypto memory (CRYPTOMEM = 1):    *)
(* the encrypted mnemonic in flash (storage.c), its key behind the PIN in  *)
(* the chip (CryptoMem), the session that caches both, and the handlers of *)
(* fsm.c, protect.c, reset.c and recovery.c that change them.              *)
(*                                                                         *)
(* One action is one message handled to its end.  The handlers wait in     *)
(* dialogs, but a waiting handler answers nothing else, so only power can  *)
(* come between the writes of one handler: first the chip, then the flash. *)
(* A flash commit erases its sector first; a boot that finds no record of  *)
(* this version there wipes the device.  A mnemonic is named by the key it *)
(* is encrypted with.  Label, language, homescreen, flags and passphrase   *)
(* are left out, and so is a record that is only partly written.           *)
(***************************************************************************)
EXTENDS CryptoMem

CONSTANTS
  Pins,          \* PIN strings the user may enter
  PinWord,       \* PinStringToHex of a non-empty PIN: its 24-bit word
  Interleaved,   \* may the host load a device while a reset or recovery is open?
  MaxLosses      \* bound: number of power losses in the middle of a write

NoPin == ""
Deferred == Pins \cup {"none"}             \* "none": deferred_set_pin is false
Garbage == -1                              \* the seed of a wrongly decoded mnemonic

ASSUME VaultAssumption ==
  /\ NoPin \in Pins /\ "none" \notin Pins
  /\ PinWord \in [Pins \ {NoPin} -> Passwords]
  /\ Interleaved \in BOOLEAN /\ MaxLosses \in Nat

VARIABLES
  cm,            \* crypto memory and its driver
  rom,           \* storageRom
  pinCached,     \* sessionPinCached
  seed,          \* sessionSeed: NoKey if not cached, Garbage, or the mnemonic's name
  reset,         \* reset.c: awaiting_entropy, deferred_set_pin and changed_pin, skip_backup
  recovery,      \* recovery.c: awaiting_word and dry_run, deferred_set_pin and changed_pin
  halted,        \* the firmware loops forever
  nkeys,         \* number of AES keys drawn so far
  losses,        \* power losses in the middle of a write so far
  \* History variables.
  unlocked,      \* has the user shown in this session that they know the PIN?
  wrong,         \* wrong PINs entered since the last right one
  spoiled,       \* what has come between chip and flash: "torn", "overwritten"
  used           \* keys of mnemonics that were committed to flash

vars == <<cm, rom, pinCached, seed, reset, recovery, halted, nkeys, losses,
          unlocked, wrong, spoiled, used>>

\* What storage_commit_locked(false) leaves: no record, not even a version.
Erased == [saved |-> FALSE, mnemonic |-> NoKey, node |-> FALSE, pin |-> FALSE,
           imported |-> FALSE, needsBackup |-> FALSE]
NoReset == [awaiting |-> FALSE, pin |-> "none", skip |-> FALSE]
NoRecovery == [mode |-> "none", pin |-> "none"]

storage_isInitialized == rom.node \/ rom.mnemonic # NoKey
PinStringToHex(p) == IF p = NoPin THEN DefaultPW ELSE PinWord[p]
MoreKeys == nkeys + 1 \in Keys

\* A new device: every zone has the default password.
Init ==
  /\ cm = cm_init([pac |-> [z \in Zones |-> MaxAttempts], pw |-> [z \in Zones |-> DefaultPW],
                   key |-> [z \in Zones |-> NoKey], state |-> "IDLE", zone |-> NoZone])
  /\ rom = Erased /\ pinCached = FALSE /\ seed = NoKey
  /\ reset = NoReset /\ recovery = NoRecovery /\ halted = FALSE
  /\ nkeys = 0 /\ losses = 0
  /\ unlocked = FALSE /\ wrong = 0 /\ spoiled = {} /\ used = {}

-----------------------------------------------------------------------------
(* Power, wiping and saving.                                               *)

\* storage_wipe, for the chip: cm_wipe_zone and session_clear.
WipedChip(c) == cm_deactivate_security(cm_wipe_zone(c))

Differs(c) == c.pw # cm.pw \/ Alive(c) # Alive(cm)
              \/ (rom.mnemonic # NoKey /\ c.key # cm.key)

\* main and storage_init with the chip at c, the flash at r and w wrong PINs
\* entered since the last right one.
Boot(c, r, w) ==
  /\ pinCached' = FALSE /\ seed' = NoKey /\ unlocked' = FALSE
  /\ reset' = NoReset /\ recovery' = NoRecovery /\ halted' = FALSE
  /\ \/ /\ r.saved
        /\ cm' = cm_init(c) /\ rom' = r /\ wrong' = w
        /\ spoiled' = IF Differs(c) THEN spoiled \cup {"torn"} ELSE spoiled
     \/ /\ ~r.saved
        /\ cm' = WipedChip(cm_init(c)) /\ rom' = Erased /\ wrong' = 0
        /\ spoiled' = {}
  /\ UNCHANGED <<nkeys, used>>

PowerCycle == Boot(cm, rom, wrong) /\ UNCHANGED losses

\* Power is lost in a handler that has brought the chip to c and the flash to
\* r: before the next commit, or in it, when the sector is erased.
CutShort(c, r, w) ==
  /\ losses < MaxLosses /\ losses' = losses + 1
  /\ Boot(c, r, w) \/ Boot(c, Erased, w)

\* storage_wipe.
storage_wipe(c) ==
  /\ cm' = WipedChip(c) /\ rom' = Erased
  /\ pinCached' = FALSE /\ seed' = NoKey /\ unlocked' = FALSE
  /\ wrong' = 0 /\ spoiled' = {}
  /\ UNCHANGED <<reset, recovery, nkeys, losses, used>>

\* session_clear(true) with the chip as c.
ClearAll(c) ==
  /\ cm' = cm_deactivate_security(c)
  /\ pinCached' = FALSE /\ seed' = NoKey /\ unlocked' = FALSE

-----------------------------------------------------------------------------
(* The PIN.                                                                *)

NoNewAuthentication(p) == cm_open_zone(cm, PinStringToHex(p))   \* a mistake
\* storage_containsPin, which succeeds iff the result IsOpen.
storage_containsPin(p) ==
  cm_open_zone(cm_deactivate_security(cm), PinStringToHex(p))

AsksForPin(useCached) == rom.pin /\ ~(useCached /\ pinCached)
AttemptsLeft == Attempts(cm_get_zone_index(cm)) > 0

\* protectPin returns true: the chip and the session it leaves.
PinPassed(useCached) ==
  CASE ~rom.pin ->
         LET c == storage_containsPin(NoPin)
         IN {[cm |-> c, cached |-> pinCached \/ IsOpen(c),
              unlocked |-> unlocked \/ IsOpen(c), wrong |-> wrong]}
    [] rom.pin /\ ~AsksForPin(useCached) ->
         {[cm |-> cm, cached |-> TRUE, unlocked |-> unlocked, wrong |-> wrong]}
    [] OTHER ->
         {[cm |-> storage_containsPin(p), cached |-> TRUE,
           unlocked |-> cm.zone \in Zones /\ PinStringToHex(p) = cm.pw[cm.zone],
           wrong |-> 0] :
             p \in {q \in Pins : AttemptsLeft /\ IsOpen(storage_containsPin(q))}}

\* protectCheckMaxTry without attempts left: wipe and loop forever.
WipeAndHalt(c) ==
  \/ storage_wipe(c) /\ halted' = TRUE
  \/ CutShort(cm_wipe_zone(c), rom, wrong)

\* protectPin returns false: cancelled, wrong, or one time too often wrong.
PinRefused(useCached) ==
  /\ AsksForPin(useCached)
  /\ \/ ~AttemptsLeft /\ WipeAndHalt(cm_get_zone_index(cm))
     \/ \E p \in Pins : LET c == storage_containsPin(p) IN
          /\ AttemptsLeft /\ ~IsOpen(c)
          /\ \/ Attempts(c) = 0 /\ WipeAndHalt(c)
             \/ /\ Attempts(c) > 0
                /\ cm' = c /\ wrong' = wrong + 1
                /\ UNCHANGED <<rom, pinCached, seed, reset, recovery, halted, nkeys,
                               losses, unlocked, spoiled, used>>

\* The session after a passed PIN check.
Passed(o) == pinCached' = o.cached /\ unlocked' = o.unlocked /\ wrong' = o.wrong

NonEmptyCounts(p) == p # NoPin                     \* a mistake
\* storage_setPin: `pin' says whether there is one.  It has no effect on the
\* flash if cm_set_PIN fails.
IsPin(p) == PinStringToHex(p) # DefaultPW
WithPin(r, c, p) == IF IsOpen(c) THEN [r EXCEPT !.pin = IsPin(p)] ELSE r
Saved(r) == [r EXCEPT !.saved = TRUE]              \* storage_update
SetDeferred(c, p) == IF p = "none" THEN c ELSE cm_set_PIN(c, PinStringToHex(p))
WithDeferred(r, c, p) == IF p = "none" THEN r ELSE WithPin(r, c, p)

-----------------------------------------------------------------------------
(* Using and guarding the seed.                                            *)

EveryMnemonicTrusted == TRUE                       \* a mistake
\* storage_getSeed checks the mnemonic unless it was imported.
SkipsMnemonicCheck == rom.imported

AlwaysByDefault == TRUE                            \* a mistake
\* storage_getSeed sends the default password only if there is no PIN.
OpensByDefault == ~rom.pin

\* GetPublicKey, GetAddress, SignTx, ...: CHECK_INITIALIZED, CHECK_PIN and
\* storage_getSeed, which halts on an invalid mnemonic.
UseSeed ==
  /\ storage_isInitialized
  /\ \E o \in PinPassed(TRUE) :
       LET c == IF OpensByDefault THEN cm_open_zone(o.cm, DefaultPW) ELSE o.cm
           decoded == IF ReadableKey(c) = rom.mnemonic THEN rom.mnemonic ELSE Garbage
       IN
       /\ Passed(o)
       /\ \/ /\ seed # NoKey \/ rom.node
             /\ cm' = o.cm /\ UNCHANGED <<seed, halted>>
          \/ /\ seed = NoKey /\ ~rom.node
             /\ decoded = rom.mnemonic \/ SkipsMnemonicCheck
             /\ cm' = c /\ seed' = decoded /\ UNCHANGED halted
          \/ /\ seed = NoKey /\ ~rom.node
             /\ decoded = Garbage /\ ~SkipsMnemonicCheck
             /\ cm' = c /\ halted' = TRUE /\ UNCHANGED seed
  /\ UNCHANGED <<rom, reset, recovery, nkeys, losses, spoiled, used>>

\* Ping with pin_protection, and every handler cancelled after its PIN check.
Ping ==
  \E useCached \in BOOLEAN : \E o \in PinPassed(useCached) :
    /\ Passed(o) /\ cm' = o.cm
    /\ UNCHANGED <<rom, seed, reset, recovery, halted, nkeys, losses, spoiled, used>>

\* ChangePin: to p; a removal is a change to NoPin, and so is an empty new PIN.
ChangePin(p) ==
  /\ rom.pin \/ storage_isInitialized
  /\ \E o \in PinPassed(FALSE) :
       LET c == cm_set_PIN(o.cm, PinStringToHex(p)) IN
       \/ /\ cm' = c /\ rom' = Saved(WithPin(rom, c, p))
          /\ pinCached' = FALSE /\ unlocked' = TRUE /\ wrong' = 0
          /\ UNCHANGED <<seed, reset, recovery, halted, nkeys, losses, spoiled, used>>
       \/ CutShort(c, rom, 0)

\* WipeDevice; with `force' the PIN is not asked for.
WipeDevice(force) ==
  \E o \in IF force THEN {[cm |-> cm, wrong |-> wrong]} ELSE PinPassed(TRUE) :
    \/ storage_wipe(o.cm) /\ UNCHANGED halted
    \/ CutShort(cm_wipe_zone(o.cm), rom, o.wrong)

\* ApplySettings; a change of the passphrase setting drops the cached seed.
ApplySettings ==
  \E o \in PinPassed(TRUE) :
    \/ /\ Passed(o) /\ cm' = o.cm /\ rom' = Saved(rom)
       /\ seed' \in {NoKey, seed}
       /\ UNCHANGED <<reset, recovery, halted, nkeys, losses, spoiled, used>>
    \/ CutShort(o.cm, rom, o.wrong)

\* ApplyFlags and SetU2FCounter, which do not ask for the PIN.
ApplyFlags ==
  \/ /\ rom' = Saved(rom)
     /\ UNCHANGED <<cm, pinCached, seed, reset, recovery, halted, nkeys, losses,
                    unlocked, wrong, spoiled, used>>
  \/ CutShort(cm, rom, wrong)

\* ClearSession and the screen lock.
ClearSession ==
  /\ ClearAll(cm)
  /\ UNCHANGED <<rom, reset, recovery, halted, nkeys, losses, wrong, spoiled, used>>

\* Initialize (which keeps the PIN) and Cancel (which keeps the seed too).
\* Neither ends a reset that waits for entropy.
Initialize ==
  /\ recovery' = [recovery EXCEPT !.mode = "none"]
  /\ seed' \in {NoKey, seed}
  /\ UNCHANGED <<cm, rom, pinCached, reset, halted, nkeys, losses, unlocked,
                 wrong, spoiled, used>>

-----------------------------------------------------------------------------
(* Bringing a seed onto the device.                                        *)

Fresh == ~rom.pin /\ ~storage_isInitialized       \* CHECK_NO_PIN, CHECK_NOT_INITIALIZED
Waiting == reset.awaiting \/ recovery.mode = "real"

\* A commit of the mnemonic encrypted with key k replaces a node.
WithMnemonic(r, c, k) ==
  IF IsOpen(c) THEN [r EXCEPT !.mnemonic = k, !.node = FALSE] ELSE r
Overwriting == storage_isInitialized \/ rom.pin
Spoil == IF Overwriting THEN spoiled \cup {"overwritten"} ELSE spoiled

\* storage_loadDevice, which commits the PIN first and then the rest.
LoadDevice(p, content) ==
  LET k == nkeys + 1
      c1 == cm_set_PIN(cm_deactivate_security(cm), PinStringToHex(p))
      r1 == Saved(WithPin([rom EXCEPT !.imported = TRUE], c1, p))
      c2 == cm_open_zone(c1, IF r1.pin THEN PinStringToHex(p) ELSE DefaultPW)
      c3 == IF content = "mnemonic" /\ IsOpen(c2) THEN cm_initialize_new_zone(c2, k) ELSE c2
      r3 == CASE content = "node" -> [r1 EXCEPT !.node = TRUE]
              [] content = "mnemonic" -> WithMnemonic(r1, c3, k)
              [] OTHER -> r1
  IN
  /\ Fresh /\ MoreKeys
  /\ Waiting => Interleaved
  /\ \/ /\ cm' = c3 /\ rom' = r3
        /\ used' = used \cup {r3.mnemonic} /\ nkeys' = k
        /\ pinCached' = FALSE /\ seed' = NoKey /\ unlocked' = FALSE /\ wrong' = 0
        /\ UNCHANGED <<reset, recovery, halted, losses, spoiled>>
     \/ CutShort(c1, rom, 0)
     \/ CutShort(c3, r1, 0)

\* reset_init: the PIN is only set when the entropy has come.  If the user
\* cancels at the entropy (q) or fails to enter the PIN twice ("none"), what an
\* earlier ResetDevice began still waits.
ResetDevice(p, skip) ==
  /\ Fresh
  /\ \/ /\ reset' = [awaiting |-> TRUE, pin |-> p, skip |-> skip]
        /\ rom' = Saved(rom) /\ seed' = NoKey
        /\ UNCHANGED <<cm, pinCached, recovery, halted, nkeys, losses,
                       unlocked, wrong, spoiled, used>>
     \/ \E q \in {reset.pin, "none"} :
          /\ p # "none" /\ reset' = [reset EXCEPT !.pin = q, !.skip = skip]
          /\ UNCHANGED <<cm, rom, pinCached, seed, recovery, halted, nkeys, losses,
                         unlocked, wrong, spoiled, used>>
     \/ CutShort(cm, rom, wrong)

\* The new mnemonic is committed with the deferred PIN; the chip is c.  To
\* compute the root node of U2F, a commit of a mnemonic drops the cached seed.
CommitMnemonic(c, r) ==
  /\ cm' = c /\ rom' = Saved(r)
  /\ seed' = IF r.mnemonic = nkeys + 1 THEN NoKey ELSE seed
  /\ used' = used \cup {r.mnemonic} /\ nkeys' = nkeys + 1
  /\ spoiled' = Spoil /\ wrong' = 0
  /\ UNCHANGED <<halted, losses>>

\* reset_entropy and reset_backup(false).  There is no check that the device
\* is still uninitialised.
EntropyAck ==
  LET k == nkeys + 1
      c1 == cm_initialize_new_zone(cm, k)
      c2 == SetDeferred(c1, reset.pin)
      done == [reset EXCEPT !.awaiting = FALSE]
      r2 == [WithDeferred(WithMnemonic(rom, c1, k), c2, reset.pin)
               EXCEPT !.needsBackup = reset.skip]
  IN
  /\ reset.awaiting /\ MoreKeys
  /\ \/ /\ ~IsOpen(c1)                 \* "Seed cannot be stored on device"
        /\ cm' = c1 /\ reset' = done /\ spoiled' = Spoil
        /\ UNCHANGED <<rom, pinCached, seed, recovery, halted, nkeys, losses, unlocked,
                       wrong, used>>
     \/ /\ IsOpen(c1) /\ ~reset.skip   \* the user does not confirm every word
        /\ ClearAll(c1)
        /\ reset' = done /\ spoiled' = Spoil /\ nkeys' = k
        /\ UNCHANGED <<rom, recovery, halted, losses, wrong, used>>
     \/ /\ IsOpen(c1)
        /\ CommitMnemonic(c2, r2)
        /\ reset' = [done EXCEPT !.pin = "none"]
        /\ pinCached' = (pinCached /\ reset.pin = "none")
        /\ UNCHANGED <<recovery, unlocked>>
     \/ IsOpen(c1) /\ \E c \in {c1, c2} : CutShort(c, rom, wrong)

\* BackupDevice: the flag is saved before the words are shown.
BackupDevice ==
  /\ storage_isInitialized
  /\ \E o \in PinPassed(FALSE) :
       \/ /\ Passed(o) /\ cm' = o.cm
          /\ rom' = [rom EXCEPT !.needsBackup = FALSE]
          /\ UNCHANGED <<seed, reset, recovery, halted, nkeys, losses, spoiled, used>>
       \/ rom.needsBackup /\ CutShort(o.cm, rom, o.wrong)

\* recovery_init; if the user fails to enter the new PIN twice, words that
\* were awaited before are still awaited.
RecoveryDevice(p) ==
  /\ Fresh
  /\ \/ /\ recovery' = [mode |-> "real", pin |-> p]
        /\ rom' = Saved(rom) /\ seed' = NoKey
        /\ UNCHANGED <<cm, pinCached, reset, halted, nkeys, losses,
                       unlocked, wrong, spoiled, used>>
     \/ /\ p # "none" /\ recovery.mode # "none"
        /\ recovery' = [mode |-> "real", pin |-> "none"]
        /\ UNCHANGED <<cm, rom, pinCached, seed, reset, halted, nkeys, losses,
                       unlocked, wrong, spoiled, used>>
     \/ CutShort(cm, rom, wrong)

RecoveryDryRun ==
  \E o \in PinPassed(TRUE) :
    /\ Passed(o) /\ cm' = o.cm
    /\ recovery' = [mode |-> "dry", pin |-> "none"]
    /\ UNCHANGED <<rom, seed, reset, halted, nkeys, losses, spoiled, used>>

\* recovery_done with a valid mnemonic; when it could not be stored, the rest
\* is saved all the same.
RecoveryDone(enforce) ==
  LET k == nkeys + 1
      c1 == cm_initialize_new_zone(cm, k)
      c2 == SetDeferred(c1, recovery.pin)
      r1 == WithMnemonic(rom, c1, k)
      r2 == WithDeferred([r1 EXCEPT !.imported = @ \/ ~enforce], c2, recovery.pin)
  IN
  /\ recovery.mode = "real" /\ MoreKeys
  /\ \/ /\ CommitMnemonic(c2, r2)
        /\ recovery' = NoRecovery
        /\ pinCached' = (pinCached /\ recovery.pin = "none")
        /\ UNCHANGED <<reset, unlocked>>
     \/ \E c \in {c1, c2} : CutShort(c, rom, wrong)

\* recovery_done with an invalid mnemonic.
RecoveryInvalid ==
  /\ recovery.mode = "real"
  /\ ClearAll(cm)
  /\ recovery' = [recovery EXCEPT !.mode = "none"]
  /\ UNCHANGED <<rom, reset, halted, nkeys, losses, wrong, spoiled, used>>

\* recovery_done of a dry run: storage_containsMnemonic reads the key.
RecoveryDryDone ==
  /\ recovery.mode = "dry"
  /\ recovery' = NoRecovery
  /\ UNCHANGED <<cm, rom, pinCached, seed, reset, halted, nkeys, losses, unlocked,
                 wrong, spoiled, used>>

Handle ==
  \/ \E useCached \in BOOLEAN : PinRefused(useCached)
  \/ Ping \/ UseSeed \/ ApplySettings \/ ApplyFlags \/ ClearSession \/ Initialize \/ BackupDevice
  \/ \E p \in Pins : ChangePin(p)
  \/ \E force \in BOOLEAN : WipeDevice(force)
  \/ \E p \in Pins, content \in {"mnemonic", "node", "nothing"} : LoadDevice(p, content)
  \/ \E p \in Deferred, skip \in BOOLEAN : ResetDevice(p, skip)
  \/ EntropyAck
  \/ \E p \in Deferred : RecoveryDevice(p)
  \/ RecoveryDryRun \/ RecoveryDryDone \/ RecoveryInvalid
  \/ \E enforce \in BOOLEAN : RecoveryDone(enforce)

Next == PowerCycle \/ (~halted /\ Handle)
Spec == Init /\ [][Next]_vars

-----------------------------------------------------------------------------
(* Properties.                                                             *)

\* Chip, flash and session hold values of their types: no attempt counter
\* leaves its range and no zone is selected that does not exist.
TypeOK ==
  /\ cm \in CryptoMems
  /\ rom \in [saved : BOOLEAN, mnemonic : Keys, node : BOOLEAN, pin : BOOLEAN, imported : BOOLEAN,
              needsBackup : BOOLEAN]
  /\ pinCached \in BOOLEAN /\ seed \in Keys \cup {Garbage}
  /\ reset \in [awaiting : BOOLEAN, pin : Deferred, skip : BOOLEAN]
  /\ recovery \in [mode : {"none", "dry", "real"}, pin : Deferred]
  /\ halted \in BOOLEAN
  /\ nkeys \in Keys /\ losses \in 0 .. MaxLosses
  /\ unlocked \in BOOLEAN /\ wrong \in Nat
  /\ spoiled \subseteq {"torn", "overwritten"} /\ used \subseteq Keys

\* As long as power was not lost between a chip write and its commit and no
\* late message replaced the seed: the zone in use is alive and holds the key of
\* the stored mnemonic, and it has a password iff the flash says there is a PIN.
\* Reset, recovery, PIN changes, wipes and wrong PINs all keep that.
SeedSurvives ==
  spoiled = {} =>
    /\ rom.mnemonic # NoKey =>
         cm.zone \in Alive(cm) /\ cm.key[cm.zone] = rom.mnemonic
    /\ storage_isInitialized /\ cm.zone \in Alive(cm) =>
         (rom.pin <=> cm.pw[cm.zone] # DefaultPW)

\* Every wrong PIN costs exactly one attempt and nothing else costs any, over
\* power cycles and through every handler that talks to the chip.
AttemptsAreCounted ==
  spoiled = {} /\ rom.pin /\ cm.zone # NoZone =>
    wrong + cm.pac[cm.zone] = MaxAttempts

\* On a device with a PIN nothing is cached unless the user has shown since
\* the last lock that they know it; the PIN asked for last was the right one.
PinGuards == rom.pin /\ (pinCached \/ seed # NoKey) => unlocked

\* The key of a mnemonic that is no longer stored cannot be read from the
\* chip any more, even when power was lost while the device was wiped.
NoKeyOutlivesItsSeed ==
  \A z \in Zones : cm.key[z] \in used \ {NoKey, rom.mnemonic} => cm.pac[z] = 0

\* Keys are derived from the stored mnemonic, and never from what a closed or
\* foreign zone makes of it, unless the mnemonic was imported.
CachedSeedIsStored ==
  seed # NoKey /\ ~rom.imported => seed = rom.mnemonic

\* A zone is lost only to the last of MaxAttempts wrong PINs, to a wipe of a
\* device with a PIN whose zone is not open, to power lost in a commit (the
\* wipe at boot cannot open the zone), or on a spoiled device.
ZonesDieForAReason ==
  [][Alive(cm') # Alive(cm) =>
       \/ spoiled \cup spoiled' # {}
       \/ wrong = MaxAttempts - 1
       \/ rom' = Erased /\ (losses' > losses \/ (rom.pin /\ ~IsOpen(cm)))]_vars

\* "Device is already initialized. Use Wipe first.": a stored mnemonic is only
\* ever replaced by nothing.
InitializedKeepsItsSeed ==
  [][rom.mnemonic # NoKey => rom'.mnemonic \in {rom.mnemonic, NoKey}]_vars
=============================================================================
