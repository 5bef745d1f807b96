# A TLA+ model of the Safe-T mini firmware

This directory is a verification development kept beside the firmware and the
boot loader of the Safe-T mini, a hardware wallet with a crypto memory chip
(`CRYPTOMEM=1`, the device build; `Makefile.include`). TLA+ modules model the
parts whose correctness depends on long sequences of messages, on what comes
between two polls, on power loss and on wrap-around. TLC checks them on small
instances; TLAPS proves the most important results for every instance.

## 1. The system

The firmware is one loop (`firmware/trezor.c`): poll USB, look at the lock screen.
A message of the host is put together from 64-byte packets (`messages.c`),
decoded and handed to its handler (`fsm.c`), which runs to its end. A handler that
needs the user waits inside (`protect.c`), polling in *tiny mode*, where only a
few short messages are taken (Cancel, Initialize, the acknowledgement it waits
for). A second USB interface carries U2F; a U2F session (`u2f.c`) also waits
inside the poll that brought its first frame. So two handlers seldom overlap, but
workflows of several messages do: each keeps its progress in static variables, and
nothing stops the host from sending another message in between.

| component | state it keeps | operations | correct if |
|---|---|---|---|
| transaction signing (`signing.c`, `transaction.c`) | stage, indices, digests of phase 1, amounts, change path | SignTx, TxAck in eleven stages, Cancel, Initialize | only what the user confirmed is signed; the fee shown is real; a session ends |
| message handlers (`fsm.c`) | the static derived node, the abort flag | all messages | one answer per request, consent and PIN before it, made with the right key |
| NEM (`nem2.c`) | - | validate, ask, write, canonicalize | what is signed was shown |
| seed storage (`storage.c`) | flash record, update record, cached seed, PIN | load, commit, wipe, getSeed, setPin, U2F counter and its area | the seed is kept and needs the PIN; cuts lose it at worst; the counter grows |
| crypto memory (`cryptomem.c`, `at88sc0104.c`) | chip: password, attempts, key of 4 zones; driver: state, zone | open, set PIN, new key, wipe | wrong PINs are counted; no zone is lost without reason |
| dialogs (`protect.c`, `pinmatrix.c`) | cached PIN, tiny message | protectButton, protectPin, protectChangePin, protectPassphrase | a dialog takes no other message's packets |
| reset (`reset.c`) | awaiting_entropy, deferred PIN | ResetDevice, EntropyAck, BackupDevice | the seed is stored once, on an empty device |
| recovery (`recovery.c`, `recovery-table.h`) | awaiting_word, word order, matrix position | RecoveryDevice, WordAck | the seed stored is the one entered; every word can be entered |
| USB messages (`messages.c`, `usb.c`) | reassembly, tiny mode | rx, tx, polls and sleeps | a message is handled whole or not at all |
| U2F (`u2f.c`) | channel, reader, request state, press, out ring | INIT, PING, MSG, WINK, time-outs | a press over the dialog of one request never counts for another, and counts once; sessions end |
| Ethereum signing (`ethereum.c`) | data left, hash, key | SignTx, TxAck, abort | what is signed was confirmed and is as long as announced |
| boot loader (`bootloader/`, `bl_check.c`) | upload state, flash header, backup in RAM | start, erase, upload, check, restore, wipe, self test | only a confirmed image starts, and never over another kind's seed |
| start-up and lock (`trezor.c`, `setup.c`) | time of the last action | boot, lock | the lock ends the session |

The components meet in calls (`fsm.c` calls everything), in the static node of
`fsm_getDerivedNode`, in `storageUpdate` (filled by several setters and written by
whichever `storage_update` comes next), in the session caches, in the state of
the crypto memory driver, in tiny mode and in the one flash sector that holds the
firmware's header and the storage record.

What is hard: messages of different workflows interleaved by the host; packets of
two interfaces between any two polls; power lost between the write to the chip and
the commit to flash, inside the commit, or inside an upload; a second pass over
streamed data that need not be the data of the first; 24-, 32- and 64-bit
arithmetic; attempts and zones that never come back. `PROJECT.json` lists forty
hazards, each at its line.

## 2. Modules

| module | models | role |
|---|---|---|
| `Signing` | `signing.c`, what it uses of `transaction.c`, `fsm.c` | one action per stage handler |
| `SigningPromise` | - | what signing promises, without the streaming |
| `SigningProofs` | - | theorems about `Signing` |
| `SigningAccounts` | - | theorems about the sums and inputs of `Signing` |
| `CryptoMem` | `cryptomem.c`, the chip | functions on the record of chip and driver |
| `Vault` | `storage.c`, `protect.c`, `reset.c`, the end of `recovery.c`, handlers of `fsm.c` | composes CryptoMem; one action per message |
| `VaultProofs` | - | theorems about `Vault` and `CryptoMem` |
| `Storage` | both flash sectors of `storage.c` | one action per operation, one per flash write |
| `StorageProofs` | - | theorems about `Storage` |
| `UsbPoll` | `usbPoll`, `usbSleep`, the U2F ring | shared by the next three |
| `Messages` | `messages.c`, the dialogs of `fsm_msgPing` | reassembly and tiny messages |
| `U2f` | `u2f.c` | frames, sessions, presses |
| `Usb` | `usb.c`, `protect.c`, the main loop and lock of `trezor.c` | composes Messages and U2f poll by poll |
| `UsbProofs` | - | theorems about `Usb` |
| `RecoveryTable` | `recovery-table.h` | the two tables, and when tables are right |
| `Recovery` | `recovery.c` | scrambled words and the matrix |
| `Ethereum` | `ethereum.c` | one action per message, RLP lengths |
| `Workflows` | handlers of `fsm.c` around the two | composes Recovery and Ethereum |
| `WorkflowsProofs` | - | theorems about Ethereum sessions and recoveries in `Workflows` |
| `Nem` | `nem2.c` | functions: validation, dialogs, what is written, mosaics |
| `Handlers` | `fsm.c` | every handler that answers by itself, as a list of steps |
| `HandlersProofs` | - | theorems about `Handlers` and `Nem` |
| `Bootloader` | `bootloader/`, `bl_check.c` | flash step by step, power loss before each |
| `BootloaderProofs` | - | theorems about `Bootloader` |
| `MC...` | - | the instances of the runs |

### Signing

An action is one TxAck (or SignTx, Cancel, ...) handled to its end, the dialogs
inside included; its guard is the stage of `signing_txack` and its outcome the
branch the code takes. The state is the static variables of `signing.c` under
their own names; after `signing_abort` they are dead until `signing_init`, so
`Fail` leaves them alone. Hashes are modelled by what was hashed: `hashers[0]`,
the digests of phase 1 and the BIP 143 digests are sequences, and comparing two
digests is comparing these. Amounts are integers modulo `AmountMod` (2^64),
counts modulo `CountMod` (2^32), so every overflow check matters. The host may
answer a request with any input or output in `InputMsgs`, `OutputMsgs`, claim any
sizes in `MetaMsgs` for a previous transaction, and tell the truth or not
(`same`). `PrevTx` is what the previous transactions really are. History
variables (`approved`, `shown`, `ledger`, `sigs`) record what the user confirmed,
what was shown, what was counted and what was signed; no guard reads them.

### CryptoMem and Vault

`CryptoMem` has no variables: the chip (attempts, password and key per zone) and
the driver (`cm_state`, `zone_index`) are one record, and each driver function
maps it to the record it leaves. That keeps a call chain such as
`storage_wipe -> cm_wipe_zone -> cm_send_default_PW -> cm_VerifyPassword` one
expression inside a handler.

`Vault` composes it with the flash record (`rom`), the session (`pinCached`,
`seed`), the waiting workflows (`reset`, `recovery`) and the handlers. Each action
is one handler; the writes of a handler go first to the chip and then to the
flash, and `CutShort` lets the power fail between them or in the commit, when the
sector is erased and the next boot wipes. A boot that finds no version in flash
wipes as well (`storage_from_flash` without the legacy branch, which no build file
enables). A mnemonic is named by the key it was encrypted with, so "the key in the
zone decrypts the stored mnemonic" is an equality. PINs are strings with their
24-bit words (`PinWord`), because `PinStringToHex` is not injective. History:
`unlocked`, `wrong` (wrong PINs since the last right one), `spoiled` (a cut between
the writes to chip and flash, or a late EntropyAck or WordAck over an initialised
device), `used` (keys of mnemonics that were committed).

A commit is coarser here than in `Storage`: a cut in it loses the record. In the
device it also loses the header of the firmware, which shares the sector, when it
comes right after the erasure; then the boot loader does not start the firmware,
and the wipe comes with the next upload.

Assumed of the chip (it is not in this repository's code): a live zone answers;
the right password restores its attempts, a wrong one costs one; a zone without
attempts answers nothing more.

### Storage

`Vault` asks what the handlers do to the seed; `Storage` asks what the flash holds
between any two writes of `storage.c`. `first` is the sector of the record
(header, magic, version, mnemonic, base of the counter), `area` the bits cleared
in each word of the U2F area, which lives in the other sector. An operation
(`StoreSeed`, `StoreSettings`, `SetU2FCounter`, `WipeDevice`,
`storage_nextU2FCounter` with the recycling of a full area) puts its writes into
`todo`; `Step` does the next one and `PowerLoss` may come before each.
`storage_init` accepts the record or wipes. `Upload` is the only way on after a
cut that lost the header. The words behind the area are there as one word, which
no write may reach. An erasure or the programming of a word is not cut in the
middle. History: `kept` (mnemonics the record may hold), `overErased` (the area was
erased after the record was begun), `last` and `broken`.

The record is torn when a cut comes after its version and before its end: magic
and version are written first, so the next boot accepts the rest as ones.
`SeedKept` says that this is the worst a cut does to the seed.

### UsbPoll, Messages, U2f, Usb

There is one thread, and concurrency is what a poll brings. `pc` is the place in
the code that polls: the main loop, one of the loops of `protect.c`, a U2F session
that waits for data or for the button, the lock dialog. In one poll at most one
packet is handed over, of either interface: outside tiny mode to `msg_read` or
`u2fhid_read_start`, in tiny mode to `msg_read_tiny` or `u2fhid_read`
(`hid_rx_callback`); then at most one packet leaves the ring. `usbSleep` receives
without sending. `sending` is the packets a host has still to send of a message
it began.

`U2f` keeps the static variables of `u2f.c`: `cid`, `reader`, `last_req_state`,
the last requests, `dialog_timeout` as a flag. A request is named by its key
handle or application; `u2f_register` and `u2f_authenticate` are functions to what
they leave. A full ring swallows packets as `queue_u2f_pkt` does. The time-out of a
message that does not move on lays out the home screen, but leaves `last_req_state`: the
same request is then taken up again without its dialog, and a press over the home
screen counts for it. `PressIsForTheRequest` says what is left: never a press over the
dialog of another request. History:
`shown`, `pressed`, `taken` (`next_cid` moved the session to another channel),
`backlog`, `dropped`, and `from` in the reader.

Protections of `fsm_msgPing` stand for every handler with dialogs: button, PIN
(with the wait after a wrong one) and passphrase.

### RecoveryTable, Recovery, Ethereum, Workflows

`RecoveryTable` holds the tables of `recovery-table.h` in full; `Tables(t1, t2, ...)`
is the condition the comment of the source states, and it is an assumption of
`Recovery`. Of a word matters only where it comes from: `words[i]` is "entered" if
the user entered it in this recovery as word i. The matrix is modelled by index:
`RangeAt` is the range of words behind a choice in each of the four levels, with
the division and the correction of `next_matrix`; `recovery_digit` is two actions
because it sleeps after marking a choice, and in this `usbSleep(250)` any handler may run
(recovery.c:414). `sleeping` is the stack of the digits that sleep, each with all that is in
its locals: the choice. A digit that wakes up goes on with whatever the statics are then. If
a RecoveryDevice or WordAck was handled in its sleep, the control is still the code's, but
the data is not followed (`Enter`, `disturbed` = "nested"). A RecoveryDevice that is
given up in its PIN dialog (`PinMismatch`) changes `word_count` and `dry_run` under an older
recovery (`disturbed` = "given up").

`Ethereum` keeps lengths: a field is its size and whether its first byte is small,
and `keccak_ctx` is which transaction, which length was announced, how many bytes
followed. `ethereum_signing_init` has one outcome per refusal and cancelled
dialog. `confirmed` is what the dialogs of the session showed. Statics that are written
before they are read again are reset when a session ends (`Forgotten`).

`Workflows` composes both under the handlers of `fsm.c` that begin, continue, abort
or leave them alone. Initialize and Cancel end the recovery (`recovery_abort`), Cancel the
Ethereum session too; WipeDevice removes the seed and leaves the statics of both as they
are, so that a recovery in progress goes on on the wiped device. A digit that sleeps goes
on after a Cancel as well: that of the last word still stores the seed.

### Nem, Handlers

A handler of `fsm.c` is a straight line of checks, dialogs and effects, each of
which may end it. In `Handlers` it is the list of its steps, one operator per
handler under its name, and there is one action per kind of step. `frames` is a
stack, because a stored node with a passphrase shows "Waking up" and polls outside
tiny mode (storage.c:706-712): a packet there makes `msg_read_common` handle the
same message again inside the first, and answer it again (`handled` counts the handlers of a
request, `disturbed` is one that had another inside). A handler may fail where the key
cannot be had: a stored node of another curve (storage.c:696) or none at all (storage.c:700),
a path that cannot be derived (fsm.c:217). It may also return without any answer:
fsm.c:935 and fsm.c:1375, where an address cannot be had, and fsm.c:1544 (`Silent`). `Nem` gives the dialogs and the parts written
of each NEM transaction as sets of parts, and `nem_canonicalizeMosaics` as it is
written, merge and exchanges. The parts written include the timestamp and the deadline, which no dialog
shows, and the payload of an encrypted transfer even if it is empty; the network is the
heading of every dialog and is left out.

### Bootloader

Flash holds the descriptor of a firmware, the storage behind it and the code. A
long flash operation is a *job*: `FlashStep` does its next step, `JobDone` goes where it
leads, and `PowerLoss` may come before any. `backup_metadata` is in RAM. `Half` is a
descriptor whose second half is not yet written. `signatures_ok` wants three
different keys, each with a valid signature, over code that is there. A firmware
starts its life with `check_bootloader`, which replaces the boot loader in place.

## 3. Runs

| run | question | states |
|---|---|---|
| `Signing_main` | one session, every kind of input and output, answers that lie: amounts shown are real, segwit budget, inputs accounted, the session ends | 77 379 |
| `Signing_restart` | up to three inputs, a second SignTx at any point, key requests in between: approval, each legacy input signed once; `Signing` implements `SigningPromise` | 720 217 |
| `Vault_main` | all handlers in any order, one power loss at any write: chip, flash and session agree; attempts; cached seed; zones | 487 763 |
| `storage_main` | every operation, three power losses at any write: seed, area, marker, counter | 796 928 |
| `Usb_main` | wallet, token and user with every packet between any two polls: whole messages, presses, senders, no lost packet, sessions end | 1 015 872 |
| `Workflows_main` | recoveries of all kinds, given up ones too, and Ethereum sessions between each other and in the sleep of a digit: seeds entered, matrix complete, lengths, consent, sessions end | 500 015 |
| `Handlers_main` | every handler with every outcome of its dialogs: one answer, consent, NEM, the key | 462 785 |
| `Bootloader_main` | uploads, wipes and self tests of several firmwares, power lost anywhere | 171 055 |
| `Signing_root` | *violation*: a change output derived from a foreign node | |
| `Vault_overwrite` | *violation*: a late EntropyAck replaces the seed of an initialised device | |
| `storage_counter` | *violation*: after a restart the offset is not the number of cleared bits | |
| `Recovery_abandoned` | *violation*: a recovery given up in its PIN dialog leaves another one with the wrong number of words | |

Each property of a passing run has a mutant in `PROJECT.json`: an operator marked
"a mistake" in its module, which in place of the operator after it makes TLC find
the property violated. Except in `Signing_main`, the `TypeOK` of a module is not
checked in the listed runs, to leave room for what can go wrong; it holds in their instances.

### Bounds

Signing: `AmountMod = 8` and `CountMod = 5` make sums wrap with two inputs; two
inputs and two outputs give a first, a last and a changed one; the third input of
`Signing_restart` is needed for the chain of legacy inputs to have a middle. Two
previous transactions: one with two outputs, one without inputs and with extra
data. Two accounts make a change path match or not. `MaxSignTx = 2` is one
replaced session.

Vault: two zones (the one in use and the one after it is killed), three attempts
(first, last and one between), the keys of two mnemonics, an ordinary PIN and the
one whose word is the default password, the empty PIN and the ordinary one as
wrong PINs for each other, one power loss. `Interleaved` admits LoadDevice while a
reset or recovery waits.

Storage: an area of two words of two bits fills, and is recycled, after four
counters. Seven counters, and counters the host sets to 0 or 9, give a recycling
without a base and one over a base, and a base below zero, which wraps modulo
`CounterMod = 32`. Three power losses: one in a commit, one in the wipe of the next
boot, one in a recycling.

Usb: two channels (the session's and another), a registration and two
authentications (a retry, and a change of request), messages of up to three frames
and of one too many, a ring of four slots that an echo of three fills, wallet messages of up to
two packets, a ping with all protections or none. Frames may have any sequence
number and packets any header.

Workflows: recoveries of one and two words (three in `Recovery_abandoned`), a list
of 29 words over matrices of three choices and a last one of two, so that each
level has a full and a short matrix. Two digits may sleep inside each other (`MaxSleeps`; one in
`Recovery_abandoned`), and behind the last of `words[]` the model stops (`InWords`). The tables of the source themselves are in
`RecoveryTable`; TLC evaluates `RealTables`, that they meet the condition the small
ones meet. Sizes of Ethereum fields
sit at the borders of RLP (1, 55, 255 bytes), in thirteen transactions of every kind, six of them
refused; chunks of 0, 20 and 50 bytes are empty, short, exact and too long; chain ids are none, one byte on both sides of 127, and above 255.

Handlers: `MaxNesting = 2` is one handler inside another; each request has the
values its handler branches on; mosaics with repeated names, known and unknown,
with and without levy, and a sum that wraps modulo 4.

Bootloader: firmwares with three valid signatures, one key used twice, an empty
index, the keep flag or not, limits kept or not; lengths that end inside a word,
before the end of the code and after it.

One packet is handed over while the device is "waking up"; the model of the wait
does not go on to a second.

`CHECK_DEADLOCK FALSE` stands in `Bootloader_main` only: power lost while the
firmware replaces the boot loader leaves a device that does not start.

### Fairness

- `SessionEnds` (Signing): weak fairness of `TxAck`, a host that answers each
  request and a firmware that handles each answer; the main loop polls for ever and
  every handler ends in an answer.
- `SessionsEnd` (Usb): weak fairness of the rounds of a U2F session, which are
  loops of the firmware that count down (`U2F_TIMEOUT`, `dialog_timeout`). Nothing is
  assumed of the hosts, so the property excepts frames that for ever begin, move on or
  break off a message of the session, each of which starts the count again. Frames that
  are refused with BUSY, packets of the wallet and the draining of the ring are not
  excepted: a session ends under any number of them.
- `SigningEnds` (Workflows): weak fairness of `fsm_msgEthereumTxAck`, a host that answers each
  request for data; other handlers that run in between leave the session waiting for it. A
  host that begins new sessions for ever is excepted. Nothing is assumed of the recovery.

The other components may wait for ever, and do; they have no liveness property.

## 4. Findings and known divergences

Findings have a run that shows the shortest way there; `PROJECT.json` has the
quotes.

1. `Signing_root`: `signing_init` keeps a pointer to the node every other key
   request overwrites.
2. `Vault_overwrite`: `reset_entropy` and `recovery_done` do not look whether the
   device has been initialised in the meantime.
3. `storage_counter`: the offset of the U2F counter is read from flash only in a
   branch no build enables, so after a restart counters are given again.
4. `Recovery_abandoned`: `recovery_init` overwrites the number of words and the
   dry-run flag before its PIN dialog and may leave there.

The models also follow the code where it differs from what a reader would expect.
These have no run of their own; the properties state them as exceptions.

- signing.c:574: a change output of amount 0 does not count as the first one
  (`ConfirmedAmountsAddUp` bounds what it hides).
- storage.c:832: a dry run decodes the seed with a zone that may be closed by then.
- storage.c:909: a PIN whose 24-bit word is 0xFFFFFF is stored and not asked for.
- storage.c:996: recycling the U2F area over a base loses the base (`broken`).
- storage.c:706: a packet during "Waking up" has the request handled and answered twice, and
  makes the outer handler decrypt and derive the node once more (`disturbed` in `OneAnswer`
  and `KeyIsTheStored`).
- recovery.c:456: a recovery given up in its PIN dialog makes an older one store words
  under another number, or makes a dry run store (`disturbed` in `Seed`; finding 4 is what its
  user sees). recovery.c:414: a RecoveryDevice or WordAck in the sleep of a digit
  makes that digit write a word that nobody pressed (`disturbed`), and a Cancel there does not
  keep the last word from storing the seed.
- ethereum.c:538: a chain id above 255 is counted as one byte (`SignedLengthIsTrue`).
  ethereum.c:40: with the chain id `MAX_CHAIN_ID` v does not always fit into 32 bits.
- ethereum.c:644 with fsm.c:982: a malformed Ethereum signature is answered twice;
  fsm.c:1544: a NEM transaction other than a transfer that does not fit is not
  answered, nor is an Ethereum or NEM address that cannot be had (fsm.c:935, fsm.c:1375;
  `OneAnswer`).
- layout2.c:744: the levy dialog is laid over; nem2.c:335: a namespace without parent is not
  shown; timestamps and deadlines (nem2.c:287, 290, and 713, 716 of a multisig transaction), the sinks
  of fees and the remote account of an importance transfer are never shown, nor what is
  written for the empty payload of an encrypted transfer (nem2.c:229, 256) (`Unshown`).
- u2f.c:204: the data time-out clears the display and leaves the request waiting.
- u2f.c:98: an INIT on the broadcast channel moves the session in progress to the
  new channel (`taken`). u2f.c:644, "Didnt expect to get here", can be reached.
- recovery.c:300 lets a press on an empty cell of a matrix through ("astray").
- bootloader/usb.c: an announced length that is no multiple of a word, or shorter than the
  descriptor, never reaches the check; the restore writes the magic first, so a cut
  after it leaves a firmware that starts over part of its storage.
- WipeDevice and Initialize leave an Ethereum session, with its key, alive.

## 5. Proofs

Every theorem holds for all values of the constants that the assumption of the
module admits: any hosts, messages, sizes, counts and numbers of power losses.

**Signing** (`SigningProofs`, from `SigningAssumption`).
`TypeCorrect`: `TypeOK` is inductive as it stands; the interesting conjunct is
`authorized_amount` in its 64 bits, charged only when `MayHashBip143` holds.
`NothingUnapprovedIsSigned`: a signature is released in stages where the approval
is history, so `ApprovalInv` adds what the stages know: nothing is approved or
signed in phase 1; in phase 2 the digest kept from phase 1 is that of the outputs
shown; in the stages that sign with a running digest of the second pass, that
digest has been compared. Its step is split by kind of action: each leaves the
history alone, closes the session, approves, or signs. `SigningKeepsPromise` maps
every step of the same split to Begin, Approve, Release or a stutter of
`SigningPromise`.

**Sums and inputs of Signing** (`SigningAccounts`, on top of the former). The numbers
of inputs and outputs are constants of any size, so what the running sums hold is
proved by induction over the natural numbers: the library's induction theorem takes a
predicate, but `NatSetInduction` says the same of a set and follows from the
well-foundedness of `<`; `SumExtends` is the one fact about sums the rest needs.
`MoneyInv` ties `to_spend`, `spending`, `change_spend` and `authorized_amount` to the sums
of what was streamed; with `NoWrap` (amounts are checked against the 64 bits before they
are added) `ConfirmedIsExact` and `BudgetIsKept` follow. `AccountInv` says of every stage how
much of the first pass is in the ledger (`Whole`, `Awaiting`, `Pending`), that the digest
kept for phase 2 is that of the whole ledger (`Complete`), and that an amount under way is
real if the hash that is compared at the end will be right; `SignedInputsAreCounted` and `StreamedAmountsAreVerified`
follow. `EveryLegacyInputIsSignedOnce` needs more than a digest: `ChainInv` says that
`next_nonsegwit_input` and the positions it runs through in phase 2 are exactly the
streamed inputs in ascending order (`FirstFrom`, `Chain`), and `Progress` that those below
the current one have a signature each.

**Storage** (`StorageProofs`, from `StorageAssumption`). `RecordInv` says what any rest of
a list of writes may do to the record that is in flash now: an erasure of the area
comes only behind a record that is closed, and a record is opened only after the
sector was erased in the same list (`Ordered`), and every mnemonic in the list is
one the history admits (`Mnemonics`). Both are closed under taking the tail, which
is `Step`, and under dropping the list, which is `PowerLoss`; one lemma per
operation shows that its list has them. `SeedIsKept` and `AreaIsYounger` follow.
`AreaInv` is about the area: the only write of a list that clears bits is its first, it clears
those up to p, and all bits before p are cleared already (`ClearsNext`); with no such write
left those before `storage_u2f_offset` are (`Covered`), and the offset is zero before the area is
erased or power comes back. That a bit has one place, word * 32 + bit, needs
`WholeWords` and `PlacesDiffer`, for words of any width. `AreaIsInOrder` follows.

**Usb** (`UsbProofs`, from the assumptions of UsbPoll, Messages and U2f). `U2fInv` ties
the request that waits to the display, which shows its dialog or the home screen (`Displayed`), the
press to the request, the command to the message and the frames to the channel. `PressIsHonest` needs
`Displayed`: at the press the request under `last_auth` could otherwise be another
than the one whose dialog was laid out. `PressIsUsedUp` is an action property from the same invariant.
`MessageInv` extends `MessagesAreWhole` to every place where a message may wait
half-read (`Holding`): a dialog of a handler has its message already, and a packet that tiny
mode takes away marks it as swallowed. For the ring, "not dropped" says nothing of the next
answer, so `Slack` does: without a backlog there is room for as many packets as frames were
received of the message under way (`Taken`), because the poll that brings a frame
sends a packet (`PollKeepsRing`, `TinyPollKeepsRing`), and no answer is longer than its
message (`AnswerSize`). `MessagesHold` and `RingHolds` follow.

**Workflows** (`WorkflowsProofs`, from the assumptions of Ethereum and Recovery).
`EthereumInv` says where the bytes are while data is missing: announced length =
hashed + missing + suffix, with the suffix that `send_signature` will add. It needs
the lemmas that the two ways in which the code computes an RLP length agree.
`SigningIsHonest`, `KeyIsNeeded` and `LengthIsTrue` follow; recoveries leave it alone.

**Recoveries** (`WorkflowsProofs` too, from the assumption of Recovery). `RecoveryInv` says in
a matrix recovery that `word_pincode` has the digits of what was pressed, level by
level (`PressedInv`), that the words before the current one are the user's, and that a
marked choice is the one of a cell (`MarkedInv`); in a scrambled one that the words
asked for so far are at their places. `EveryWordIsAsked` then fills the seed when
`word_order` is through, and `LastMatrix` shows that the choice and the cell are the
same word. `MatrixSplits` needs of the tables only that both grow, by at most the
choices of a matrix, and that the last group is full, which `RealTables` checks of the
real ones. The invariant speaks of recoveries that nothing disturbed; one that was given up
in its PIN dialog keeps the matrix and the word order intact (`FollowedInv`) but not the number and the origin of words (`OwnInv`),
and of a nested one only the types are left. `MarkedInv` says that a digit that sleeps
has the choice that the user pressed. So `NoMoreWordsAreAsked` excepts both, the first as
`Recovery_abandoned` shows.

**Bootloader** (`BootloaderProofs`, from `BootloaderAssumption`). `MayStart` alone is
not inductive: what a job will write later is in its rest and in the backup. So
`JobInv` says of every job how much of it is left (`LeftOf`) and what flash holds
then: an erase takes the magic first; a test restores the backup it took, which could
be started (`BackupMayStart`); an installation writes back a storage only behind a
signed descriptor that replaces a signed one. `Restoring(n)` is the state with n steps
of `restore_metadata` left, and `RestoringMayStart` shows that a cut there is safe.
`LoaderInv` is what the next message finds between jobs. One lemma per kind of job
and per message keeps the three; `SeedStays` and `BootableWasConfirmed` follow.
`SurviveInv` says where the storage of the start is: in its place, or in the backup until
a signed firmware that keeps it has been written (per job: `EraseKeeps`, `TestKeeps`,
`InstallKeeps`); the last steps of a job put it back, which is `StorageIsKept`.

**Vault** (`VaultProofs`, from the assumptions of CryptoMem and Vault). None of the
properties is inductive by itself: what a handler finds in the chip depends on zones no
property mentions, because `cm_get_zone_index` moves on to the lowest zone that lives and
`cm_send_default_PW` kills the one it cannot open. `Zoned` says that zones are used from the
lowest up, those below the one in use are dead and those above are as new, and
`ChipInv` adds what the driver's state means; the calls of the driver are proved to keep both,
and `Kept` is what each may do to the zones. (That there is a lowest zone for any number of
zones is the well-foundedness of `<`.) Above it, `Intact` says that chip and flash belong together
while nothing came between them: a living zone in use with the key of the stored mnemonic, a password iff
there is a PIN, and `wrong` plus the attempts left equal to all. `NoLeak` is about living zones only,
and needs that the keys drawn are new; `Session` is about the caches. Every handler has a lemma,
with power lost after each of its writes as a case: `CutShort` boots with the chip the handler
reached and the flash of before, and either both still belong together (`NotTorn`) or
`spoiled` says so. The same lemmas show `Reason`, the step of `ZonesDieForAReason`: it needs
the invariant, because without a PIN every living zone opens with the default password
(`AllDefault`), so a wipe, a reset or a recovery kills none. The exceptions in the properties
(`spoiled`, `imported`) are those of the code: `Vault_overwrite` shows one of them.

**Handlers and Nem** (`HandlersProofs`, from `NemAssumption` and `HandlersAssumption`, which
only says what fields a request has). `HandlersInv` looks at what each running handler still
has to do. `FrameHolds`: if it may still serve its request, it was refused nothing, what the
request needs is confirmed or will be shown by the steps left, and the PIN is known or will be
asked for; only its last step answers. That every handler begins like this is `HandlerServed`,
a lemma per handler, and that a step keeps it does not depend on the handler:
`StepOn`, `StepReplaced` and `StepFailing` are the three things a step may do to the
steps left. `KeyHolds` follows the static node through the steps from `Node` to `Derive`, and is claimed only
of the innermost handler, if undisturbed: the outer ones are disturbed. `LastHolds` then says of
an answer what the properties ask for. The lemmas about `nem2.c` go through its folds, which are
functions here: `Recursion` gives a recursive function on an interval its equation, and
`NatSetInduction` the induction, with a set in place of a predicate. So `CanonicalFacts` holds of
every list: the merge keeps for each name the sum so far (`MergeMerges`), a pass of the sort
brings the least name of the rest to its place (`SortFromSelects`). `AskShows` compares the
dialogs of every kind of transaction with what is written, but for `Unshown`.

Only model-checked: `CountersGrow`, which is not true of every constant: the
counter is a number modulo 2^32 and starts again from zero, which the bounds of
the run exclude. The liveness properties (`SessionEnds`, `SessionsEnd`,
`SigningEnds`), which need fairness, and ENABLED are beyond the
prover. No module here uses RECURSIVE operators.

## 6. Not modelled

- Contents: cryptography (`crypto.c`, keys, hashes), byte formats of transactions,
  answers of pure handlers, drawing (`layout2.c`, `oled.c`), token and coin tables,
  USB descriptors, `rng.c`, serial number.
- The chip's wire protocol and the programming at manufacture (`at88sc0104.c`,
  `cm_init` of a new chip); ignored results of the writes of a key
  (cryptomem.c:527), which need faults of a transport that is not modelled.
- The ring of outgoing wallet packets (messages.c:125): an answer longer than the
  ring overwrites itself.
- Settings and flags as data (storage.c:1098 replaces older flags, because
  `storageUpdate` starts empty).
- What `recovery_done` answers when storing fails; the data of a recovery in whose
  `usbSleep` another handler of `recovery.c` ran, and what the code then writes behind
  `words[]`.
- Debounce counters and the wrap of the millisecond clock (`timer.h:35`): presses
  and time-outs are events.
- The debug link, the emulator and the demo: not in the device's build.

Next would come the wallet's ring, and a model of the timer.

## 7. Running

`tlc -config Vault_main.cfg MCVault` checks a run, `tlapm StorageProofs.tla` the
proofs of a module; SANY, TLC, the community modules and TLAPS 1.4.5 with Z3,
Zenon and LS4 are needed. The longest runs, `Usb_main` and `Workflows_main`, take about three minutes each
on two cores.
