------------------------------ MODULE Storage ------------------------------
(***************************************************************************)
(* The two flash sectors of firmware/storage.c: the storage record in the  *)
(* first, after the firmware's header, and the area of the U2F counter in  *)
(* the last.                                                               *)
(*                                                                         *)
(* Flash is erased by the sector, to ones, and programmed by the word,     *)
(* which can only clear bits.  An operation is a list of such writes and   *)
(* power may fail before any of them, so `todo' holds the writes left.     *)
(* What the code computes between its writes (storageUpdate, the answer)   *)
(* depends on nothing that changes meanwhile, and is computed at once.     *)
(* Of the record four words are kept: its magic, its version, the mnemonic *)
(* and the base of the counter.  The area of PIN failures, which shares    *)
(* the last sector, is not used by this build, and SUPPORT_LEGACY_VERSION  *)
(* is not defined in it.                                                   *)
(***************************************************************************)
EXTENDS Integers, Sequences, Functions

CONSTANTS
  AreaWords, WordBits, \* 64 words of 32 bits
  CounterMod,    \* 2^32
  SetCounters,   \* counters the host may set
  MaxSeeds, MaxIssued, MaxLosses \* bounds: on seeds, counters and power losses

ASSUME StorageAssumption ==
  /\ AreaWords \in Nat \ {0} /\ WordBits \in Nat \ {0}
  /\ CounterMod \in Nat \ {0} /\ SetCounters \subseteq 0 .. CounterMod - 1
  /\ MaxSeeds \in Nat /\ MaxIssued \in Nat /\ MaxLosses \in Nat

Ones == -1                                 \* an erased word
Stor == 1                                  \* storage_magic
Current == 1                               \* STORAGE_VERSION; 0 after a wipe
Words == {"meta", "magic", "version", "mnemonic", "counter"}
AreaBits == AreaWords * WordBits
\* The last word is the first of those reserved behind the area.
Area == 0 .. AreaWords
Nothing == [value |-> Ones, set |-> FALSE] \* no answer
SetTo(counter) == [value |-> counter, set |-> TRUE]

VARIABLES
  running,       \* power is on and the firmware has been started
  first,         \* the words of FLASH_META_SECTOR_FIRST
  area,          \* the bits cleared in each word of the U2F area
  offset,        \* storage_u2f_offset
  todo,          \* the flash writes left of the operation in progress
  answer,        \* the counter it will give, or the one it sets
  \* History variables.
  last,          \* the last counter given or set
  broken,        \* did a restart, a recycling or a torn base break the count since?
  seeds,         \* number of mnemonics stored so far
  kept,          \* mnemonics the record may hold: one more while a commit is under way
  overErased,    \* was the area erased after the record was begun?
  issued, losses \* counters asked for and power losses so far

flash == <<first, area, overErased>>
vars == <<running, flash, offset, todo, answer, last, broken, seeds, kept, issued, losses>>

Erase(sector) == [kind |-> "erase", at |-> sector, value |-> Ones]
Program(word, value) == [kind |-> "word", at |-> word, value |-> value]
ClearBits(word, bits) == [kind |-> "bits", at |-> word, value |-> bits]

Blank == [w \in Area |-> {}]
ClearedBits == {c \in Area \X (0 .. WordBits - 1) : c[2] \in area[c[1]]}
Accepted == first.magic = Stor /\ first.version = Current

\* restore_metadata of a zeroed backup: what the boot loader programs behind a
\* new header, unless the old firmware was signed.
ZeroedFirst == [w \in Words |-> IF w = "meta" THEN 1 ELSE 0]
ZeroedArea == [w \in Area |-> 0 .. WordBits - 1]

Init ==
  /\ running = FALSE
  /\ first = ZeroedFirst /\ area = ZeroedArea /\ overErased = FALSE
  /\ offset = 0 /\ todo = <<>> /\ answer = Nothing
  /\ last = 0 /\ broken = FALSE /\ seeds = 0 /\ kept = {0}
  /\ issued = 0 /\ losses = 0

-----------------------------------------------------------------------------
(* Writing flash.                                                          *)

\* The effect of one erasure or one word programmed.
Write(w) ==
  /\ first' = IF w.kind = "erase" /\ w.at = "first" THEN [v \in Words |-> Ones]
              ELSE IF w.kind = "word" THEN [first EXCEPT ![w.at] = w.value] ELSE first
  /\ area' = IF w.kind = "erase" /\ w.at = "last" THEN Blank
             ELSE IF w.kind = "bits" THEN [area EXCEPT ![w.at] = @ \cup w.value] ELSE area
  /\ overErased' = IF w.kind = "erase" THEN w.at = "last" ELSE overErased

\* The next write of the operation; its answer is given after the last one.
Step ==
  /\ running /\ todo # <<>>
  /\ Write(Head(todo)) /\ todo' = Tail(todo)
  /\ IF Tail(todo) = <<>>
     THEN /\ answer' = Nothing /\ kept' = {first'.mnemonic}
          /\ last' = IF answer = Nothing THEN last ELSE answer.value
          /\ broken' = (broken /\ ~answer.set)
     ELSE UNCHANGED <<answer, kept, last, broken>>
  /\ UNCHANGED <<running, offset, seeds, issued, losses>>

\* storage_commit_locked of a record.  The firmware's header shares its sector.
storage_commit_locked(version, mnemonic, counter) ==
  <<Erase("first"), Program("meta", first.meta), Program("magic", Stor),
    Program("version", version), Program("mnemonic", mnemonic),
    Program("counter", counter)>>

storage_clearPinArea == <<Erase("last")>>
storage_wipe == storage_commit_locked(0, 0, 0) \o storage_clearPinArea

KeepsNothing(updated) == IF updated = Ones THEN 0 ELSE updated     \* a mistake
\* The mnemonic in storageUpdate or, if it has none, the one in storageRom.
MnemonicToCommit(updated) == IF updated = Ones THEN first.mnemonic ELSE updated

\* An operation with these writes begins; the record may then hold a mnemonic
\* of `mnemonics'.
Begin(writes, reply, mnemonics) ==
  /\ running /\ todo = <<>>
  /\ todo' = writes /\ answer' = reply /\ kept' = kept \cup mnemonics
  /\ UNCHANGED <<running, flash, last, losses>>

-----------------------------------------------------------------------------
(* Operations on the record.                                               *)

\* storage_setU2FCounter.
BaseOf(counter) == (counter - offset) % CounterMod

\* A message that stores a seed ends with storage_update; LoadDevice may set the
\* counter with it.
StoreSeed(reply) ==
  /\ seeds < MaxSeeds /\ seeds' = seeds + 1
  /\ Begin(storage_commit_locked(Current, MnemonicToCommit(seeds + 1),
             IF reply.set THEN BaseOf(reply.value) ELSE first.counter),
           reply, {seeds + 1})
  /\ UNCHANGED <<offset, broken, issued>>

\* Every other storage_update.
StoreSettings ==
  /\ Begin(storage_commit_locked(Current, MnemonicToCommit(Ones), first.counter), Nothing, {})
  /\ UNCHANGED <<offset, broken, seeds, issued>>

\* storage_setU2FCounter and storage_update, of SetU2FCounter, ResetDevice and
\* RecoveryDevice.
SetU2FCounter(counter) ==
  /\ Begin(storage_commit_locked(Current, MnemonicToCommit(Ones), BaseOf(counter)),
           SetTo(counter), {})
  /\ UNCHANGED <<offset, broken, seeds, issued>>

\* storage_wipe, of WipeDevice.
WipeDevice ==
  /\ Begin(storage_wipe, SetTo(0), {0})
  /\ offset' = 0
  /\ UNCHANGED <<broken, seeds, issued>>

-----------------------------------------------------------------------------
(* The U2F counter.                                                        *)

OneBitLate(o) == ClearBits(o \div WordBits, 0 .. (o % WordBits) - 1)  \* a mistake
\* newval, and its address, in storage_nextU2FCounter.
CounterWrite(o) == ClearBits(o \div WordBits, 0 .. o % WordBits)

IsFull(o) == o >= AreaBits

MarkerLeft == <<>>                                                 \* a mistake
ClearMarker == <<Program("magic", 0)>>

KeepsOffset(o) == o                                                \* a mistake
\* storage_u2f_offset after storage_nextU2FCounter has come to o.
OffsetAfter(o) == IF IsFull(o) THEN 0 ELSE o

\* storage_area_recycle.  Nothing has put a base into storageUpdate, which is
\* zero, so that the new base is the offset alone.
storage_area_recycle(o) ==
  ClearMarker \o <<Erase("last")>>
    \o storage_commit_locked(Current, MnemonicToCommit(Ones), o)

\* A U2F authentication, which needs the key of a seed.
storage_nextU2FCounter ==
  LET o == offset + 1
      base == IF IsFull(o) THEN o ELSE first.counter
  IN
  /\ Accepted /\ first.mnemonic # 0
  /\ issued < MaxIssued /\ issued' = issued + 1
  /\ Begin(<<CounterWrite(offset)>> \o (IF IsFull(o) THEN storage_area_recycle(o) ELSE <<>>),
           [value |-> (base + OffsetAfter(o)) % CounterMod, set |-> FALSE], {})
  /\ offset' = OffsetAfter(o)
  /\ broken' = (broken \/ (IsFull(o) /\ first.counter # 0))
  /\ UNCHANGED seeds

-----------------------------------------------------------------------------
(* Power.                                                                  *)

PowerLoss ==
  /\ running /\ losses < MaxLosses
  /\ running' = FALSE /\ todo' = <<>> /\ answer' = Nothing /\ offset' = 0
  /\ losses' = losses + 1
  /\ UNCHANGED <<flash, last, broken, seeds, kept, issued>>

\* The boot loader installs a firmware where none that is signed was: the only
\* way on after a cut that lost the header.
Upload ==
  /\ ~running
  /\ first' = ZeroedFirst /\ area' = ZeroedArea
  /\ UNCHANGED <<running, offset, todo, answer, last, broken, seeds, kept,
                 overErased, issued, losses>>

\* storage_from_flash and, if it refuses the record, storage_wipe.  The offset
\* starts at zero.
storage_init ==
  /\ ~running /\ first.meta # Ones
  /\ running' = TRUE
  /\ \/ /\ Accepted
        /\ broken' = (broken \/ area # Blank \/ first.counter = Ones)
        /\ UNCHANGED <<todo, answer, kept>>
     \/ /\ ~Accepted
        /\ todo' = storage_wipe /\ answer' = SetTo(0)
        /\ kept' = kept \cup {0} /\ UNCHANGED broken
  /\ UNCHANGED <<flash, offset, last, seeds, issued, losses>>

Next ==
  \/ Step
  \/ StoreSeed(Nothing) \/ StoreSettings \/ WipeDevice
  \/ \E counter \in SetCounters : StoreSeed(SetTo(counter)) \/ SetU2FCounter(counter)
  \/ storage_nextU2FCounter
  \/ PowerLoss \/ Upload \/ storage_init

Spec == Init /\ [][Next]_vars

-----------------------------------------------------------------------------
(* Properties.                                                             *)

\* The types of the variables.  The offset stays in the area and the words
\* behind it are only touched by the boot loader.
TypeOK ==
  /\ running \in BOOLEAN
  /\ first \in [Words -> Nat \cup {Ones}]
  /\ area \in [Area -> SUBSET (0 .. WordBits - 1)] /\ area[AreaWords] \in {{}, ZeroedArea[0]}
  /\ offset \in 0 .. AreaBits - 1
  /\ answer = Nothing \/ answer \in [value : 0 .. CounterMod - 1, set : BOOLEAN]
  /\ last \in 0 .. CounterMod - 1 /\ broken \in BOOLEAN
  /\ kept \subseteq Nat \cup {Ones} /\ overErased \in BOOLEAN
  /\ seeds \in Nat /\ issued \in Nat /\ losses \in Nat

\* A record that a boot accepts holds the mnemonic it held before the commit
\* that was cut, the one of that commit, or an unwritten one: no commit of
\* something else and no recycling, cut or not, changes or forgets the seed.
SeedKept == Accepted => first.mnemonic \in kept \cup {Ones}

\* No record is accepted whose area was erased after it was written: "it is
\* better to clear the storage than to allow restarting with zero" counts.
NoRecordOverErasedArea == Accepted => ~overErased

\* The area "is just a sequence of zero-bits followed by a sequence of
\* one-bits", whatever cuts and restarts come between the writes.
ZerosThenOnes ==
  \A c \in ClearedBits : \A w \in Area, b \in 0 .. WordBits - 1 :
    w * WordBits + b < c[1] * WordBits + c[2] => <<w, b>> \in ClearedBits

Answers == Step /\ Tail(todo) = <<>> /\ answer # Nothing /\ ~answer.set

\* The counter an authentication gives is above the last one given or set, over
\* commits, wipes and cuts, as long as the device has not restarted with bits
\* in its area, recycled the area over a base, or torn the base.
CountersGrow == [][Answers /\ ~broken => last' > last]_vars

\* The offset "corresponds to the number of cleared bits in the U2FAREA", at
\* least while the firmware waits for a message.
OffsetIsClearedBits ==
  running /\ todo = <<>> => \A w \in Area, b \in 0 .. WordBits - 1 :
                              <<w, b>> \in ClearedBits <=> w * WordBits + b < offset
=============================================================================
