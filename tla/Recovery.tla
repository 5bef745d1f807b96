------------------------------ MODULE Recovery ------------------------------
(***************************************************************************)
(* Entering a seed (recovery.c): word by word in a scrambled order on the  *)
(* computer, or by choices on a matrix that the device shows.              *)
(*                                                                         *)
(* Of a word only matters where it comes from: words[i] says whether the   *)
(* user entered it in this recovery as word i.  The scrambling of the      *)
(* matrix is left out: a digit is the choice on its cell.  Statics that    *)
(* are written before they are read again are reset when a recovery begins *)
(* or ends.                                                                *)
(*                                                                         *)
(* recovery_digit marks the chosen word in a usbSleep, which hands packets *)
(* to the handlers: a digit that sleeps is on the stack "sleeping", and    *)
(* goes on with whatever the statics are when it wakes up.  If another     *)
(* handler of recovery.c ran in its sleep, the control is still that of    *)
(* the code, but the data is not followed: see Enter.                      *)
(***************************************************************************)
EXTENDS RecoveryTable, FiniteSets, Sequences, SequencesExt

CONSTANTS
  WordCounts,      \* 12, 18 and 24
  Slots,           \* the length of word_order: 24
  Base,            \* choices of a matrix: 9
  Narrow,          \* choices of the last matrix of a word: 6
  TABLE1, TABLE2,  \* the tables of recovery-table.h
  MaxSleeps        \* bound: digits that sleep inside each other

ASSUME RecoveryAssumption ==
  /\ Slots \in Nat \ {0} /\ WordCounts \subseteq 1 .. Slots
  /\ Base \in Nat \ {0, 1} /\ Narrow \in 1 .. Base /\ MaxSleeps \in Nat \ {0}
  /\ Tables(TABLE1, TABLE2, Base, Narrow)

VARIABLES
  awaiting_word,   \* 0, 1 (scrambled) or 2 (matrix)
  word_count, dry_run, word_pos, word_index, word_order, words, word_pincode,
  sleeping,        \* the digits in their usbSleep, the innermost one last
  stored,          \* the seed in storage, see Seed
  \* History variables.
  pressed,         \* the ranges the user has pressed for the current word
  asked,           \* what the user confirmed last: none, dry or real
  disturbed        \* what came into this recovery: nothing, a recovery that was given
                   \* up in its PIN dialog, or a handler of recovery.c in a usbSleep

recovery == <<awaiting_word, word_count, dry_run, word_pos, word_index, word_order,
              words, word_pincode, sleeping, stored, pressed, asked, disturbed>>
request == <<word_count, dry_run, asked>>
scrambled == <<word_pos, word_order>>
data == <<words, word_pincode, pressed>>

NoSeed == "none"
NoRange == <<>>
Positions == 0 .. Slots - 1
Words(origin) == [i \in Positions |-> origin]
NoOrder == [i \in Positions |-> 0]

InitRecovery ==
  /\ awaiting_word = 0 /\ word_count = 0 /\ dry_run = FALSE
  /\ word_pos = 0 /\ word_index = 0 /\ word_pincode = 0
  /\ word_order = NoOrder /\ words = Words("stale")
  /\ sleeping = <<>> /\ stored = NoSeed /\ pressed = <<>> /\ asked = "none"
  /\ disturbed = "no"

-----------------------------------------------------------------------------
(* The end.                                                                *)

\* The data of a recovery goes on as w, pincode and range, unless a handler of
\* recovery.c has run inside the usbSleep of another one: then it can be anything.
Enter(w, pincode, ranges) ==
  IF disturbed' = "nested" THEN words' = Words("other") /\ word_pincode' = 0 /\ pressed' = <<>>
  ELSE words' = w /\ word_pincode' = pincode /\ pressed' = ranges
Nested == IF sleeping = <<>> THEN disturbed ELSE "nested"

\* What is stored.  A word is "astray" if an empty cell was pressed.
Seed(w) ==
  LET ws == {w[i] : i \in 0 .. word_count - 1}
  IN IF asked = "real" /\ ws \subseteq {"entered", "astray"} THEN "entered"
     ELSE IF disturbed = "no" THEN "other" ELSE "disturbed"
Forget ==
  /\ word_count' = 0 /\ dry_run' = FALSE /\ asked' = "none" /\ disturbed' = "no"
  /\ word_order' = NoOrder /\ word_pos' = 0 /\ word_index' = 0
  /\ words' = Words("stale") /\ word_pincode' = 0 /\ pressed' = <<>>

\* The mnemonic may be invalid, and storing it may fail.  Another digit may sleep.
recovery_done(w) ==
  /\ awaiting_word' = 0
  /\ IF sleeping' = <<>> THEN Forget
     ELSE /\ UNCHANGED <<word_index, scrambled>> /\ UNCHANGED request
          /\ disturbed' = "nested" /\ Enter(w, 0, <<>>)
  /\ (~dry_run /\ stored' = Seed(w)) \/ UNCHANGED stored

-----------------------------------------------------------------------------
(* The matrix.                                                             *)

Level == word_index % 4

\* next_matrix: the words first .. last behind choice i of the matrix of a level.
RangeAt(level, pincode, i) ==
  CASE level = 0 -> <<TABLE2[TABLE1[Base * i]], TABLE2[TABLE1[Base * (i + 1)]] - 1>>
    [] level = 1 -> <<TABLE2[TABLE1[Base * pincode + i]],
                      TABLE2[TABLE1[Base * pincode + i + 1]] - 1>>
    [] level = 2 -> <<TABLE2[TABLE1[pincode] + i], TABLE2[TABLE1[pincode] + i + 1] - 1>>
    [] level = 3 -> LET first == TABLE2[TABLE1[pincode \div Base] + (pincode % Base)]
                    IN <<first + i, first + i>>
\* num of next_matrix.
NumChoices(level, pincode) ==
  CASE level \in {0, 1} -> Base
    [] level = 2 -> TABLE1[pincode + 1] - TABLE1[pincode]
    [] level = 3 -> LET idx == TABLE1[pincode \div Base] + (pincode % Base)
                    IN TABLE2[idx + 1] - TABLE2[idx]
Cells(level) == IF level = 3 THEN Narrow ELSE Base

\* display_choices: "avoid picking out of range numbers".
Clamp(cell, num) == IF cell > num THEN 0 ELSE cell
\* What the display shows on a cell.
Shown(cell) == IF cell < NumChoices(Level, word_pincode)
               THEN RangeAt(Level, word_pincode, cell) ELSE NoRange

KeepsLowDigit ==                                                 \* a mistake
  /\ UNCHANGED <<awaiting_word, sleeping, stored>> /\ UNCHANGED request
  /\ disturbed' = Nested
  /\ IF Level = 0 THEN /\ word_index' = IF word_index > 0 THEN word_index - 4 ELSE 0
                       /\ Enter(words, word_pincode, pressed)
     ELSE word_index' = word_index - 1 /\ Enter(words, word_pincode % Base, Front(pressed))
\* recovery_digit with a backspace.
Backspace ==
  /\ UNCHANGED <<awaiting_word, sleeping, stored>> /\ UNCHANGED request
  /\ disturbed' = Nested
  /\ IF Level = 0 THEN /\ word_index' = IF word_index > 0 THEN word_index - 4 ELSE 0
                       /\ Enter(words, word_pincode, pressed)
     ELSE word_index' = word_index - 1 /\ Enter(words, word_pincode \div Base, Front(pressed))

\* Behind words[] the code writes over other memory; the model stops there.
Slot == word_index \div 4
InWords == Slot \in Positions

\* recovery_digit up to the usbSleep that marks a chosen word.
recovery_digit(cell) ==
  LET choice == Clamp(cell, NumChoices(Level, word_pincode))
      shown == Append(pressed, Shown(cell))
  IN /\ InWords
     /\ UNCHANGED <<awaiting_word, stored>> /\ UNCHANGED request
     /\ disturbed' = Nested
     /\ \/ /\ Level = 3 /\ Len(sleeping) < MaxSleeps
           /\ sleeping' = Append(sleeping, [choice |-> choice, slot |-> Slot])
           /\ UNCHANGED word_index /\ Enter(words, word_pincode, shown)
        \/ /\ Level # 3 /\ UNCHANGED sleeping
           /\ word_index' = word_index + 1 /\ Enter(words, word_pincode * Base + choice, shown)

\* The word idx is written for the digit d: is it what the user saw, and at its place?
Entered(d, idx) ==
  IF pressed = <<>> \/ d.slot # Slot THEN "other"
  ELSE IF Last(pressed) = NoRange THEN "astray"
  ELSE IF Last(pressed) = <<idx, idx>> THEN "entered" ELSE "other"
IsLast == Slot + 1 = word_count

\* recovery_digit after usbSleep: of what was there before it, it has only the choice.
WordChosen ==
  /\ sleeping # <<>> /\ InWords
  /\ sleeping' = Front(sleeping)
  /\ LET d == Last(sleeping)
         w == [words EXCEPT ![Slot] = Entered(d, RangeAt(3, word_pincode, d.choice)[1])]
     IN IF IsLast THEN recovery_done(w)
        ELSE /\ UNCHANGED <<awaiting_word, stored>>
             /\ IF awaiting_word = 0 /\ sleeping' = <<>> THEN Forget
                ELSE /\ UNCHANGED disturbed /\ UNCHANGED request /\ UNCHANGED scrambled
                     /\ word_index' = word_index + 1 /\ Enter(w, 0, <<>>)

-----------------------------------------------------------------------------
(* Scrambled words.                                                        *)

LateWord(index) == word_pos' = word_order'[IF index = 0 THEN 0 ELSE index - 1]  \* a mistake
next_word(index) == word_pos' = word_order'[index]

\* The word that was asked for, and not one that is refused: a refused word is
\* answered and changes nothing, the recovery goes on.
recovery_scrambledword ==
  LET w == IF word_pos = 0 THEN words ELSE [words EXCEPT ![word_pos - 1] = "entered"]
  IN /\ word_index \in Positions                              \* see InWords
     /\ UNCHANGED sleeping
     /\ IF word_index + 1 = Slots
        THEN recovery_done(w)
        ELSE /\ UNCHANGED <<awaiting_word, word_order, stored>> /\ UNCHANGED request
             /\ word_index' = word_index + 1 /\ next_word(word_index + 1)
             /\ disturbed' = Nested /\ Enter(w, word_pincode, <<>>)

\* fsm_msgWordAck with a word, a digit or a backspace.
recovery_word ==
  \/ awaiting_word = 1 /\ recovery_scrambledword
  \/ /\ awaiting_word = 2 /\ UNCHANGED scrambled
     /\ \/ Backspace
        \/ \E cell \in 0 .. Cells(Level) - 1 : recovery_digit(cell)

-----------------------------------------------------------------------------
(* The begin.                                                              *)

\* random_permute of the positions of count words among the fake ones.
Orders(count) == {o \in [Positions -> 0 .. count] :
                    \A p \in 1 .. count : Cardinality({i \in Positions : o[i] = p}) = 1}

\* What a recovery begins with.
Start(count, dry) ==
  /\ word_count' = count /\ dry_run' = dry /\ asked' = IF dry THEN "dry" ELSE "real"
  /\ UNCHANGED <<sleeping, stored>>
  /\ disturbed' = (IF sleeping = <<>> THEN "no" ELSE "nested") /\ Enter(Words("stale"), 0, <<>>)
KeepsIndex(count, dry) ==                                        \* a mistake
  Start(count, dry) /\ awaiting_word' = 2 /\ UNCHANGED word_index /\ UNCHANGED scrambled
\* recovery_init with the PIN, if one was asked for.
recovery_init(count, dry) ==
  /\ Start(count, dry) /\ word_index' = 0
  /\ \/ awaiting_word' = 2 /\ word_order' = NoOrder /\ word_pos' = 0
     \/ awaiting_word' = 1 /\ word_order' \in Orders(count) /\ next_word(0)

\* recovery_init when its PIN dialog fails: an older recovery goes on.
PinMismatch(count) ==
  /\ awaiting_word # 0 \/ sleeping # <<>>
  /\ word_count' = count /\ dry_run' = FALSE
  /\ disturbed' = IF sleeping # <<>> THEN "nested"
                  ELSE IF disturbed = "no" THEN "given up" ELSE disturbed
  /\ Enter(words, word_pincode, pressed)
  /\ UNCHANGED <<awaiting_word, word_index, sleeping, stored, asked>> /\ UNCHANGED scrambled

\* fsm_msgRecoveryDevice, confirmed by the user.
RecoveryDevice(count, dry) ==
  /\ dry \/ stored = NoSeed
  /\ recovery_init(count, dry) \/ (~dry /\ PinMismatch(count))

\* A digit that sleeps goes on after it.
recovery_abort ==
  /\ awaiting_word' = 0 /\ UNCHANGED <<sleeping, stored>>
  /\ IF sleeping = <<>> THEN Forget
     ELSE /\ UNCHANGED <<word_index, disturbed>>
          /\ UNCHANGED request /\ UNCHANGED scrambled /\ UNCHANGED data

-----------------------------------------------------------------------------
(* Properties.                                                             *)

\* Every variable has its type.
RecoveryTypeOK ==
  /\ awaiting_word \in 0 .. 2 /\ word_count \in WordCounts \cup {0} /\ dry_run \in BOOLEAN
  /\ word_pos \in 0 .. Slots /\ word_order \in [Positions -> 0 .. Slots]
  /\ word_index \in 0 .. 4 * Slots + 3 /\ word_pincode \in 0 .. Base ^ 3 - 1
  /\ words \in [Positions -> {"stale", "entered", "astray", "other"}]
  /\ stored \in {NoSeed, "entered", "disturbed", "other"}
  /\ asked \in {"none", "dry", "real"} /\ disturbed \in {"no", "given up", "nested"}
  /\ Len(pressed) <= 4 /\ Len(sleeping) <= MaxSleeps

\* "It holds that word_order[word_index] == word_pos" (recovery.c:81): the number on
\* the display is the place the next word is stored at.  It does not hold after a
\* recovery that began in the usbSleep of an older one (recovery.c:414), whose digit
\* counts word_index up when it wakes up.
WordOrderHolds ==
  awaiting_word = 1 /\ disturbed # "nested" =>
    word_index < Slots /\ word_order[word_index] = word_pos

\* The choices of a matrix split what the user pressed before, without gaps and
\* overlaps: no word is out of reach and none comes up twice, back or forth.  Two digits
\* in one usbSleep (recovery.c:414) go on with a matrix that nobody pressed the way to.
MatrixSplitsThePressed ==
  /\ awaiting_word = 2 /\ disturbed # "nested" /\ sleeping = <<>>
  /\ pressed = <<>> \/ Last(pressed) # NoRange
  =>
    LET all == IF pressed = <<>> THEN <<TABLE2[TABLE1[0]], TABLE2[TABLE1[Base * Base]] - 1>>
               ELSE Last(pressed)
        num == NumChoices(Level, word_pincode)
        R(i) == RangeAt(Level, word_pincode, i)
    IN /\ num \in 1 .. Cells(Level)
       /\ R(0)[1] = all[1] /\ R(num - 1)[2] = all[2]
       /\ \A i \in 0 .. num - 1 : R(i)[1] <= R(i)[2]
       /\ \A i \in 1 .. num - 1 : R(i)[1] = R(i - 1)[2] + 1

\* A seed is stored only by a recovery that the user did not ask for as a dry run,
\* and consists of words entered in that recovery, each at its place, whatever messages
\* came between its words, or of Initialize, Cancel, WipeDevice and Ethereum in its
\* usbSleep.  The code has two exceptions, which Seed tells apart as "disturbed": a
\* recovery given up in its PIN dialog changed word_count or dry_run under an older one
\* (recovery.c:456), or a RecoveryDevice or WordAck was handled in the usbSleep of a
\* digit (recovery.c:414).  A digit that sleeps goes on after a Cancel: the last word
\* of a recovery stores the seed although it was cancelled.
SeedIsEntered == stored # "other"

\* "number of words expected in the new seed" (recovery.c:38): the matrix never asks
\* for more.
NoMoreWordsThanExpected == awaiting_word = 2 => word_index < 4 * word_count
=============================================================================
