---------------------------- MODULE StorageProofs ----------------------------
(***************************************************************************)
(* Proofs about Storage: what a cut of power leaves of the record.         *)
(***************************************************************************)
EXTENDS Storage, SequenceTheorems, TLAPS

-----------------------------------------------------------------------------
(* Lists of writes.                                                        *)

Sectors == {"first", "last"}
FlashWrite ==
  [kind : {"erase"}, at : Sectors, value : {Ones}]
    \cup [kind : {"word"}, at : Words, value : Int]
    \cup [kind : {"bits"}, at : Nat, value : SUBSET Nat]

IsErase(w, sector) == w = Erase(sector)
\* A write that a boot may accept the record after, and one it refuses it after.
Opens(w) == w.kind = "word" /\ w.at \in {"magic", "version"}
Closes(w) == Opens(w) /\ w.value = 0

\* Before the area is erased the record is closed; afterwards it is begun anew before
\* it is opened.
BegunBefore(s, i, j) == \E k \in i .. j - 1 : IsErase(s[k], "first")
ClosedBefore(s, i, closed) ==
  \/ closed /\ \A k \in 1 .. i - 1 : ~Opens(s[k])
  \/ \E j \in 1 .. i - 1 : Closes(s[j]) /\ \A k \in j + 1 .. i - 1 : ~Opens(s[k])
Ordered(s, closed) ==
  \A i \in 1 .. Len(s) : IsErase(s[i], "last") =>
    /\ ClosedBefore(s, i, closed)
    /\ \A j \in i + 1 .. Len(s) : Opens(s[j]) => BegunBefore(s, i + 1, j)

\* The writes of a commit, one by one.
IsCommit(s, v, m, c) ==
  /\ s \in Seq(FlashWrite) /\ Len(s) = 6
  /\ s[1] = Erase("first") /\ s[2] = Program("meta", first.meta)
  /\ s[3] = Program("magic", Stor) /\ s[4] = Program("version", v)
  /\ s[5] = Program("mnemonic", m) /\ s[6] = Program("counter", c)

LEMMA CommitWrites ==
  ASSUME NEW v \in Int, NEW m \in Int, NEW c \in Int, first.meta \in Int
  PROVE  IsCommit(storage_commit_locked(v, m, c), v, m, c)
<1>1. /\ Erase("first") \in FlashWrite
      /\ Program("meta", first.meta) \in FlashWrite
      /\ Program("magic", Stor) \in FlashWrite
      /\ Program("version", v) \in FlashWrite
      /\ Program("mnemonic", m) \in FlashWrite
      /\ Program("counter", c) \in FlashWrite
  BY DEF FlashWrite, Erase, Program, Sectors, Words, Stor, Ones
<1> QED  BY <1>1 DEF storage_commit_locked, IsCommit

LEMMA WipeWrites ==
  ASSUME first.meta \in Int
  PROVE  /\ storage_wipe \in Seq(FlashWrite) /\ Len(storage_wipe) = 7
         /\ \A i \in 1 .. 6 : storage_wipe[i] = storage_commit_locked(0, 0, 0)[i]
         /\ storage_wipe[7] = Erase("last")
<1> DEFINE r == storage_commit_locked(0, 0, 0)
           t == storage_clearPinArea
<1>1. IsCommit(r, 0, 0, 0)  BY CommitWrites
<1>2. t \in Seq(FlashWrite) /\ Len(t) = 1 /\ t[1] = Erase("last")
  <2>1. Erase("last") \in FlashWrite  BY DEF Erase, FlashWrite, Sectors, Ones
  <2> QED  BY <2>1 DEF storage_clearPinArea
<1>3. storage_wipe = r \o t  BY DEF storage_wipe
<1> HIDE DEF r, t
<1>4. /\ r \o t \in Seq(FlashWrite) /\ Len(r \o t) = 7
      /\ \A i \in 1 .. 6 : (r \o t)[i] = r[i]
      /\ \A i \in 7 .. 7 : (r \o t)[i] = t[i - 6]
  <2>1. r \in Seq(FlashWrite) /\ Len(r) = 6  BY <1>1 DEF IsCommit
  <2>2. /\ r \o t \in Seq(FlashWrite) /\ Len(r \o t) = Len(r) + Len(t)
        /\ \A i \in 1 .. Len(r) + Len(t) :
             (r \o t)[i] = IF i <= Len(r) THEN r[i] ELSE t[i - Len(r)]
    BY ONLY <1>2, <2>1, ConcatProperties
  <2> QED  BY <1>2, <2>1, <2>2
<1>5. (r \o t)[7] = Erase("last")  BY <1>2, <1>4
<1> QED  BY <1>3, <1>4, <1>5 DEF r

\* What a list of writes may put into the mnemonic.
Mnemonics(s, K) ==
  \A i \in 1 .. Len(s) : s[i].kind = "word" /\ s[i].at = "mnemonic" => s[i].value \in K
Begun(s) == \A j \in 1 .. Len(s) : Opens(s[j]) => BegunBefore(s, 1, j)
Job(s, K) == s \in Seq(FlashWrite) /\ Ordered(s, FALSE) /\ Mnemonics(s, K)

LEMMA CommitIsJob ==
  ASSUME NEW v \in Int, NEW m \in Int, NEW c \in Int, first.meta \in Int, NEW K, m \in K
  PROVE  Job(storage_commit_locked(v, m, c), K) /\ Begun(storage_commit_locked(v, m, c))
<1> DEFINE s == storage_commit_locked(v, m, c)
<1>1. IsCommit(s, v, m, c)  BY CommitWrites
<1> HIDE DEF s
<1>2. \A i \in 1 .. 6 : i = 1 \/ i = 2 \/ i = 3 \/ i = 4 \/ i = 5 \/ i = 6  OBVIOUS
<1>3. \A i \in 1 .. 6 : ~IsErase(s[i], "last") /\ (i # 5 => s[i].kind # "word" \/ s[i].at # "mnemonic")
  BY <1>1, <1>2 DEF IsCommit, IsErase, Erase, Program
<1>4. s[5].value = m /\ IsErase(s[1], "first") /\ ~Opens(s[1])
  BY <1>1 DEF IsCommit, IsErase, Erase, Program, Opens
<1>5. Ordered(s, FALSE)  BY <1>1, <1>3 DEF Ordered, IsCommit
<1>6. Mnemonics(s, K)  BY <1>1, <1>3, <1>4 DEF Mnemonics, IsCommit
<1>7. Begun(s)
  <2> SUFFICES ASSUME NEW j \in 1 .. 6, Opens(s[j]) PROVE 1 \in 1 .. j - 1
    BY <1>1, <1>4 DEF Begun, BegunBefore, IsCommit
  <2> QED  BY <1>4
<1> QED  BY <1>1, <1>5, <1>6, <1>7 DEF Job, IsCommit, s

LEMMA WipeIsJob ==
  ASSUME first.meta \in Int, NEW K, 0 \in K
  PROVE  Job(storage_wipe, K) /\ Begun(storage_wipe)
<1> DEFINE r == storage_commit_locked(0, 0, 0)
           s == storage_wipe
<1>1. /\ IsCommit(r, 0, 0, 0) /\ Job(r, K) /\ Begun(r)
      /\ s \in Seq(FlashWrite) /\ Len(s) = 7 /\ s[7] = Erase("last")
      /\ \A i \in 1 .. 6 : s[i] = r[i]
  BY CommitWrites, WipeWrites, CommitIsJob
<1> HIDE DEF r, s
<1>2. Mnemonics(s, K)
  <2> SUFFICES ASSUME NEW i \in 1 .. 7, s[i].kind = "word", s[i].at = "mnemonic"
               PROVE  s[i].value \in K
    BY <1>1 DEF Mnemonics
  <2>1. i # 7  BY <1>1 DEF Erase
  <2> QED  BY <1>1, <2>1 DEF Job, Mnemonics, IsCommit
<1>3. Begun(s)
  <2> SUFFICES ASSUME NEW j \in 1 .. 7, Opens(s[j])
               PROVE  \E k \in 1 .. j - 1 : IsErase(s[k], "first")
    BY <1>1 DEF Begun, BegunBefore
  <2>1. j # 7  BY <1>1 DEF Erase, Opens
  <2> QED  BY <1>1, <2>1 DEF Begun, BegunBefore, IsCommit
<1>4. Ordered(s, FALSE)
  <2>1. Closes(s[4]) /\ ~Opens(s[5]) /\ ~Opens(s[6])
    BY <1>1 DEF IsCommit, Closes, Opens, Program
  <2>2. \A i \in 1 .. 6 : ~IsErase(s[i], "last")
    <3>1. \A i \in 1 .. 6 : i = 1 \/ i = 2 \/ i = 3 \/ i = 4 \/ i = 5 \/ i = 6  OBVIOUS
    <3> QED  BY <1>1, <3>1 DEF IsCommit, IsErase, Erase, Program
  <2>3. ClosedBefore(s, 7, FALSE)
    <3>1. \A k \in 4 + 1 .. 7 - 1 : ~Opens(s[k])  BY <2>1
    <3>2. 4 \in 1 .. 7 - 1  OBVIOUS
    <3> QED  BY <2>1, <3>1, <3>2 DEF ClosedBefore
  <2> SUFFICES ASSUME NEW i \in 1 .. 7, IsErase(s[i], "last")
               PROVE  /\ ClosedBefore(s, i, FALSE)
                      /\ \A j \in i + 1 .. 7 : Opens(s[j]) => BegunBefore(s, i + 1, j)
    BY <1>1 DEF Ordered
  <2>4. i = 7  BY <2>2
  <2>5. ~ \E j \in 7 + 1 .. 7 : TRUE  OBVIOUS
  <2> QED  BY <2>3, <2>4, <2>5
<1> QED  BY <1>1, <1>2, <1>3, <1>4 DEF Job, s

\* storage_nextU2FCounter: the area is only erased when the record has lost its magic.
LEMMA CounterIsJob ==
  ASSUME NEW o \in Nat
  PROVE  CounterWrite(o) \in FlashWrite /\ CounterWrite(o).kind = "bits"
<1>1. o \div WordBits \in Nat /\ 0 .. o % WordBits \subseteq Nat  BY StorageAssumption
<1> QED  BY <1>1 DEF CounterWrite, ClearBits, FlashWrite

LEMMA Prepended ==
  ASSUME NEW w \in FlashWrite, NEW u \in Seq(FlashWrite)
  PROVE  /\ <<w>> \o u \in Seq(FlashWrite) /\ Len(<<w>> \o u) = 1 + Len(u)
         /\ \A i \in 1 .. 1 + Len(u) : (<<w>> \o u)[i] = IF i <= 1 THEN w ELSE u[i - 1]
<1> DEFINE v == <<w>>
<1>1. v \in Seq(FlashWrite) /\ Len(v) = 1 /\ v[1] = w  OBVIOUS
<1> HIDE DEF v
<1>2. /\ v \o u \in Seq(FlashWrite) /\ Len(v \o u) = Len(v) + Len(u)
      /\ \A i \in 1 .. Len(v) + Len(u) :
           (v \o u)[i] = IF i <= Len(v) THEN v[i] ELSE u[i - Len(v)]
  BY ONLY <1>1, ConcatProperties, u \in Seq(FlashWrite)
<1>3. \A i \in 1 .. 1 : i = 1  OBVIOUS
<1>4. \A i \in 1 .. 1 + Len(u) : (v \o u)[i] = IF i <= 1 THEN w ELSE u[i - 1]
  BY <1>1, <1>2, <1>3
<1> QED  BY <1>1, <1>2, <1>4 DEF v

\* A single write of bits.
LEMMA WriteIsJob ==
  ASSUME NEW w \in FlashWrite, w.kind = "bits", NEW K
  PROVE  Job(<<w>> \o <<>>, K)
<1> DEFINE s == <<w>> \o <<>>
<1>1. /\ s \in Seq(FlashWrite) /\ Len(s) = 1 + 0
      /\ \A i \in 1 .. 1 + 0 : s[i] = IF i <= 1 THEN w ELSE <<>>[i - 1]
  <2>1. <<>> \in Seq(FlashWrite) /\ Len(<<>>) = 0  BY EmptySeq
  <2> QED  BY <2>1, Prepended
<1> HIDE DEF s
<1>2. \A i \in 1 .. Len(s) : s[i] = w  BY <1>1
<1>3. w # Erase("last")  BY DEF Erase
<1> QED  BY <1>1, <1>2, <1>3 DEF Job, Ordered, Mnemonics, IsErase, s

\* The writes of a recycling, one by one.
Recycling(r) == ClearMarker \o <<Erase("last")>> \o r
IsRecycling(u, r) ==
  /\ u \in Seq(FlashWrite) /\ Len(u) = 8
  /\ u[1] = Program("magic", 0) /\ u[2] = Erase("last")
  /\ \A i \in 3 .. 8 : u[i] = r[i - 2]

LEMMA RecycleWrites ==
  ASSUME NEW m \in Int, NEW c \in Int, NEW r, IsCommit(r, Current, m, c)
  PROVE  IsRecycling(Recycling(r), r)
<1> DEFINE t == ClearMarker \o <<Erase("last")>>
<1>1. /\ t \in Seq(FlashWrite) /\ Len(t) = 2
      /\ t[1] = Program("magic", 0) /\ t[2] = Erase("last")
  <2>1. Erase("last") \in FlashWrite /\ Program("magic", 0) \in FlashWrite
    BY DEF Erase, Program, FlashWrite, Sectors, Ones, Words
  <2>2. t = <<Program("magic", 0)>> \o <<Erase("last")>>  BY DEF ClearMarker
  <2>3. <<Erase("last")>> \in Seq(FlashWrite) /\ Len(<<Erase("last")>>) = 1
        /\ <<Erase("last")>>[1] = Erase("last")
    BY <2>1
  <2> DEFINE e == <<Erase("last")>>  p == Program("magic", 0)
  <2> HIDE DEF e, t
  <2>4. /\ <<p>> \o e \in Seq(FlashWrite) /\ Len(<<p>> \o e) = 1 + Len(e)
        /\ \A i \in 1 .. 1 + Len(e) : (<<p>> \o e)[i] = IF i <= 1 THEN p ELSE e[i - 1]
    BY ONLY <2>1, <2>3, Prepended DEF e
  <2>5. Len(e) = 1 /\ e[1] = Erase("last") /\ t = <<p>> \o e  BY <2>2, <2>3 DEF e
  <2> HIDE DEF p
  <2>6. t \in Seq(FlashWrite) /\ Len(t) = 2 /\ t[1] = p /\ t[2] = Erase("last")
    BY <2>4, <2>5
  <2> QED  BY <2>6 DEF p
<1> HIDE DEF t
<1>2. Recycling(r) = t \o r  BY DEF t, Recycling
<1>3. r \in Seq(FlashWrite) /\ Len(r) = 6  BY DEF IsCommit
<1>4. /\ t \o r \in Seq(FlashWrite) /\ Len(t \o r) = Len(t) + Len(r)
      /\ \A i \in 1 .. Len(t) + Len(r) :
           (t \o r)[i] = IF i <= Len(t) THEN t[i] ELSE r[i - Len(t)]
  BY ONLY <1>1, <1>3, ConcatProperties
<1>5. /\ t \o r \in Seq(FlashWrite) /\ Len(t \o r) = 8
      /\ (t \o r)[1] = Program("magic", 0) /\ (t \o r)[2] = Erase("last")
      /\ \A i \in 3 .. 8 : (t \o r)[i] = r[i - 2]
  BY ONLY <1>1, <1>3, <1>4
<1> QED  BY ONLY <1>2, <1>5 DEF IsRecycling

\* The area is recycled after the write of the counter: a marker, the erasure, a commit.
LEMMA RecycleIsJob ==
  ASSUME NEW w \in FlashWrite, w.kind = "bits", NEW m \in Int, NEW c \in Int, first.meta \in Int,
         NEW K, m \in K
  PROVE  Job(<<w>> \o (ClearMarker \o <<Erase("last")>> \o storage_commit_locked(Current, m, c)), K)
<1> DEFINE r == storage_commit_locked(Current, m, c)
           t == ClearMarker \o <<Erase("last")>>
           u == t \o r
           s == <<w>> \o u
<1>1. IsCommit(r, Current, m, c) /\ Job(r, K)
  BY CommitWrites, CommitIsJob DEF Current
<1> HIDE DEF r, t
<1>3. /\ u \in Seq(FlashWrite) /\ Len(u) = 8
      /\ u[1] = Program("magic", 0) /\ u[2] = Erase("last")
      /\ \A i \in 3 .. 8 : u[i] = r[i - 2]
  <2>1. u = Recycling(r)  BY DEF t, Recycling
  <2>2. IsRecycling(Recycling(r), r)  BY <1>1, RecycleWrites
  <2> QED  BY ONLY <2>1, <2>2 DEF IsRecycling
<1> HIDE DEF u
<1>4. /\ s \in Seq(FlashWrite) /\ Len(s) = 9
      /\ s[1] = w /\ s[2] = Program("magic", 0) /\ s[3] = Erase("last")
      /\ \A i \in 4 .. 9 : s[i] = r[i - 3]
  <2>1. s \in Seq(FlashWrite) /\ Len(s) = 1 + Len(u)
        /\ \A i \in 1 .. 1 + Len(u) : s[i] = IF i <= 1 THEN w ELSE u[i - 1]
    BY <1>3, Prepended
  <2> HIDE DEF s
  <2>4. s \in Seq(FlashWrite) /\ Len(s) = 9 /\ \A i \in 2 .. 9 : s[i] = u[i - 1]
    BY <1>3, <2>1
  <2>5. s[1] = w  BY <1>3, <2>1
  <2>6. \A i \in 4 .. 9 : s[i] = r[i - 3]
    <3>1. \A i \in 4 .. 9 : i - 1 \in 3 .. 8 /\ i - 1 - 2 = i - 3  OBVIOUS
    <3> QED  BY <1>3, <2>4, <3>1
  <2> QED  BY <1>3, <2>4, <2>5, <2>6
<1> HIDE DEF s
<1>5. ~ IsErase(s[1], "last") /\ s[1].kind # "word" /\ s[2].at # "mnemonic" /\ s[3].kind # "word"
      /\ Closes(s[2]) /\ ~IsErase(s[2], "last")
  BY <1>4 DEF IsErase, Program, Erase, Closes, Opens
<1>6. Mnemonics(s, K)
  <2> SUFFICES ASSUME NEW i \in 1 .. 9, s[i].kind = "word", s[i].at = "mnemonic"
               PROVE  s[i].value \in K
    BY <1>4 DEF Mnemonics
  <2>1. i \in 4 .. 9  BY <1>5
  <2>2. i - 3 \in 1 .. 6 /\ s[i] = r[i - 3]  BY <1>4, <2>1
  <2> QED  BY <1>1, <2>2 DEF Job, Mnemonics, IsCommit
<1>7. Ordered(s, FALSE)
  <2> SUFFICES ASSUME NEW i \in 1 .. 9, IsErase(s[i], "last")
               PROVE  /\ ClosedBefore(s, i, FALSE)
                      /\ \A j \in i + 1 .. 9 : Opens(s[j]) => BegunBefore(s, i + 1, j)
    BY <1>4 DEF Ordered
  <2>1. \A k \in 4 .. 9 : ~IsErase(s[k], "last")
    <3>1. \A k \in 1 .. 6 : ~IsErase(r[k], "last")
      <4>1. \A k \in 1 .. 6 : k = 1 \/ k = 2 \/ k = 3 \/ k = 4 \/ k = 5 \/ k = 6  OBVIOUS
      <4> QED  BY <1>1, <4>1 DEF IsCommit, IsErase, Erase, Program
    <3>2. \A k \in 4 .. 9 : k - 3 \in 1 .. 6  OBVIOUS
    <3> QED  BY <1>4, <3>1, <3>2
  <2>2. i = 3  BY <1>5, <2>1
  <2>3. ClosedBefore(s, 3, FALSE)
    <3>1. 2 \in 1 .. 3 - 1 /\ \A k \in 2 + 1 .. 3 - 1 : ~Opens(s[k])  OBVIOUS
    <3> QED  BY <1>5, <3>1 DEF ClosedBefore
  <2>4. IsErase(s[4], "first") /\ ~Opens(s[4])
    BY <1>1, <1>4 DEF IsCommit, IsErase, Erase, Opens
  <2>5. ASSUME NEW j \in 3 + 1 .. 9, Opens(s[j])
        PROVE  BegunBefore(s, 3 + 1, j)
    <3>1. 4 \in 3 + 1 .. j - 1  BY <2>4, <2>5
    <3> QED  BY <2>4, <3>1 DEF BegunBefore
  <2> QED  BY <2>2, <2>3, <2>5
<1> QED  BY <1>4, <1>6, <1>7 DEF Job, s, u, r, t

-----------------------------------------------------------------------------
(* The invariant.                                                          *)

RecordTypes ==
  /\ running \in BOOLEAN /\ first \in [Words -> Int] /\ todo \in Seq(FlashWrite)
  /\ offset \in Nat /\ seeds \in Nat /\ (todo # <<>> => running)
\* What the record holds, or will, is kept.
KeptInv ==
  /\ first.mnemonic \in kept \cup {Ones, 0}
  /\ running \/ Accepted => first.mnemonic \in kept \cup {Ones}
  /\ Mnemonics(todo, kept \cup {Ones})
\* The area is erased only under a record that is refused until it is begun anew.
OrderInv ==
  /\ Ordered(todo, ~Accepted)
  /\ overErased => ~Accepted /\ Begun(todo)
RecordInv == RecordTypes /\ KeptInv /\ OrderInv

\* The list after its first write.
LEMMA NextWrites ==
  ASSUME NEW s \in Seq(FlashWrite), s # <<>>
  PROVE  /\ Head(s) \in FlashWrite /\ Head(s) = s[1] /\ Len(s) \in Nat \ {0}
         /\ Tail(s) \in Seq(FlashWrite) /\ Len(Tail(s)) = Len(s) - 1
         /\ \A i \in 1 .. Len(Tail(s)) : Tail(s)[i] = s[i + 1]
<1>1. /\ Head(s) \in FlashWrite /\ Tail(s) \in Seq(FlashWrite) /\ Len(Tail(s)) = Len(s) - 1
      /\ \A i \in 1 .. Len(Tail(s)) : Tail(s)[i] = s[i + 1]
  BY HeadTailProperties
<1>2. Head(s) = s[1] /\ Len(s) \in Nat \ {0}  BY EmptySeq
<1> QED  BY <1>1, <1>2

\* What a write does to the record.
LEMMA WriteDoes ==
  ASSUME RecordTypes, NEW w \in FlashWrite, Write(w)
  PROVE  /\ first' \in [Words -> Int]
         /\ (~Opens(w) /\ ~Accepted => ~Accepted')
         /\ (Closes(w) => ~Accepted')
         /\ first'.mnemonic \in {first.mnemonic, Ones} \/
            (w.kind = "word" /\ w.at = "mnemonic" /\ first'.mnemonic = w.value)
         /\ overErased' => (overErased \/ w = Erase("last")) /\ w # Erase("first")
         /\ w = Erase("last") => UNCHANGED first
<1>1. CASE w = Erase("first")
  <2>1. first' = [v \in Words |-> Ones]  BY <1>1 DEF Write, Erase
  <2>2. ~Accepted'  BY <2>1 DEF Accepted, Words, Ones, Stor, Current
  <2>3. first' \in [Words -> Int] /\ first'.mnemonic = Ones  BY <2>1 DEF Words, Ones
  <2>4. w.kind = "erase" /\ w.at = "first"  BY <1>1 DEF Erase
  <2>5. overErased' = FALSE  BY <2>4 DEF Write
  <2>6. w # Erase("last")  BY <2>4 DEF Erase
  <2> QED  BY <2>2, <2>3, <2>5, <2>6
<1>2. CASE w # Erase("first") /\ w.kind = "word"
  <2>1. first' = [first EXCEPT ![w.at] = w.value] /\ w.at \in Words /\ w.value \in Int
    BY <1>2 DEF Write, FlashWrite
  <2>2. w # Erase("last") /\ overErased' = overErased  BY <1>2 DEF Write, Erase
  <2>3. first' \in [Words -> Int]  BY <2>1 DEF RecordTypes
  <2>4. w.at \notin {"magic", "version"} => (Accepted' <=> Accepted)
    BY <2>1 DEF RecordTypes, Accepted, Words
  <2>5. Closes(w) => ~Accepted'
    BY <2>1 DEF RecordTypes, Accepted, Words, Closes, Opens, Stor, Current
  <2>6. first'.mnemonic = IF w.at = "mnemonic" THEN w.value ELSE first.mnemonic
    BY <2>1 DEF RecordTypes, Words
  <2> QED  BY <1>2, <2>2, <2>3, <2>4, <2>5, <2>6 DEF Opens, Closes
<1>3. CASE w # Erase("first") /\ w.kind # "word"
  <2>0. ~(w.kind = "erase" /\ w.at = "first")  BY <1>3 DEF FlashWrite, Erase
  <2>1. first' = first  BY <1>3, <2>0 DEF Write
  <2>2. ~Opens(w) /\ ~Closes(w)  BY <1>3 DEF Opens, Closes
  <2>3. w.kind = "erase" /\ w.at = "last" => w = Erase("last")
    BY DEF FlashWrite, Erase
  <2>4. overErased' => (overErased \/ w = Erase("last"))  BY <2>3 DEF Write
  <2>5. Accepted' = Accepted /\ first' \in [Words -> Int]
    BY <2>1 DEF RecordTypes, Accepted
  <2> QED  BY <1>3, <2>1, <2>2, <2>4, <2>5
<1> QED  BY <1>1, <1>2, <1>3

\* The order survives a write ...
LEMMA OrderAfter ==
  ASSUME NEW s \in Seq(FlashWrite), s # <<>>, NEW c \in BOOLEAN, NEW d \in BOOLEAN, Ordered(s, c),
         c /\ ~Opens(Head(s)) => d, Closes(Head(s)) => d
  PROVE  Ordered(Tail(s), d)
<1> DEFINE t == Tail(s)
<1>1. /\ Head(s) = s[1] /\ Len(s) \in Nat \ {0} /\ Len(t) = Len(s) - 1
      /\ \A i \in 1 .. Len(t) : t[i] = s[i + 1]
  BY NextWrites
<1> HIDE DEF t
<1> SUFFICES ASSUME NEW i \in 1 .. Len(t), IsErase(t[i], "last")
             PROVE  /\ ClosedBefore(t, i, d)
                    /\ \A j \in i + 1 .. Len(t) : Opens(t[j]) => BegunBefore(t, i + 1, j)
  BY DEF Ordered, t
<1>2. /\ i + 1 \in 1 .. Len(s) /\ IsErase(s[i + 1], "last")
      /\ ClosedBefore(s, i + 1, c)
      /\ \A j \in i + 2 .. Len(s) : Opens(s[j]) => BegunBefore(s, i + 2, j)
  BY <1>1 DEF Ordered
<1>3. ClosedBefore(t, i, d)
  <2>1. CASE c /\ \A k \in 1 .. i : ~Opens(s[k])
    <3>1. ~Opens(s[1]) /\ \A k \in 1 .. i - 1 : ~Opens(t[k])  BY <1>1, <2>1
    <3> QED  BY <1>1, <2>1, <3>1 DEF ClosedBefore
  <2>2. CASE \E j \in 1 .. i : Closes(s[j]) /\ \A k \in j + 1 .. i : ~Opens(s[k])
    <3>1. PICK j \in 1 .. i : Closes(s[j]) /\ \A k \in j + 1 .. i : ~Opens(s[k])  BY <2>2
    <3>2. CASE j = 1
      <4>1. \A k \in 1 .. i - 1 : ~Opens(t[k])  BY <1>1, <3>1, <3>2
      <4> QED  BY <1>1, <3>1, <3>2, <4>1 DEF ClosedBefore
    <3>3. CASE j # 1
      <4>1. j - 1 \in 1 .. i - 1 /\ Closes(t[j - 1])
        <5>1. j - 1 \in 1 .. i - 1 /\ j - 1 \in 1 .. Len(t) /\ (j - 1) + 1 = j
          BY <1>1, <3>3
        <5> QED  BY <1>1, <3>1, <5>1
      <4>2. ASSUME NEW k \in (j - 1) + 1 .. i - 1
            PROVE  ~Opens(t[k])
        <5>1. k \in 1 .. Len(t) /\ k + 1 \in j + 1 .. i  BY <1>1
        <5> QED  BY <1>1, <3>1, <5>1
      <4> QED  BY <4>1, <4>2 DEF ClosedBefore
    <3> QED  BY <3>2, <3>3
  <2>3. 1 .. (i + 1) - 1 = 1 .. i /\ \A j \in 1 .. i : j + 1 .. (i + 1) - 1 = j + 1 .. i
    OBVIOUS
  <2> QED  BY <1>2, <2>1, <2>2, <2>3 DEF ClosedBefore
<1>4. ASSUME NEW j \in i + 1 .. Len(t), Opens(t[j])
      PROVE  BegunBefore(t, i + 1, j)
  <2>1. j + 1 \in i + 2 .. Len(s) /\ Opens(s[j + 1])  BY <1>1, <1>4
  <2>2. PICK k \in i + 2 .. j : IsErase(s[k], "first")  BY <1>2, <2>1 DEF BegunBefore
  <2>3. k - 1 \in i + 1 .. j - 1 /\ t[k - 1] = s[k]  BY <1>1, <1>4, <2>2
  <2> QED  BY <2>2, <2>3 DEF BegunBefore
<1> QED  BY <1>3, <1>4

\* ... and a record that is to be begun anew is so until then.
LEMMA BegunAfter ==
  ASSUME NEW s \in Seq(FlashWrite), s # <<>>, Begun(s), Head(s) # Erase("first")
  PROVE  Begun(Tail(s)) /\ ~Opens(Head(s))
<1>1. /\ Head(s) = s[1] /\ Len(s) \in Nat \ {0} /\ Len(Tail(s)) = Len(s) - 1
      /\ \A i \in 1 .. Len(Tail(s)) : Tail(s)[i] = s[i + 1]
  BY NextWrites
<1>2. ~Opens(s[1])
  <2>1. ~BegunBefore(s, 1, 1)  BY DEF BegunBefore
  <2> QED  BY <1>1, <2>1 DEF Begun
<1>3. ASSUME NEW j \in 1 .. Len(Tail(s)), Opens(Tail(s)[j])
      PROVE  BegunBefore(Tail(s), 1, j)
  <2>1. j + 1 \in 1 .. Len(s) /\ Opens(s[j + 1])  BY <1>1, <1>3
  <2>2. PICK k \in 1 .. j : IsErase(s[k], "first")  BY <2>1 DEF Begun, BegunBefore
  <2>3. k # 1  BY <1>1, <2>2 DEF IsErase
  <2>4. k - 1 \in 1 .. j - 1 /\ Tail(s)[k - 1] = s[k]  BY <1>1, <1>3, <2>2, <2>3
  <2> QED  BY <2>2, <2>4 DEF BegunBefore
<1> QED  BY <1>1, <1>2, <1>3 DEF Begun

\* The erasure of the area leaves a refused record that is to be begun anew.
LEMMA BegunAfterErase ==
  ASSUME NEW s \in Seq(FlashWrite), s # <<>>, NEW c \in BOOLEAN, Ordered(s, c),
         Head(s) = Erase("last")
  PROVE  c /\ Begun(Tail(s))
<1>1. /\ Head(s) = s[1] /\ Len(s) \in Nat \ {0} /\ Len(Tail(s)) = Len(s) - 1
      /\ \A i \in 1 .. Len(Tail(s)) : Tail(s)[i] = s[i + 1]
  BY NextWrites
<1>2. /\ ClosedBefore(s, 1, c)
      /\ \A j \in 2 .. Len(s) : Opens(s[j]) => BegunBefore(s, 2, j)
  BY <1>1 DEF Ordered, IsErase
<1>3. c  BY <1>2 DEF ClosedBefore
<1>4. ASSUME NEW j \in 1 .. Len(Tail(s)), Opens(Tail(s)[j])
      PROVE  BegunBefore(Tail(s), 1, j)
  <2>1. j + 1 \in 2 .. Len(s) /\ Opens(s[j + 1])  BY <1>1, <1>4
  <2>2. PICK k \in 2 .. j : IsErase(s[k], "first")  BY <1>2, <2>1 DEF BegunBefore
  <2>3. k - 1 \in 1 .. j - 1 /\ Tail(s)[k - 1] = s[k]  BY <1>1, <1>4, <2>2
  <2> QED  BY <2>2, <2>3 DEF BegunBefore
<1> QED  BY <1>3, <1>4 DEF Begun

LEMMA MnemonicsAfter ==
  ASSUME NEW s \in Seq(FlashWrite), s # <<>>, NEW K, Mnemonics(s, K)
  PROVE  /\ Mnemonics(Tail(s), K)
         /\ Head(s).kind = "word" /\ Head(s).at = "mnemonic" => Head(s).value \in K
<1>1. /\ Head(s) = s[1] /\ Len(s) \in Nat \ {0} /\ Len(Tail(s)) = Len(s) - 1
      /\ \A i \in 1 .. Len(Tail(s)) : Tail(s)[i] = s[i + 1]
  BY NextWrites
<1>2. \A i \in 1 .. Len(Tail(s)) : i + 1 \in 1 .. Len(s)  BY <1>1
<1> QED  BY <1>1, <1>2 DEF Mnemonics

-----------------------------------------------------------------------------
(* The invariant is inductive.                                             *)

LEMMA InitRecord == Init => RecordInv
<1> SUFFICES ASSUME Init PROVE RecordInv  OBVIOUS
<1>1. ~Accepted  BY DEF Init, Accepted, ZeroedFirst, Words, Stor
<1>2. RecordTypes
  <2>1. first \in [Words -> Int]  BY DEF Init, ZeroedFirst
  <2>2. <<>> \in Seq(FlashWrite)  BY EmptySeq
  <2> QED  BY <2>1, <2>2 DEF Init, RecordTypes
<1>3. todo = <<>> /\ ~overErased /\ ~running  BY DEF Init
<1>5. first.mnemonic = 0  BY DEF Init, ZeroedFirst, Words
<1>4. Mnemonics(<<>>, kept \cup {Ones}) /\ Ordered(<<>>, ~Accepted)
  BY EmptySeq DEF Mnemonics, Ordered
<1> QED  BY <1>1, <1>2, <1>3, <1>4, <1>5 DEF RecordInv, KeptInv, OrderInv

LEMMA StepKeepsRecord ==
  ASSUME RecordInv, Step
  PROVE  RecordInv'
<1> DEFINE w == Head(todo)
           K == kept \cup {Ones}
<1>1. /\ running /\ todo # <<>> /\ todo \in Seq(FlashWrite) /\ running' = running
      /\ offset' = offset /\ seeds' = seeds /\ Write(w) /\ todo' = Tail(todo)
      /\ kept' = IF Tail(todo) = <<>> THEN {first'.mnemonic} ELSE kept
  BY DEF Step, RecordInv, RecordTypes
<1>2. w \in FlashWrite /\ Tail(todo) \in Seq(FlashWrite)  BY <1>1, NextWrites
<1>3. /\ first' \in [Words -> Int]
      /\ (~Opens(w) /\ ~Accepted => ~Accepted')
      /\ (Closes(w) => ~Accepted')
      /\ first'.mnemonic \in {first.mnemonic, Ones} \/
         (w.kind = "word" /\ w.at = "mnemonic" /\ first'.mnemonic = w.value)
      /\ overErased' => (overErased \/ w = Erase("last")) /\ w # Erase("first")
      /\ w = Erase("last") => UNCHANGED first
  BY <1>1, <1>2, WriteDoes DEF RecordInv
<1>4. RecordTypes'
  BY <1>1, <1>2, <1>3 DEF RecordInv, RecordTypes
<1>5. KeptInv'
  <2>1. CASE Tail(todo) = <<>>
    <3>1. Mnemonics(<<>>, kept' \cup {Ones})  BY EmptySeq DEF Mnemonics
    <3> QED  BY <1>1, <2>1, <3>1 DEF KeptInv
  <2>2. CASE Tail(todo) # <<>>
    <3>1. Mnemonics(Tail(todo), K)
          /\ (w.kind = "word" /\ w.at = "mnemonic" => w.value \in K)
      BY <1>1, MnemonicsAfter DEF RecordInv, KeptInv
    <3>2. first.mnemonic \in K  BY <1>1 DEF RecordInv, KeptInv
    <3>3. first'.mnemonic \in K  BY <1>3, <3>1, <3>2
    <3> QED  BY <1>1, <2>2, <3>1, <3>3 DEF KeptInv
  <2> QED  BY <2>1, <2>2
<1>6. OrderInv'
  <2>1. Ordered(Tail(todo), ~Accepted')
    <3>1. (~Accepted) \in BOOLEAN /\ (~Accepted') \in BOOLEAN  BY DEF Accepted
    <3>2. Ordered(todo, ~Accepted)  BY DEF RecordInv, OrderInv
    <3> QED  BY <1>1, <1>3, <3>1, <3>2, OrderAfter
  <2>2. ASSUME overErased' PROVE ~Accepted' /\ Begun(Tail(todo))
    <3>1. CASE w = Erase("last")
      <4>1. ~Accepted /\ Begun(Tail(todo))
        <5>1. (~Accepted) \in BOOLEAN  BY DEF Accepted
        <5>2. Ordered(todo, ~Accepted)  BY DEF RecordInv, OrderInv
        <5> QED  BY <1>1, <3>1, <5>1, <5>2, BegunAfterErase
      <4> QED  BY <1>3, <3>1, <4>1 DEF Accepted
    <3>2. CASE overErased /\ w # Erase("first")
      <4>1. ~Accepted /\ Begun(todo)  BY <3>2 DEF RecordInv, OrderInv
      <4>2. Begun(Tail(todo)) /\ ~Opens(w)  BY <1>1, <3>2, <4>1, BegunAfter
      <4> QED  BY <1>3, <4>1, <4>2
    <3> QED  BY <1>3, <2>2, <3>1, <3>2
  <2> QED  BY <1>1, <2>1, <2>2 DEF OrderInv
<1> QED  BY <1>4, <1>5, <1>6 DEF RecordInv

LEMMA BeginKeepsRecord ==
  ASSUME RecordInv, NEW writes, NEW reply, NEW mnemonics, Begin(writes, reply, mnemonics),
         Job(writes, kept \cup mnemonics \cup {Ones}), overErased => Begun(writes),
         offset' \in Nat, seeds' \in Nat
  PROVE  RecordInv'
<1>1. /\ running /\ running' = running /\ UNCHANGED <<first, overErased>>
      /\ todo' = writes /\ kept' = kept \cup mnemonics
  BY DEF Begin, flash
<1>2. RecordTypes'  BY <1>1 DEF RecordInv, RecordTypes, Job
<1>3. KeptInv'  BY <1>1 DEF RecordInv, KeptInv, Job
<1>4. Accepted' = Accepted  BY <1>1 DEF Accepted
<1>5. Ordered(writes, ~Accepted)
  <2>1. \A i : ClosedBefore(writes, i, FALSE) => ClosedBefore(writes, i, ~Accepted)
    BY DEF ClosedBefore
  <2> QED  BY <2>1 DEF Job, Ordered
<1> QED  BY <1>1, <1>2, <1>3, <1>4, <1>5 DEF RecordInv, OrderInv

\* A commit of a mnemonic that is kept or new.
LEMMA CommitKeepsRecord ==
  ASSUME RecordInv, NEW m \in Int, NEW c \in Int, NEW reply, NEW mnemonics,
         m \in kept \cup mnemonics \cup {Ones},
         Begin(storage_commit_locked(Current, m, c), reply, mnemonics),
         offset' \in Nat, seeds' \in Nat
  PROVE  RecordInv'
<1>1. first.meta \in Int /\ Current \in Int  BY DEF RecordInv, RecordTypes, Words, Current
<1>2. /\ Job(storage_commit_locked(Current, m, c), kept \cup mnemonics \cup {Ones})
      /\ Begun(storage_commit_locked(Current, m, c))
  BY <1>1, CommitIsJob
<1> QED  BY <1>2, BeginKeepsRecord

LEMMA ActionsKeepRecord ==
  ASSUME RecordInv, [Next]_vars
  PROVE  RecordInv'
<1>1. /\ first.meta \in Int /\ first.counter \in Int /\ first.mnemonic \in Int
      /\ offset \in Nat /\ seeds \in Nat /\ CounterMod \in Nat \ {0} /\ Ones \in Int
  BY StorageAssumption DEF RecordInv, RecordTypes, Words, Ones
<1>2. ASSUME NEW reply, NEW c \in Int,
             seeds' = seeds + 1, offset' = offset,
             Begin(storage_commit_locked(Current, MnemonicToCommit(seeds + 1), c), reply, {seeds + 1})
      PROVE  RecordInv'
  <2> DEFINE m == MnemonicToCommit(seeds + 1)
  <2>1. m = seeds + 1 /\ m \in Int  BY <1>1 DEF MnemonicToCommit, Ones
  <2> HIDE DEF m
  <2>2. Begin(storage_commit_locked(Current, m, c), reply, {m})  BY <1>2, <2>1 DEF m
  <2>3. m \in kept \cup {m} \cup {Ones} /\ offset' \in Nat /\ seeds' \in Nat  BY <1>1, <1>2
  <2> QED  BY <2>1, <2>2, <2>3, <1>2, CommitKeepsRecord
<1>3. ASSUME NEW reply, NEW c \in Int,
             seeds' = seeds, offset' \in Nat,
             Begin(storage_commit_locked(Current, MnemonicToCommit(Ones), c), reply, {})
      PROVE  RecordInv'
  <2> DEFINE m == MnemonicToCommit(Ones)
  <2>1. m = first.mnemonic  BY DEF MnemonicToCommit
  <2>2. running  BY <1>3 DEF Begin
  <2>3. m \in Int /\ m \in kept \cup {} \cup {Ones}
    BY <1>1, <2>1, <2>2 DEF RecordInv, KeptInv
  <2> HIDE DEF m
  <2>4. Begin(storage_commit_locked(Current, m, c), reply, {})  BY <1>3 DEF m
  <2> QED  BY <1>1, <1>3, <2>3, <2>4, CommitKeepsRecord
<1>4. ASSUME NEW counter \in Int PROVE BaseOf(counter) \in Int
  BY <1>1 DEF BaseOf
<1>5. CASE Step  BY <1>5, StepKeepsRecord
<1>6. ASSUME NEW reply, StoreSeed(reply), reply.set => reply.value \in Int
      PROVE  RecordInv'
  <2> DEFINE c == IF reply.set THEN BaseOf(reply.value) ELSE first.counter
  <2>1. c \in Int  BY <1>1, <1>4, <1>6
  <2> HIDE DEF c
  <2>2. /\ seeds' = seeds + 1 /\ offset' = offset
        /\ Begin(storage_commit_locked(Current, MnemonicToCommit(seeds + 1), c), reply, {seeds + 1})
    BY <1>6 DEF StoreSeed, c
  <2> QED  BY <1>2, <2>1, <2>2
<1>7. CASE StoreSettings
  BY <1>1, <1>3, <1>7 DEF StoreSettings
<1>8. ASSUME NEW counter \in SetCounters, SetU2FCounter(counter)
      PROVE  RecordInv'
  <2>1. BaseOf(counter) \in Int  BY <1>4, StorageAssumption
  <2> QED  BY <1>1, <1>3, <1>8, <2>1 DEF SetU2FCounter
<1>9. CASE WipeDevice
  <2>1. Job(storage_wipe, kept \cup {0} \cup {Ones}) /\ Begun(storage_wipe)
    BY <1>1, WipeIsJob
  <2>2. Begin(storage_wipe, SetTo(0), {0}) /\ offset' \in Nat /\ seeds' \in Nat
    BY <1>1, <1>9 DEF WipeDevice
  <2> QED  BY <2>1, <2>2, BeginKeepsRecord
<1>10. CASE storage_nextU2FCounter
  <2> DEFINE o == offset + 1
             w == CounterWrite(offset)
             writes == <<w>> \o (IF IsFull(o) THEN storage_area_recycle(o) ELSE <<>>)
             K == kept \cup {} \cup {Ones}
  <2>1. w \in FlashWrite /\ w.kind = "bits"  BY <1>1, CounterIsJob
  <2>2. \E reply : Begin(writes, reply, {})
    BY <1>10 DEF storage_nextU2FCounter
  <2>3. Accepted /\ running /\ offset' = OffsetAfter(o) /\ seeds' = seeds
    BY <1>10 DEF storage_nextU2FCounter, Begin
  <2>4. ~overErased  BY <2>3 DEF RecordInv, OrderInv
  <2>5. offset' \in Nat /\ seeds' \in Nat  BY <1>1, <2>3 DEF OffsetAfter
  <2> HIDE DEF w
  <2>6. CASE IsFull(o)
    <3>1. MnemonicToCommit(Ones) = first.mnemonic  BY DEF MnemonicToCommit
    <3>2. first.mnemonic \in K  BY <2>3 DEF RecordInv, KeptInv
    <3>3. writes = <<w>> \o (ClearMarker \o <<Erase("last")>>
                             \o storage_commit_locked(Current, first.mnemonic, o))
      BY <2>6, <3>1 DEF storage_area_recycle
    <3>4. o \in Int  BY <1>1
    <3> HIDE DEF o, K, writes
    <3>5. Job(writes, K)  BY <1>1, <2>1, <3>2, <3>3, <3>4, RecycleIsJob
    <3> QED  BY <2>2, <2>4, <2>5, <3>5, BeginKeepsRecord DEF K
  <2>7. CASE ~IsFull(o)
    <3>1. writes = <<w>> \o <<>>  BY <2>7
    <3> HIDE DEF K, writes
    <3>2. Job(writes, K)  BY <2>1, <3>1, WriteIsJob
    <3> QED  BY <2>2, <2>4, <2>5, <3>2, BeginKeepsRecord DEF K
  <2> QED  BY <2>6, <2>7
<1>11. CASE PowerLoss
  <2>1. Mnemonics(<<>>, kept \cup {Ones}) /\ Ordered(<<>>, ~Accepted) /\ Begun(<<>>)
        /\ <<>> \in Seq(FlashWrite)
    BY EmptySeq DEF Mnemonics, Ordered, Begun
  <2>2. /\ running' = FALSE /\ todo' = <<>> /\ offset' = 0
        /\ UNCHANGED <<first, overErased, kept, seeds>>
    BY <1>11 DEF PowerLoss, flash
  <2>3. Accepted' = Accepted  BY <2>2 DEF Accepted
  <2> QED  BY <2>1, <2>2, <2>3 DEF RecordInv, RecordTypes, KeptInv, OrderInv
<1>12. CASE Upload
  <2>1. /\ ~running /\ first' = ZeroedFirst
        /\ UNCHANGED <<running, offset, todo, kept, overErased, seeds>>
    BY <1>12 DEF Upload
  <2>2. first' \in [Words -> Int] /\ first'.mnemonic = 0 /\ ~Accepted'
    BY <2>1 DEF ZeroedFirst, Words, Accepted, Stor
  <2>3. todo = <<>>  BY <2>1 DEF RecordInv, RecordTypes
  <2>4. Mnemonics(<<>>, kept \cup {Ones}) /\ Ordered(<<>>, ~Accepted') /\ Begun(<<>>)
    BY EmptySeq DEF Mnemonics, Ordered, Begun
  <2> QED  BY <2>1, <2>2, <2>3, <2>4 DEF RecordInv, RecordTypes, KeptInv, OrderInv
<1>13. CASE storage_init
  <2>1. /\ running' = TRUE /\ ~running
        /\ UNCHANGED <<first, overErased, offset, seeds>>
    BY <1>13 DEF storage_init, flash
  <2>2. Accepted' = Accepted  BY <2>1 DEF Accepted
  <2>3. CASE Accepted
    BY <1>13, <2>1, <2>2, <2>3 DEF storage_init, RecordInv, RecordTypes, KeptInv, OrderInv
  <2>4. CASE ~Accepted
    <3>1. todo' = storage_wipe /\ kept' = kept \cup {0}  BY <1>13, <2>4 DEF storage_init
    <3>2. Job(storage_wipe, kept' \cup {Ones}) /\ Begun(storage_wipe)
      BY <1>1, <3>1, WipeIsJob
    <3>3. Ordered(storage_wipe, ~Accepted')
      <4>1. \A i : ClosedBefore(storage_wipe, i, FALSE)
                     => ClosedBefore(storage_wipe, i, ~Accepted')
        BY DEF ClosedBefore
      <4> QED  BY <3>2, <4>1 DEF Job, Ordered
    <3>4. first'.mnemonic \in kept' \cup {Ones}
      BY <2>1, <3>1 DEF RecordInv, KeptInv
    <3> QED  BY <2>1, <2>2, <2>4, <3>1, <3>2, <3>3, <3>4
             DEF RecordInv, RecordTypes, KeptInv, OrderInv, Job
  <2> QED  BY <2>3, <2>4
<1>14. CASE UNCHANGED vars
  <2>1. UNCHANGED <<running, first, overErased, offset, todo, kept, seeds>>
    BY <1>14 DEF vars, flash
  <2>2. Accepted' = Accepted  BY <2>1 DEF Accepted
  <2> QED  BY <2>1, <2>2 DEF RecordInv, RecordTypes, KeptInv, OrderInv
<1>15. ASSUME StoreSeed(Nothing) \/ \E counter \in SetCounters : StoreSeed(SetTo(counter))
       PROVE  RecordInv'
  <2>1. ~Nothing.set  BY DEF Nothing
  <2>2. \A counter \in SetCounters : SetTo(counter).value \in Int
    BY StorageAssumption DEF SetTo
  <2>3. CASE StoreSeed(Nothing)  BY <1>6, <2>1, <2>3
  <2>4. CASE \E counter \in SetCounters : StoreSeed(SetTo(counter))
    <3>1. PICK counter \in SetCounters : StoreSeed(SetTo(counter))  BY <2>4
    <3> QED  BY <1>6, <2>2, <3>1
  <2> QED  BY <1>15, <2>3, <2>4
<1> QED
  BY <1>5, <1>7, <1>8, <1>9, <1>10, <1>11, <1>12, <1>13, <1>14, <1>15 DEF Next

-----------------------------------------------------------------------------
(* The area of the counter.                                                *)

Bits == 0 .. WordBits - 1
At(w, b) == w * WordBits + b               \* the place of a bit in the area
\* The bits before o are cleared.
Covered(o) == \A w \in Area, b \in Bits : At(w, b) < o => b \in area[w]

HoldsBits(s) == \E i \in 1 .. Len(s) : s[i].kind = "bits"
ErasesArea(s) == \E i \in 1 .. Len(s) : IsErase(s[i], "last")
\* The first write, and no other, clears the bits up to p, where those before are
\* cleared; the offset is that of the next.
ClearsNext(s) == \E p \in 0 .. AreaBits - 1 :
  s[1] = CounterWrite(p) /\ Covered(p) /\ offset <= p + 1

AreaTypes ==
  /\ area \in [Area -> SUBSET Bits] /\ offset \in 0 .. AreaBits - 1
  /\ (~running => offset = 0)
AreaWrites ==
  /\ \A i \in 1 .. Len(todo) : todo[i].kind = "bits" => i = 1
  /\ HoldsBits(todo) => ClearsNext(todo)
  /\ ~HoldsBits(todo) => Covered(offset)
  /\ ErasesArea(todo) => offset = 0
AreaInv == AreaTypes /\ ZerosThenOnes /\ AreaWrites

LEMMA WholeWords ==
  ASSUME NEW i \in Nat, NEW j \in Nat, i < j
  PROVE  i * WordBits + WordBits <= j * WordBits
<1> QED  BY StorageAssumption

LEMMA PlaceOf ==
  ASSUME NEW p \in 0 .. AreaBits - 1
  PROVE  /\ p \div WordBits \in Area /\ p % WordBits \in Bits
         /\ At(p \div WordBits, p % WordBits) = p
<1>1. /\ p \in Nat /\ p < AreaWords * WordBits
  <2>1. AreaWords * WordBits \in Nat  BY StorageAssumption
  <2> QED  BY <2>1 DEF AreaBits
<1>2. /\ p = (p \div WordBits) * WordBits + (p % WordBits)
      /\ p % WordBits \in 0 .. WordBits - 1 /\ p \div WordBits \in Nat
  BY <1>1, StorageAssumption
<1>3. (p \div WordBits) * WordBits <= p  BY <1>2, StorageAssumption
<1>4. AreaWords <= p \div WordBits => AreaWords * WordBits <= (p \div WordBits) * WordBits
  BY <1>2, StorageAssumption
<1>5. AreaWords * WordBits \in Nat /\ (p \div WordBits) * WordBits \in Nat
  BY <1>2, StorageAssumption
<1>6. p \div WordBits < AreaWords  BY <1>1, <1>2, <1>3, <1>4, <1>5, StorageAssumption
<1> QED  BY <1>2, <1>6, StorageAssumption DEF Area, Bits, At

LEMMA PlacesDiffer ==
  ASSUME NEW i \in Area, NEW j \in Area, NEW b \in Bits, NEW e \in Bits, At(i, b) = At(j, e)
  PROVE  i = j /\ b = e
<1>1. i \in Nat /\ j \in Nat /\ b \in 0 .. WordBits - 1 /\ e \in 0 .. WordBits - 1
      /\ i * WordBits + b = j * WordBits + e
  BY StorageAssumption DEF Area, Bits, At
<1>2. i * WordBits \in Nat /\ j * WordBits \in Nat  BY <1>1, StorageAssumption
<1>3. ~(i < j)
  <2> SUFFICES ASSUME i < j PROVE FALSE  OBVIOUS
  <2>1. i * WordBits + WordBits <= j * WordBits  BY <1>1, WholeWords
  <2> QED  BY <1>1, <1>2, <2>1, StorageAssumption
<1>4. ~(j < i)
  <2> SUFFICES ASSUME j < i PROVE FALSE  OBVIOUS
  <2>1. j * WordBits + WordBits <= i * WordBits  BY <1>1, WholeWords
  <2> QED  BY <1>1, <1>2, <2>1, StorageAssumption
<1>5. i = j  BY <1>1, <1>3, <1>4
<1> QED  BY <1>1, <1>2, <1>5, StorageAssumption

LEMMA PlacesOfWord ==
  ASSUME NEW w \in Area, NEW b \in Bits
  PROVE  At(w, b) \in Nat /\ \A e \in Bits : b <= e => At(w, b) <= At(w, e)
<1>1. w * WordBits \in Nat  BY StorageAssumption DEF Area
<1> QED  BY <1>1 DEF At, Bits

\* What a write does to the area.
LEMMA WriteDoesToArea ==
  ASSUME NEW w \in FlashWrite, Write(w)
  PROVE  /\ (IsErase(w, "last") => area' = Blank)
         /\ (w.kind = "bits" => area' = [area EXCEPT ![w.at] = @ \cup w.value])
         /\ (~IsErase(w, "last") /\ w.kind # "bits" => area' = area)
<1>1. ASSUME IsErase(w, "last") PROVE area' = Blank
  BY <1>1 DEF IsErase, Erase, Write
<1>2. ASSUME w.kind = "bits" PROVE area' = [area EXCEPT ![w.at] = @ \cup w.value]
  BY <1>2 DEF Write
<1>3. ASSUME ~IsErase(w, "last"), w.kind # "bits" PROVE area' = area
  <2>1. ~(w.kind = "erase" /\ w.at = "last")
    <3> SUFFICES ASSUME w.kind = "erase", w.at = "last" PROVE FALSE  OBVIOUS
    <3>1. w = [kind |-> "erase", at |-> "last", value |-> Ones]  BY DEF FlashWrite
    <3> QED  BY <1>3, <3>1 DEF IsErase, Erase
  <2> QED  BY <1>3, <2>1 DEF Write
<1> QED  BY <1>1, <1>2, <1>3

\* An erased area.
LEMMA BlankArea ==
  ASSUME area' = Blank
  PROVE  area' \in [Area -> SUBSET Bits] /\ ZerosThenOnes'
<1>1. area' \in [Area -> SUBSET Bits]  BY DEF Blank
<1>2. \A c \in Area \X Bits : c[2] \notin area'[c[1]]  BY DEF Blank
<1>3. ClearedBits' = {}  BY <1>2 DEF ClearedBits, Bits
<1> QED  BY <1>1, <1>3 DEF ZerosThenOnes

\* Zeros then ones, said of single bits.
LEMMA OrderOfBits ==
  ZerosThenOnes <=> \A w \in Area, b \in Bits : b \in area[w] => Covered(At(w, b))
<1>1. ClearedBits = {c \in Area \X Bits : c[2] \in area[c[1]]}  BY DEF ClearedBits, Bits
<1>2. ASSUME ZerosThenOnes, NEW w \in Area, NEW b \in Bits, b \in area[w]
      PROVE  Covered(At(w, b))
  <2>1. <<w, b>> \in ClearedBits  BY <1>1, <1>2
  <2>2. \A v \in Area, e \in Bits : At(v, e) < At(w, b) => <<v, e>> \in ClearedBits
    BY <1>2, <2>1 DEF ZerosThenOnes, At, Bits
  <2> QED  BY <1>1, <2>2 DEF Covered
<1>3. ASSUME \A w \in Area, b \in Bits : b \in area[w] => Covered(At(w, b))
      PROVE  ZerosThenOnes
  <2>1. \A c \in ClearedBits : c \in Area \X Bits /\ Covered(At(c[1], c[2]))  BY <1>1, <1>3
  <2>2. \A c \in ClearedBits : \A w \in Area, b \in Bits :
          At(w, b) < At(c[1], c[2]) => <<w, b>> \in ClearedBits
    BY <1>1, <2>1 DEF Covered
  <2> QED  BY <2>2 DEF ZerosThenOnes, At, Bits
<1> QED  BY <1>2, <1>3

\* The write of the counter: the next bit is cleared and the order is kept.
LEMMA NextBitIsCleared ==
  ASSUME area \in [Area -> SUBSET Bits], ZerosThenOnes, NEW p \in 0 .. AreaBits - 1, Covered(p),
         NEW w, w = CounterWrite(p), area' = [area EXCEPT ![w.at] = @ \cup w.value]
  PROVE  area' \in [Area -> SUBSET Bits] /\ ZerosThenOnes' /\ Covered(p + 1)'
<1> DEFINE d == p \div WordBits
           e == p % WordBits
<1>1. d \in Area /\ e \in Bits /\ At(d, e) = p  BY PlaceOf
<1>2. area' = [area EXCEPT ![d] = @ \cup (0 .. e)]  BY DEF CounterWrite, ClearBits
<1> HIDE DEF d, e
<1>3. 0 .. e \subseteq Bits  BY <1>1, StorageAssumption DEF Bits
<1>4. area' \in [Area -> SUBSET Bits]  BY <1>1, <1>2, <1>3
<1>5. \A v \in Area, b \in Bits :
        b \in area'[v] <=> b \in area[v] \/ (v = d /\ b <= e)
  BY <1>1, <1>2 DEF Bits
<1>6. ASSUME NEW o, Covered(o) PROVE Covered(o)'
  BY <1>5, <1>6 DEF Covered
<1>7. \A w1 \in Area, b \in Bits : b \in area[w1] => Covered(At(w1, b))  BY OrderOfBits
<1>8. ASSUME NEW v \in Area, NEW b \in Bits, b \in area'[v]
      PROVE  Covered(At(v, b))'
  <2>1. CASE b \in area[v]
    <3>1. Covered(At(v, b))  BY <1>7, <2>1
    <3>2. Covered(At(v, b))'  BY <1>6, <3>1
    <3> QED  BY <3>2
  <2>2. CASE v = d /\ b <= e
    <3>1. At(v, b) <= p /\ At(v, b) \in Nat  BY <1>1, <2>2, PlacesOfWord
    <3>2. \A w1 \in Area, b1 \in Bits : At(w1, b1) < At(v, b) => b1 \in area[w1]
      BY <3>1, PlacesOfWord DEF Covered
    <3> QED  BY <1>5, <3>2 DEF Covered, At
  <2> QED  BY <1>5, <1>8, <2>1, <2>2
<1>9. ZerosThenOnes'
  <2>1. ClearedBits' = {c \in Area \X Bits : c[2] \in area'[c[1]]}  BY DEF ClearedBits, Bits
  <2>2. ASSUME NEW c \in ClearedBits', NEW v \in Area, NEW b \in Bits,
               At(v, b) < At(c[1], c[2])
        PROVE  b \in area'[v]
    <3>1. c[1] \in Area /\ c[2] \in Bits /\ c[2] \in area'[c[1]]  BY <2>1
    <3>2. Covered(At(c[1], c[2]))'  BY <1>8, <3>1
    <3> QED  BY <2>2, <3>2 DEF Covered
  <2>3. \A c \in ClearedBits' : \A v \in Area, b \in Bits :
          At(v, b) < At(c[1], c[2]) => <<v, b>> \in ClearedBits'
    BY <2>1, <2>2
  <2> QED  BY <2>3 DEF ZerosThenOnes, At, Bits
<1>10. Covered(p + 1)'
  <2> SUFFICES ASSUME NEW v \in Area, NEW b \in Bits, At(v, b) < p + 1
               PROVE  b \in area'[v]
    BY DEF Covered, At
  <2>1. At(v, b) \in Nat  BY PlacesOfWord
  <2>2. CASE At(v, b) < p  BY <1>5, <2>2 DEF Covered
  <2>3. CASE At(v, b) = p
    <3>1. v = d /\ b = e  BY <1>1, <2>3, PlacesDiffer
    <3> QED  BY <1>5, <3>1 DEF Bits
  <2> QED  BY <2>1, <2>2, <2>3
<1> QED  BY <1>4, <1>9, <1>10

-----------------------------------------------------------------------------
(* The area between two writes.                                            *)

\* The next job: only the write of the counter, at its head, clears bits.
FitsArea(s) ==
  /\ \A i \in 1 .. Len(s) : s[i].kind = "bits" => i = 1
  /\ HoldsBits(s) => s[1] = CounterWrite(offset) /\ offset' <= offset + 1
  /\ ~HoldsBits(s) => offset' \in {0, offset}
  /\ ErasesArea(s) => offset' = 0

LEMMA CommitSparesArea ==
  ASSUME NEW v, NEW m, NEW c, NEW s, IsCommit(s, v, m, c)
  PROVE  /\ Len(s) = 6 /\ \A i \in 1 .. 6 : s[i].kind # "bits" /\ ~IsErase(s[i], "last")
<1>1. \A i \in 1 .. 6 : i = 1 \/ i = 2 \/ i = 3 \/ i = 4 \/ i = 5 \/ i = 6  OBVIOUS
<1> QED  BY <1>1 DEF IsCommit, IsErase, Erase, Program

LEMMA WipeHasNoBits ==
  ASSUME first.meta \in Int
  PROVE  ~HoldsBits(storage_wipe)
<1> DEFINE r == storage_commit_locked(0, 0, 0)
           s == storage_wipe
<1>1. Len(s) = 7 /\ (\A i \in 1 .. 6 : s[i] = r[i]) /\ s[7] = Erase("last")  BY WipeWrites
<1>2. IsCommit(r, 0, 0, 0)  BY CommitWrites
<1> HIDE DEF r, s
<1>3. \A i \in 1 .. 6 : r[i].kind # "bits"  BY <1>2, CommitSparesArea
<1>4. s[7].kind # "bits"  BY <1>1 DEF Erase
<1>5. \A i \in 1 .. 7 : i \in 1 .. 6 \/ i = 7  OBVIOUS
<1>6. \A i \in 1 .. 7 : s[i].kind # "bits"  BY <1>1, <1>3, <1>4, <1>5
<1> QED  BY <1>1, <1>6 DEF HoldsBits, s

LEMMA AreaHasBits == AreaBits \in Nat \ {0}
<1> QED  BY StorageAssumption DEF AreaBits

LEMMA NothingBeforeZero == Covered(0) /\ Covered(0)'
<1> QED  BY PlacesOfWord DEF Covered

LEMMA InitArea == Init => AreaInv
<1> SUFFICES ASSUME Init PROVE AreaInv  OBVIOUS
<1>1. area = [w \in Area |-> Bits] /\ offset = 0 /\ todo = <<>>  BY DEF Init, ZeroedArea, Bits
<1>2. AreaTypes  BY <1>1, AreaHasBits DEF AreaTypes
<1>3. ZerosThenOnes
  <2>1. \A w \in Area, b \in Bits : Covered(At(w, b))  BY <1>1 DEF Covered
  <2> QED  BY <2>1, OrderOfBits
<1>4. AreaWrites
  <2>1. Len(todo) = 0  BY <1>1
  <2> QED  BY <1>1, <2>1, NothingBeforeZero DEF AreaWrites, HoldsBits, ErasesArea
<1> QED  BY <1>2, <1>3, <1>4 DEF AreaInv

LEMMA StepKeepsArea ==
  ASSUME RecordInv, AreaInv, Step
  PROVE  AreaInv'
<1> DEFINE w == Head(todo)
<1>1. /\ todo \in Seq(FlashWrite) /\ todo # <<>> /\ Write(w) /\ todo' = Tail(todo)
      /\ running' = running /\ offset' = offset
  BY DEF Step, RecordInv, RecordTypes
<1>2. /\ w \in FlashWrite /\ w = todo[1] /\ Len(todo) \in Nat \ {0}
      /\ Len(todo') = Len(todo) - 1
      /\ \A i \in 1 .. Len(todo') : todo'[i] = todo[i + 1]
  BY <1>1, NextWrites
<1>3. \A i \in 1 .. Len(todo') : i + 1 \in 1 .. Len(todo) /\ i + 1 # 1  BY <1>2
<1> HIDE DEF w
<1>4. ~HoldsBits(todo')  BY <1>2, <1>3 DEF HoldsBits, AreaInv, AreaWrites
<1>5. ErasesArea(todo') => ErasesArea(todo)  BY <1>2, <1>3 DEF ErasesArea
<1>6. 1 \in 1 .. Len(todo)  BY <1>2
<1>7. /\ (IsErase(w, "last") => area' = Blank)
      /\ (w.kind = "bits" => area' = [area EXCEPT ![w.at] = @ \cup w.value])
      /\ (~IsErase(w, "last") /\ w.kind # "bits" => area' = area)
  BY <1>1, <1>2, WriteDoesToArea
<1>8. area' \in [Area -> SUBSET Bits] /\ ZerosThenOnes' /\ Covered(offset)'
  <2>1. CASE IsErase(w, "last")
    <3>1. offset' = 0
      BY <1>1, <1>2, <1>6, <2>1 DEF ErasesArea, AreaInv, AreaWrites
    <3> QED  BY <1>7, <2>1, <3>1, BlankArea, NothingBeforeZero DEF Covered
  <2>2. CASE w.kind = "bits"
    <3>1. HoldsBits(todo)  BY <1>2, <1>6, <2>2 DEF HoldsBits
    <3>2. PICK p \in 0 .. AreaBits - 1 : w = CounterWrite(p) /\ Covered(p) /\ offset <= p + 1
      BY <1>2, <3>1 DEF AreaInv, AreaWrites, ClearsNext
    <3>3. area' \in [Area -> SUBSET Bits] /\ ZerosThenOnes' /\ Covered(p + 1)'
      BY <1>7, <2>2, <3>2, NextBitIsCleared DEF AreaInv, AreaTypes
    <3>4. offset' <= p + 1 /\ offset' \in Nat /\ p \in Nat
      BY <1>1, <3>2, AreaHasBits DEF AreaInv, AreaTypes
    <3>5. \A v \in Area, b \in Bits : At(v, b) < offset' => At(v, b) < p + 1
      BY <3>4, PlacesOfWord
    <3>6. \A v \in Area, b \in Bits : At(v, b) < p + 1 => b \in area'[v]
      BY <3>3 DEF Covered, At
    <3> QED  BY <3>3, <3>5, <3>6 DEF Covered, At
  <2>3. CASE ~IsErase(w, "last") /\ w.kind # "bits"
    <3>1. ~HoldsBits(todo)
      <4>1. \A i \in 1 .. Len(todo) : todo[i].kind = "bits" => i = 1
        BY DEF AreaInv, AreaWrites
      <4> QED  BY <1>2, <2>3, <4>1 DEF HoldsBits
    <3>2. Covered(offset)  BY <3>1 DEF AreaInv, AreaWrites
    <3>3. area' = area  BY <1>7, <2>3
    <3> QED  BY <1>1, <3>2, <3>3
             DEF AreaInv, AreaTypes, ZerosThenOnes, ClearedBits, Covered
  <2> QED  BY <2>1, <2>2, <2>3
<1>9. AreaTypes'  BY <1>1, <1>8 DEF AreaInv, AreaTypes
<1>10. AreaWrites'
  <2>1. \A i \in 1 .. Len(todo') : todo'[i].kind # "bits"  BY <1>4 DEF HoldsBits
  <2>2. ErasesArea(todo') => offset' = 0  BY <1>1, <1>5 DEF AreaInv, AreaWrites
  <2>3. (\A i \in 1 .. Len(todo) : todo[i].kind = "bits" => i = 1)'  BY <2>1
  <2>4. ~HoldsBits(todo)'  BY <2>1 DEF HoldsBits
  <2>5. (ErasesArea(todo) => offset = 0)'  BY <2>2 DEF ErasesArea
  <2> HIDE DEF HoldsBits, ErasesArea
  <2> QED  BY <1>8, <2>3, <2>4, <2>5 DEF AreaWrites
<1> QED  BY <1>8, <1>9, <1>10 DEF AreaInv

LEMMA BeginKeepsArea ==
  ASSUME AreaInv, NEW writes, NEW reply, NEW mnemonics, Begin(writes, reply, mnemonics),
         FitsArea(writes), offset' \in 0 .. AreaBits - 1
  PROVE  AreaInv'
<1>1. /\ running /\ running' = running /\ todo = <<>> /\ todo' = writes /\ area' = area
  BY DEF Begin, flash
<1>2. Covered(offset)
  <2>1. Len(todo) = 0  BY <1>1
  <2>2. ~HoldsBits(todo)  BY <2>1 DEF HoldsBits
  <2> QED  BY <2>2 DEF AreaInv, AreaWrites
<1>3. AreaTypes'  BY <1>1 DEF AreaInv, AreaTypes
<1>4. ZerosThenOnes'  BY <1>1 DEF AreaInv, ZerosThenOnes, ClearedBits
<1>5. (\A i \in 1 .. Len(todo) : todo[i].kind = "bits" => i = 1)'  BY <1>1 DEF FitsArea
<1>6. (ErasesArea(todo) => offset = 0)'  BY <1>1 DEF FitsArea, ErasesArea
<1>7. (~HoldsBits(todo) => Covered(offset))'
  <2> SUFFICES ASSUME ~HoldsBits(writes) PROVE Covered(offset)'
    BY <1>1 DEF HoldsBits
  <2>1. offset' = 0 \/ offset' = offset  BY DEF FitsArea
  <2>2. CASE offset' = 0  BY <2>2, NothingBeforeZero DEF Covered
  <2>3. CASE offset' = offset  BY <1>1, <1>2, <2>3 DEF Covered
  <2> QED  BY <2>1, <2>2, <2>3
<1>8. (HoldsBits(todo) => ClearsNext(todo))'
  <2> SUFFICES ASSUME HoldsBits(writes) PROVE ClearsNext(todo)'
    BY <1>1 DEF HoldsBits
  <2>1. writes[1] = CounterWrite(offset) /\ offset' <= offset + 1  BY DEF FitsArea
  <2>2. offset \in 0 .. AreaBits - 1  BY DEF AreaInv, AreaTypes
  <2>3. \E q : q = offset /\ todo'[1] = CounterWrite(q) /\ Covered(q) /\ offset' <= q + 1
    BY <1>1, <1>2, <2>1
  <2>4. PICK q : q = offset /\ todo'[1] = CounterWrite(q) /\ Covered(q) /\ offset' <= q + 1
    BY <2>3
  <2>5. Covered(q)'  BY <1>1, <2>4 DEF Covered
  <2>6. q \in 0 .. AreaBits - 1  BY <2>2, <2>4
  <2> QED  BY <2>4, <2>5, <2>6 DEF ClearsNext
<1> HIDE DEF HoldsBits, ErasesArea, ClearsNext, Covered
<1>9. AreaWrites'  BY <1>5, <1>6, <1>7, <1>8 DEF AreaWrites
<1> QED  BY <1>3, <1>4, <1>9 DEF AreaInv

LEMMA CommitFits ==
  ASSUME NEW v \in Int, NEW m \in Int, NEW c \in Int, first.meta \in Int, offset' = offset
  PROVE  FitsArea(storage_commit_locked(v, m, c))
<1> DEFINE s == storage_commit_locked(v, m, c)
<1>1. Len(s) = 6 /\ \A i \in 1 .. 6 : s[i].kind # "bits" /\ ~IsErase(s[i], "last")
  BY CommitWrites, CommitSparesArea
<1> HIDE DEF s
<1>2. ~HoldsBits(s) /\ ~ErasesArea(s)  BY <1>1 DEF HoldsBits, ErasesArea
<1> QED  BY <1>1, <1>2 DEF FitsArea, s

LEMMA WipeFits ==
  ASSUME first.meta \in Int, offset' = 0
  PROVE  FitsArea(storage_wipe)
<1>1. ~HoldsBits(storage_wipe)  BY WipeHasNoBits
<1>2. \A i \in 1 .. Len(storage_wipe) : storage_wipe[i].kind # "bits"  BY <1>1 DEF HoldsBits
<1> QED  BY <1>1, <1>2 DEF FitsArea

\* The counter: the area is erased after its last bit only.
LEMMA CounterFits ==
  ASSUME first.meta \in Int, first.mnemonic \in Int, offset \in Nat,
         NEW o, o = offset + 1, offset' = OffsetAfter(o),
         NEW s, s = <<CounterWrite(offset)>>
                      \o (IF IsFull(o) THEN storage_area_recycle(o) ELSE <<>>)
  PROVE  FitsArea(s)
<1> DEFINE w == CounterWrite(offset)
           u == IF IsFull(o) THEN storage_area_recycle(o) ELSE <<>>
<1>1. w \in FlashWrite /\ w.kind = "bits"  BY CounterIsJob
<1>2. /\ u \in Seq(FlashWrite)
      /\ \A i \in 1 .. Len(u) : u[i].kind # "bits"
      /\ ~IsFull(o) => Len(u) = 0
  <2>1. CASE ~IsFull(o)
    <3>1. u = <<>>  BY <2>1
    <3> QED  BY <2>1, <3>1, EmptySeq
  <2>2. CASE IsFull(o)
    <3> DEFINE r == storage_commit_locked(Current, first.mnemonic, o)
               m == first.mnemonic
    <3>1. u = Recycling(r)
      BY <2>2 DEF storage_area_recycle, MnemonicToCommit, Recycling
    <3>2. o \in Int /\ Current \in Int  BY DEF Current
    <3>3. IsCommit(r, Current, m, o) /\ m \in Int  BY <3>2, CommitWrites
    <3> HIDE DEF r, u, m
    <3>4. \A i \in 1 .. 6 : r[i].kind # "bits"  BY <3>3, CommitSparesArea
    <3>5. /\ u \in Seq(FlashWrite) /\ Len(u) = 8
          /\ u[1] = Program("magic", 0) /\ u[2] = Erase("last")
          /\ \A i \in 3 .. 8 : u[i] = r[i - 2]
      <4>1. IsRecycling(Recycling(r), r)  BY ONLY <3>2, <3>3, RecycleWrites
      <4> QED  BY ONLY <3>1, <4>1 DEF IsRecycling
    <3>6. u[1].kind # "bits" /\ u[2].kind # "bits"  BY <3>5 DEF Program, Erase
    <3>7. \A i \in 3 .. 8 : u[i].kind # "bits"
      <4>1. \A i \in 3 .. 8 : i - 2 \in 1 .. 6  OBVIOUS
      <4> QED  BY <3>4, <3>5, <4>1
    <3>8. \A i \in 1 .. 8 : i = 1 \/ i = 2 \/ i \in 3 .. 8  OBVIOUS
    <3>9. \A i \in 1 .. 8 : u[i].kind # "bits"  BY <3>6, <3>7, <3>8
    <3> QED  BY <2>2, <3>5, <3>9
  <2> QED  BY <2>1, <2>2
<1>3. s = <<w>> \o u  OBVIOUS
<1> HIDE DEF w, u
<1>4. /\ Len(s) = 1 + Len(u) /\ Len(u) \in Nat
      /\ \A i \in 1 .. 1 + Len(u) : s[i] = IF i <= 1 THEN w ELSE u[i - 1]
  BY <1>1, <1>2, <1>3, Prepended
<1>5. s[1] = w  BY <1>4
<1>6. \A i \in 2 .. Len(s) : i - 1 \in 1 .. Len(u) /\ s[i] = u[i - 1]  BY <1>4
<1>7. \A i \in 1 .. Len(s) : s[i].kind = "bits" => i = 1
  <2>1. \A i \in 1 .. Len(s) : i = 1 \/ i \in 2 .. Len(s)  BY <1>4
  <2>2. \A i \in 2 .. Len(s) : s[i].kind # "bits"  BY <1>2, <1>6
  <2> QED  BY <2>1, <2>2
<1>8. HoldsBits(s)
  <2>1. 1 \in 1 .. Len(s)  BY <1>4
  <2> QED  BY <1>1, <1>5, <2>1 DEF HoldsBits
<1>9. ErasesArea(s) => offset' = 0
  <2>1. CASE IsFull(o)  BY <2>1 DEF OffsetAfter
  <2>2. CASE ~IsFull(o)
    <3>1. Len(s) = 1  BY <1>2, <1>4, <2>2
    <3>2. ~IsErase(s[1], "last")  BY <1>1, <1>5 DEF IsErase, Erase
    <3>3. \A i \in 1 .. 1 : i = 1  OBVIOUS
    <3> QED  BY <3>1, <3>2, <3>3 DEF ErasesArea
  <2> QED  BY <2>1, <2>2
<1>10. offset' <= offset + 1  BY DEF OffsetAfter
<1> QED  BY <1>5, <1>7, <1>8, <1>9, <1>10 DEF FitsArea, w

LEMMA ActionsKeepArea ==
  ASSUME RecordInv, AreaInv, [Next]_vars
  PROVE  AreaInv'
<1>1. /\ first.meta \in Int /\ first.counter \in Int /\ first.mnemonic \in Int
      /\ offset \in Nat /\ offset \in 0 .. AreaBits - 1 /\ seeds \in Nat
      /\ Current \in Int /\ Ones \in Int /\ 0 \in 0 .. AreaBits - 1
  BY AreaHasBits DEF RecordInv, RecordTypes, AreaInv, AreaTypes, Words, Current, Ones
<1>2. ASSUME NEW reply, NEW c \in Int, NEW m \in Int, NEW mnemonics, offset' = offset,
             Begin(storage_commit_locked(Current, m, c), reply, mnemonics)
      PROVE  AreaInv'
  BY <1>1, <1>2, CommitFits, BeginKeepsArea
<1>3. ASSUME NEW n \in Int PROVE MnemonicToCommit(n) \in Int
  BY <1>1 DEF MnemonicToCommit
<1>4. ASSUME NEW counter \in Int PROVE BaseOf(counter) \in Int
  BY <1>1, StorageAssumption DEF BaseOf
<1>5. CASE Step  BY <1>5, StepKeepsArea
<1>6. ASSUME NEW reply, StoreSeed(reply), reply.set => reply.value \in Int
      PROVE  AreaInv'
  <2> DEFINE c == IF reply.set THEN BaseOf(reply.value) ELSE first.counter
             m == MnemonicToCommit(seeds + 1)
  <2>1. c \in Int /\ m \in Int  BY <1>1, <1>3, <1>4, <1>6
  <2>2. offset' = offset /\ Begin(storage_commit_locked(Current, m, c), reply, {seeds + 1})
    BY <1>6 DEF StoreSeed
  <2> HIDE DEF c, m
  <2> QED  BY <1>2, <2>1, <2>2
<1>7. CASE StoreSettings
  <2>1. MnemonicToCommit(Ones) \in Int  BY <1>1, <1>3
  <2> QED  BY <1>1, <1>2, <1>7, <2>1 DEF StoreSettings
<1>8. ASSUME NEW counter \in SetCounters, SetU2FCounter(counter)
      PROVE  AreaInv'
  <2>1. BaseOf(counter) \in Int /\ MnemonicToCommit(Ones) \in Int
    BY <1>1, <1>3, <1>4, StorageAssumption
  <2> QED  BY <1>2, <1>8, <2>1 DEF SetU2FCounter
<1>9. CASE WipeDevice
  <2>1. offset' = 0 /\ Begin(storage_wipe, SetTo(0), {0})  BY <1>9 DEF WipeDevice
  <2>2. FitsArea(storage_wipe)  BY <1>1, <2>1, WipeFits
  <2> QED  BY <1>1, <2>1, <2>2, BeginKeepsArea
<1>10. CASE storage_nextU2FCounter
  <2> DEFINE o == offset + 1
             s == <<CounterWrite(offset)>>
                    \o (IF IsFull(o) THEN storage_area_recycle(o) ELSE <<>>)
  <2>1. /\ \E reply : Begin(s, reply, {})
        /\ offset' = OffsetAfter(o)
    BY <1>10 DEF storage_nextU2FCounter
  <2>2. FitsArea(s)  BY <1>1, <2>1, CounterFits
  <2>3. offset' \in 0 .. AreaBits - 1
    BY <1>1, <2>1, AreaHasBits DEF OffsetAfter, IsFull
  <2> HIDE DEF s
  <2> QED  BY <2>1, <2>2, <2>3, BeginKeepsArea
<1>11. CASE PowerLoss
  <2>1. running' = FALSE /\ todo' = <<>> /\ offset' = 0 /\ area' = area
    BY <1>11 DEF PowerLoss, flash
  <2>2. AreaTypes'  BY <1>1, <2>1 DEF AreaInv, AreaTypes
  <2>3. ZerosThenOnes'  BY <2>1 DEF AreaInv, ZerosThenOnes, ClearedBits
  <2>4. Len(todo') = 0  BY <2>1
  <2>5. Covered(offset)'  BY <2>1, NothingBeforeZero DEF Covered
  <2> QED  BY <2>1, <2>2, <2>3, <2>4, <2>5 DEF AreaInv, AreaWrites, HoldsBits
<1>12. CASE Upload
  <2>1. ~running /\ UNCHANGED <<running, offset, todo>> /\ area' = [w \in Area |-> Bits]
    BY <1>12 DEF Upload, ZeroedArea, Bits
  <2>2. todo = <<>> /\ offset = 0  BY <2>1 DEF RecordInv, RecordTypes, AreaInv, AreaTypes
  <2>3. AreaTypes'  BY <1>1, <2>1, <2>2 DEF AreaTypes
  <2>4. ZerosThenOnes'  BY <2>1 DEF ZerosThenOnes, ClearedBits, Bits
  <2>5. Len(todo') = 0  BY <2>1, <2>2
  <2>6. Covered(offset)'  BY <2>1, <2>2, NothingBeforeZero DEF Covered
  <2> QED  BY <2>1, <2>2, <2>3, <2>4, <2>5, <2>6 DEF AreaInv, AreaWrites, HoldsBits
<1>13. CASE storage_init
  <2>1. /\ running' = TRUE /\ ~running /\ offset' = offset /\ area' = area
        /\ todo' = todo \/ todo' = storage_wipe
    BY <1>13 DEF storage_init, flash
  <2>2. todo = <<>> /\ offset = 0  BY <2>1 DEF RecordInv, RecordTypes, AreaInv, AreaTypes
  <2>3. AreaTypes'  BY <2>1 DEF AreaInv, AreaTypes
  <2>4. ZerosThenOnes'  BY <2>1 DEF AreaInv, ZerosThenOnes, ClearedBits
  <2>5. ~HoldsBits(todo)'
    <3>1. ~HoldsBits(storage_wipe)  BY <1>1, WipeHasNoBits
    <3>2. CASE todo' = storage_wipe  BY <3>1, <3>2 DEF HoldsBits
    <3>3. CASE todo' = todo
      <4>1. Len(todo') = 0  BY <2>2, <3>3
      <4> QED  BY <4>1 DEF HoldsBits
    <3> QED  BY <2>1, <3>2, <3>3
  <2>6. Covered(offset)'  BY <2>1, <2>2, NothingBeforeZero DEF Covered
  <2> QED  BY <2>1, <2>2, <2>3, <2>4, <2>5, <2>6 DEF AreaInv, AreaWrites, HoldsBits
<1>14. CASE UNCHANGED vars
  <2>1. UNCHANGED <<running, area, offset, todo>>  BY <1>14 DEF vars, flash
  <2> QED  BY <2>1 DEF AreaInv, AreaTypes, AreaWrites, ZerosThenOnes, ClearedBits,
                       HoldsBits, ErasesArea, ClearsNext, Covered
<1>15. ASSUME StoreSeed(Nothing) \/ \E counter \in SetCounters : StoreSeed(SetTo(counter))
       PROVE  AreaInv'
  <2>1. ~Nothing.set  BY DEF Nothing
  <2>2. \A counter \in SetCounters : SetTo(counter).value \in Int
    BY StorageAssumption DEF SetTo
  <2>3. CASE StoreSeed(Nothing)  BY <1>6, <2>1, <2>3
  <2>4. CASE \E counter \in SetCounters : StoreSeed(SetTo(counter))
    <3>1. PICK counter \in SetCounters : StoreSeed(SetTo(counter))  BY <2>4
    <3> QED  BY <1>6, <2>2, <3>1
  <2> QED  BY <1>15, <2>3, <2>4
<1> QED
  BY <1>5, <1>7, <1>8, <1>9, <1>10, <1>11, <1>12, <1>13, <1>14, <1>15 DEF Next

-----------------------------------------------------------------------------
(* What it means.                                                          *)

\* RecordInvHolds: in any state the record in flash fits the list of writes that is left
\* (the order of the writes in storage_commit_locked, storage_area_recycle, storage_wipe).
THEOREM RecordInvHolds == Spec => []RecordInv
<1> QED  BY InitRecord, ActionsKeepRecord, PTL DEF Spec

\* SeedIsKept: for any number of seeds, counters and power losses, with any area, what a
\* boot accepts is the mnemonic before the commit that was cut, its own, or none
\* (storage_commit_locked, storage_area_recycle, storage_wipe).
THEOREM SeedIsKept == Spec => []SeedKept
<1>1. RecordInv => SeedKept  BY DEF RecordInv, KeptInv, SeedKept
<1> QED  BY RecordInvHolds, <1>1, PTL

\* AreaIsYounger: no record is accepted whose area was erased after it was written, so
\* that no cut restarts the counter (storage_area_recycle, storage_wipe).
THEOREM AreaIsYounger == Spec => []NoRecordOverErasedArea
<1>1. RecordInv => NoRecordOverErasedArea  BY DEF RecordInv, OrderInv, NoRecordOverErasedArea
<1> QED  BY RecordInvHolds, <1>1, PTL

\* AreaIsInOrder: for any size of the area and any cuts, the bits of the counter are cleared
\* from the first on: what storage_nextU2FCounter counts is never torn by a restart at
\* offset zero, by storage_area_recycle or by storage_wipe.
THEOREM AreaIsInOrder == Spec => []ZerosThenOnes
<1>1. RecordInv /\ AreaInv /\ [Next]_vars => AreaInv'  BY ActionsKeepArea
<1>2. AreaInv => ZerosThenOnes  BY DEF AreaInv
<1> QED  BY RecordInvHolds, InitArea, <1>1, <1>2, PTL DEF Spec
=============================================================================
