-------------------------- MODULE BootloaderProofs --------------------------
(***************************************************************************)
(* Proofs about Bootloader: what a firmware may find in flash when it is   *)
(* started, wherever power was lost before, and that the storage outlives  *)
(* what the loader does to flash.                                          *)
(***************************************************************************)
EXTENDS Bootloader, SequenceTheorems, TLAPS

-----------------------------------------------------------------------------
(* Jobs.                                                                   *)

EraseJob(end) == <<"erase first", "erase second", "erase code", end>>
TestJob(end) ==
  <<"erase first", "erase second", "pattern", "erase first", "erase second",
    "magic", "half descriptor", "descriptor", "some storage", "storage", end>>
InstallJob == <<"magic", "half descriptor", "descriptor", "some storage", "storage", "END">>
BootJob == <<"erase boot", "write boot", "halt">>
Loading == {"FLASHSTART", "FLASHING", "CHECK"}
StepNames == {"erase first", "erase second", "erase code", "pattern", "magic", "half descriptor",
              "descriptor", "some storage", "storage", "erase boot", "write boot", "halt",
              "READY", "OPEN", "END", "FLASHSTART"}

\* What is left of a job.
LeftOf(j, whole) ==
  /\ j # <<>> /\ Len(j) <= Len(whole)
  /\ \A i \in 1 .. Len(j) : j[i] = whole[Len(whole) - Len(j) + i]

-----------------------------------------------------------------------------
(* The invariant.                                                          *)

Whole(d, c) ==
  /\ \A i \in 1 .. 3 : d.sigs[i] \in 1 .. PUBKEYS /\ i \in d.valid
  /\ \A i, j \in 1 .. 3 : i # j => d.sigs[i] # d.sigs[j]
  /\ c >= d.codelen
\* A storage that may lie behind the descriptor d.
Fitting(d, c, s) ==
  IF Whole(d, c) THEN s \notin {"unsigned", "part of unsigned"}
                 ELSE s \notin {"signed", "part of signed"}
Confirmed(d) == Half(d) = Half(approved.firmware) /\ code = approved.code

\* What restore_metadata will write may be started.
BackupMayStart ==
  meta_backup.magic /\ meta_backup.descriptor.fits =>
    Fitting(meta_backup.descriptor, code, meta_backup.storage) /\ Confirmed(meta_backup.descriptor)

\* The descriptor and the storage while n steps of restore_metadata are left.
Restoring(n) ==
  /\ BackupMayStart
  /\ n = 6 => ~magic
  /\ n < 6 => magic = meta_backup.magic
  /\ n >= 3 => storage = "erased"
  /\ n >= 5 => descriptor \in {NoFirmware, meta_backup.descriptor}
  /\ n = 4 => descriptor \in {Half(meta_backup.descriptor), meta_backup.descriptor}
  /\ n <= 3 => descriptor = meta_backup.descriptor
  /\ n = 2 => storage = Part(meta_backup.storage)
  /\ n = 1 => storage = meta_backup.storage

\* The flash while a job is done.
Erased == ~magic /\ storage = "erased"
EraseInv ==
  \E end \in {"END", "FLASHSTART"} :
    /\ LeftOf(job, EraseJob(end))
    /\ Len(job) < 4 => ~magic
    /\ Len(job) < 3 => storage = "erased"
    /\ end = "FLASHSTART" /\ ~brand_new_firmware /\ ~old_was_unsigned
         => meta_backup.storage \notin {"unsigned", "part of unsigned"}
TestInv ==
  /\ LeftOf(job, TestJob(flash_state)) /\ flash_state \in {"READY", "OPEN"}
  /\ BackupMayStart
  /\ brand_new_firmware \/ (meta_backup.magic /\ meta_backup.descriptor.fits)
  /\ Len(job) \in 7 .. 10 => ~magic /\ descriptor = NoFirmware
  /\ Len(job) <= 6 => Restoring(Len(job))
InstallInv == LeftOf(job, InstallJob) /\ Restoring(Len(job))
BootInv == LeftOf(job, BootJob) /\ running # "loader"
JobInv ==
  /\ job \in Seq(StepNames)
  /\ job # <<>> => (running = "loader" /\ (EraseInv \/ TestInv \/ InstallInv)) \/ BootInv

\* The state between jobs.
LoaderInv ==
  /\ running # "loader" => flash_state = "READY"
  /\ running = "off" => job = <<>>
  /\ running = "signed" => firmware_present /\ Whole(descriptor, code)
  /\ running = "unsigned" => ~Whole(descriptor, code)
  /\ running = "loader" /\ job = <<>> /\ flash_state \in {"READY", "OPEN"}
       => brand_new_firmware \/ firmware_present
  /\ job = <<>> /\ flash_state \in Loading =>
       /\ Erased
       /\ ~brand_new_firmware /\ ~old_was_unsigned
            => meta_backup.storage \notin {"unsigned", "part of unsigned"}

MayStart == firmware_present => Fitting(descriptor, code, storage) /\ Confirmed(descriptor)
BootInvariant == MayStart /\ JobInv /\ LoaderInv

-----------------------------------------------------------------------------
(* Lemmas about jobs.                                                      *)

\* The next step of a job, and what is left after it.
LEMMA LeftAfter ==
  ASSUME NEW S, NEW j \in Seq(S), NEW n \in Nat, NEW whole, Len(whole) = n, LeftOf(j, whole)
  PROVE  /\ Len(j) \in 1 .. n /\ Head(j) = whole[n - Len(j) + 1]
         /\ Len(j) > 1 => /\ LeftOf(Tail(j), whole) /\ Tail(j) \in Seq(S)
                          /\ Len(Tail(j)) = Len(j) - 1
<1>1. /\ Len(j) \in Nat \ {0} /\ Head(j) = j[1] /\ Tail(j) \in Seq(S)
      /\ Len(Tail(j)) = Len(j) - 1 /\ \A i \in 1 .. Len(Tail(j)) : Tail(j)[i] = j[i + 1]
  BY EmptySeq, HeadTailProperties DEF LeftOf
<1>2. Len(j) \in 1 .. n /\ Head(j) = whole[n - Len(j) + 1]
  BY <1>1 DEF LeftOf
<1>3. ASSUME Len(j) > 1 PROVE LeftOf(Tail(j), whole)
  <2>1. Tail(j) # <<>>
    <3>1. \A a \in Nat : a > 1 => a - 1 # 0  OBVIOUS
    <3>2. Len(j) - 1 # 0  BY <1>1, <1>3, <3>1
    <3>3. Len(Tail(j)) # 0  BY <1>1, <3>2
    <3> QED  BY <1>1, <3>3, EmptySeq
  <2>2. Len(Tail(j)) <= n  BY <1>1, <1>2
  <2>3. ASSUME NEW i \in 1 .. Len(Tail(j))
        PROVE  Tail(j)[i] = whole[n - Len(Tail(j)) + i]
    <3>1. i + 1 \in 1 .. Len(j) /\ n - Len(j) + (i + 1) = n - Len(Tail(j)) + i
      BY <1>1
    <3> QED  BY <1>1, <3>1 DEF LeftOf
  <2> QED  BY <2>1, <2>2, <2>3 DEF LeftOf
<1> QED  BY <1>1, <1>2, <1>3

\* A list of n steps is the whole job.
LEMMA IsWhole ==
  ASSUME NEW S, NEW u \in Seq(S), NEW n \in Nat \ {0}, Len(u) = n, NEW whole, Len(whole) = n,
         \A i \in 1 .. n : u[i] = whole[i]
  PROVE  LeftOf(u, whole)
<1>1. u # <<>>
  <2>1. Len(<<>>) = 0  OBVIOUS
  <2> QED  BY <2>1
<1>2. \A i \in 1 .. n : n - n + i = i  OBVIOUS
<1> QED  BY <1>1, <1>2 DEF LeftOf

\* WipeDevice and FirmwareErase.
LEMMA EraseIsJob ==
  ASSUME NEW end \in {"END", "FLASHSTART"}
  PROVE  /\ Append(EraseAll, end) \in Seq(StepNames) /\ Len(Append(EraseAll, end)) = 4
         /\ LeftOf(Append(EraseAll, end), EraseJob(end))
<1> DEFINE s == erase_metadata_sectors
           t == <<"erase code">>
           v == s \o t
           u == Append(EraseAll, end)
           w == EraseJob(end)
<1>1. s \in Seq(StepNames) /\ Len(s) = 2  BY DEF StepNames, erase_metadata_sectors
<1>2. s[1] = w[1] /\ s[2] = w[2]  BY DEF EraseJob, erase_metadata_sectors
<1>3. t \in Seq(StepNames) /\ Len(t) = 1  BY DEF StepNames
<1>4. t[1] = w[3] /\ end = w[4]  BY DEF EraseJob
<1>5. u = Append(v, end)  BY DEF EraseAll
<1>6. end \in StepNames  BY DEF StepNames
<1>7. Len(w) = 4  BY DEF EraseJob
<1> HIDE DEF s, t, u, w
<1>8. /\ v \in Seq(StepNames) /\ Len(v) = Len(s) + Len(t)
      /\ \A i \in 1 .. Len(s) + Len(t) : v[i] = IF i <= Len(s) THEN s[i] ELSE t[i - Len(s)]
  BY ONLY <1>1, <1>3, ConcatProperties
<1> HIDE DEF v
<1>9. Len(v) = 3 /\ v[1] = w[1] /\ v[2] = w[2] /\ v[3] = w[3]
  BY <1>1, <1>2, <1>3, <1>4, <1>8
<1>10. /\ u \in Seq(StepNames) /\ Len(u) = Len(v) + 1
       /\ \A i \in 1 .. Len(v) : u[i] = v[i]
       /\ u[Len(v) + 1] = end
  BY ONLY <1>5, <1>6, <1>8, AppendProperties
<1>11. u \in Seq(StepNames) /\ Len(u) = 4  BY <1>9, <1>10
<1>12. u[1] = w[1] /\ u[2] = w[2] /\ u[3] = w[3] /\ u[4] = w[4]
  BY <1>4, <1>9, <1>10
<1>13. \A i \in 1 .. 4 : i = 1 \/ i = 2 \/ i = 3 \/ i = 4  OBVIOUS
<1>14. \A i \in 1 .. 4 : u[i] = w[i]  BY <1>12, <1>13
<1>15. LeftOf(u, w)
  <2>1. 4 \in Nat \ {0}  OBVIOUS
  <2> QED  BY ONLY <2>1, <1>7, <1>11, <1>14, IsWhole
<1> QED  BY <1>11, <1>15 DEF u, w

\* FirmwareUpload at its end.
LEMMA InstallIsJob ==
  /\ Append(restore_metadata, "END") \in Seq(StepNames) /\ Len(Append(restore_metadata, "END")) = 6
  /\ LeftOf(Append(restore_metadata, "END"), InstallJob)
<1> DEFINE s == restore_metadata
           u == Append(s, "END")
           w == InstallJob
<1>1. s \in Seq(StepNames) /\ Len(s) = 5  BY DEF StepNames, restore_metadata
<1>2. s[1] = w[1] /\ s[2] = w[2] /\ s[3] = w[3] /\ s[4] = w[4] /\ s[5] = w[5]
  BY DEF InstallJob, restore_metadata
<1>3. "END" = w[6] /\ "END" \in StepNames  BY DEF InstallJob, StepNames
<1>4. Len(w) = 6  BY DEF InstallJob
<1> HIDE DEF s, w
<1>5. /\ u \in Seq(StepNames) /\ Len(u) = Len(s) + 1
      /\ \A i \in 1 .. Len(s) : u[i] = s[i]
      /\ u[Len(s) + 1] = "END"
  BY ONLY <1>1, <1>3, AppendProperties
<1> HIDE DEF u
<1>6. u \in Seq(StepNames) /\ Len(u) = 6  BY <1>1, <1>5
<1>7. /\ u[1] = w[1] /\ u[2] = w[2] /\ u[3] = w[3] /\ u[4] = w[4] /\ u[5] = w[5] /\ u[6] = w[6]
  BY <1>1, <1>2, <1>3, <1>5
<1>8. \A i \in 1 .. 6 : i = 1 \/ i = 2 \/ i = 3 \/ i = 4 \/ i = 5 \/ i = 6  OBVIOUS
<1>9. \A i \in 1 .. 6 : u[i] = w[i]  BY <1>7, <1>8
<1>10. LeftOf(u, w)
  <2>1. 6 \in Nat \ {0}  OBVIOUS
  <2> QED  BY ONLY <2>1, <1>4, <1>6, <1>9, IsWhole
<1> QED  BY <1>6, <1>10 DEF u, s, w

\* SelfTest.
FlashTest == erase_metadata_sectors \o <<"pattern">> \o erase_metadata_sectors \o restore_metadata
LEMMA TestIsJob ==
  ASSUME NEW end \in {"READY", "OPEN"}
  PROVE  /\ Append(FlashTest, end) \in Seq(StepNames) /\ Len(Append(FlashTest, end)) = 11
         /\ LeftOf(Append(FlashTest, end), TestJob(end))
<1> DEFINE e == erase_metadata_sectors
           p == <<"pattern">>
           r == restore_metadata
           a == e \o p
           b == a \o e
           c == b \o r
           u == Append(FlashTest, end)
           w == TestJob(end)
<1>1. e \in Seq(StepNames) /\ Len(e) = 2  BY DEF StepNames, erase_metadata_sectors
<1>2. p \in Seq(StepNames) /\ Len(p) = 1  BY DEF StepNames
<1>3. r \in Seq(StepNames) /\ Len(r) = 5  BY DEF StepNames, restore_metadata
<1>4. end \in StepNames /\ Len(w) = 11  BY DEF StepNames, TestJob
<1>5. e[1] = w[1] /\ e[2] = w[2] /\ e[1] = w[4] /\ e[2] = w[5]
  BY DEF TestJob, erase_metadata_sectors
<1>6. p[1] = w[3] /\ end = w[11]  BY DEF TestJob
<1>7. r[1] = w[6] /\ r[2] = w[7] /\ r[3] = w[8] /\ r[4] = w[9] /\ r[5] = w[10]
  BY DEF TestJob, restore_metadata
<1>8. u = Append(c, end)  BY DEF FlashTest
<1> HIDE DEF e, p, r, u, w
<1>9. /\ a \in Seq(StepNames) /\ Len(a) = Len(e) + Len(p)
      /\ \A i \in 1 .. Len(e) + Len(p) : a[i] = IF i <= Len(e) THEN e[i] ELSE p[i - Len(e)]
  BY ONLY <1>1, <1>2, ConcatProperties
<1> HIDE DEF a
<1>a. a \in Seq(StepNames)  BY <1>9
<1>10. Len(a) = 3  BY <1>1, <1>2, <1>9
<1>11. a[1] = w[1] /\ a[2] = w[2] /\ a[3] = w[3]  BY <1>1, <1>2, <1>5, <1>6, <1>9
<1>12. /\ b \in Seq(StepNames) /\ Len(b) = Len(a) + Len(e)
       /\ \A i \in 1 .. Len(a) + Len(e) : b[i] = IF i <= Len(a) THEN a[i] ELSE e[i - Len(a)]
  BY ONLY <1>1, <1>a, ConcatProperties
<1> HIDE DEF b
<1>b. b \in Seq(StepNames)  BY <1>12
<1>13. Len(b) = 5  BY <1>1, <1>10, <1>12
<1>14. b[1] = w[1] /\ b[2] = w[2] /\ b[3] = w[3] /\ b[4] = w[4] /\ b[5] = w[5]
  <2>1. \A i \in 1 .. 3 : b[i] = a[i]  BY <1>1, <1>10, <1>12
  <2>2. b[4] = e[1] /\ b[5] = e[2]  BY <1>1, <1>10, <1>12
  <2> QED  BY <1>5, <1>11, <2>1, <2>2
<1>15. /\ c \in Seq(StepNames) /\ Len(c) = Len(b) + Len(r)
       /\ \A i \in 1 .. Len(b) + Len(r) : c[i] = IF i <= Len(b) THEN b[i] ELSE r[i - Len(b)]
  BY ONLY <1>3, <1>b, ConcatProperties
<1> HIDE DEF c
<1>c. c \in Seq(StepNames)  BY <1>15
<1>16. Len(c) = 10  BY <1>3, <1>13, <1>15
<1>17. /\ c[1] = w[1] /\ c[2] = w[2] /\ c[3] = w[3] /\ c[4] = w[4] /\ c[5] = w[5]
       /\ c[6] = w[6] /\ c[7] = w[7] /\ c[8] = w[8] /\ c[9] = w[9] /\ c[10] = w[10]
  <2>1. \A i \in 1 .. 5 : c[i] = b[i]  BY <1>3, <1>13, <1>15
  <2>2. c[6] = r[1] /\ c[7] = r[2] /\ c[8] = r[3] /\ c[9] = r[4] /\ c[10] = r[5]
    BY <1>3, <1>13, <1>15
  <2> QED  BY <1>7, <1>14, <2>1, <2>2
<1>18. /\ u \in Seq(StepNames) /\ Len(u) = Len(c) + 1
       /\ \A i \in 1 .. Len(c) : u[i] = c[i]
       /\ u[Len(c) + 1] = end
  BY ONLY <1>4, <1>8, <1>c, AppendProperties
<1>19. u \in Seq(StepNames) /\ Len(u) = 11  BY <1>16, <1>18
<1>20. \A i \in 1 .. 11 : u[i] = w[i]
  <2>1. \A i \in 1 .. 10 : u[i] = c[i]  BY <1>16, <1>18
  <2>2. u[11] = w[11]  BY <1>6, <1>16, <1>18
  <2>3. \A i \in 1 .. 11 : \/ i = 1 \/ i = 2 \/ i = 3 \/ i = 4 \/ i = 5 \/ i = 6
                           \/ i = 7 \/ i = 8 \/ i = 9 \/ i = 10 \/ i = 11
    OBVIOUS
  <2> QED  BY <1>17, <2>1, <2>2, <2>3
<1>21. LeftOf(u, w)
  <2>1. 11 \in Nat \ {0}  OBVIOUS
  <2> QED  BY ONLY <2>1, <1>4, <1>19, <1>20, IsWhole
<1> QED  BY <1>19, <1>21 DEF u, w

\* check_bootloader.
LEMMA BootIsJob ==
  /\ <<"erase boot", "write boot", "halt">> \in Seq(StepNames)
  /\ LeftOf(<<"erase boot", "write boot", "halt">>, BootJob)
<1> DEFINE u == <<"erase boot", "write boot", "halt">>
<1>1. u \in Seq(StepNames) /\ Len(u) = 3  BY DEF StepNames
<1>2. Len(BootJob) = 3 /\ \A i \in 1 .. 3 : u[i] = BootJob[i]  BY DEF BootJob
<1>3. LeftOf(u, BootJob)
  <2>1. 3 \in Nat \ {0}  OBVIOUS
  <2> QED  BY ONLY <2>1, <1>1, <1>2, IsWhole
<1> QED  BY <1>1, <1>3

-----------------------------------------------------------------------------
(* Lemmas about flash.                                                     *)

\* Step, in a form that the cases can cite.
LEMMA Steps ==
  ASSUME NEW step, Step(step)
  PROVE  /\ step = "erase first" => Flashed(FALSE, NoFirmware, Part(storage), code)
         /\ step = "erase second" => Flashed(magic, descriptor, "erased", code)
         /\ step = "erase code" => Flashed(magic, descriptor, storage, 0)
         /\ step = "pattern" => Flashed(FALSE, NoFirmware, "pattern", code)
         /\ step = "magic" => Flashed(meta_backup.magic, descriptor, storage, code)
         /\ step = "half descriptor" =>
              Flashed(magic, IF descriptor = NoFirmware THEN Half(meta_backup.descriptor)
                             ELSE descriptor, storage, code)
         /\ step = "descriptor" => Flashed(magic, meta_backup.descriptor, storage, code)
         /\ step = "some storage" => Flashed(magic, descriptor, Part(meta_backup.storage), code)
         /\ step = "storage" => Flashed(magic, descriptor, meta_backup.storage, code)
BY DEF Step

\* No firmware, half a descriptor and a part of a storage.
LEMMA NotFits == NoFirmware.fits = FALSE
BY DEF NoFirmware
LEMMA HalfFields ==
  ASSUME NEW d
  PROVE  Half(d).fits = d.fits /\ Half(Half(d)) = Half(d)
BY DEF Half
LEMMA PartFits ==
  ASSUME NEW d, NEW c, NEW s, Fitting(d, c, s)
  PROVE  Fitting(d, c, Part(s))
BY DEF Fitting, Part
\* An erased storage, zeros and the pattern of the test belong to nobody.
LEMMA NothingFits ==
  ASSUME NEW d, NEW c, NEW s \in {"erased", "zero", "pattern"}
  PROVE  Fitting(d, c, s)
BY DEF Fitting

\* Of what is restored, every part may be started.
LEMMA RestoringMayStart ==
  ASSUME NEW n \in 1 .. 6, Restoring(n)
  PROVE  MayStart
<1> SUFFICES ASSUME magic, descriptor.fits PROVE Fitting(descriptor, code, storage) /\ Confirmed(descriptor)
  BY DEF MayStart, firmware_present
<1> DEFINE d == meta_backup.descriptor
<1>1. n < 6 /\ meta_backup.magic
  <2>1. n # 6  BY DEF Restoring
  <2>2. n < 6  BY <2>1
  <2>3. magic = meta_backup.magic  BY <2>2 DEF Restoring
  <2> QED  BY <2>2, <2>3
<1>2. descriptor = d \/ (descriptor = Half(d) /\ n \in 4 .. 5)
  BY <1>1, NotFits DEF Restoring
<1>3. descriptor.fits = d.fits  BY <1>2, HalfFields
<1>4. Fitting(d, code, meta_backup.storage) /\ Confirmed(d)
  BY <1>1, <1>3 DEF Restoring, BackupMayStart
<1>5. Confirmed(descriptor)  BY <1>2, <1>4, HalfFields DEF Confirmed
<1>6. CASE n >= 3
  BY <1>5, <1>6, NothingFits DEF Restoring
<1>7. CASE n < 3
  <2>1. descriptor = d /\ storage \in {Part(meta_backup.storage), meta_backup.storage}
    BY <1>7 DEF Restoring
  <2> QED  BY <1>4, <1>5, <2>1, PartFits
<1> QED  BY <1>6, <1>7

\* The same after a step.
LEMMA RestoringMayStartNext ==
  ASSUME NEW n \in 1 .. 6
  PROVE  Restoring(n)' => MayStart'
<1>1. Restoring(n) => MayStart  BY RestoringMayStart
<1> QED  BY <1>1, PTL

\* One more step of restore_metadata.
LEMMA RestoringStep ==
  ASSUME NEW n \in 2 .. 6, Restoring(n), NEW step, step = InstallJob[7 - n], Step(step),
         UNCHANGED <<meta_backup, approved>>
  PROVE  Restoring(n - 1)'
<1> DEFINE d == meta_backup.descriptor
<1>1. /\ n = 6 => step = "magic"
      /\ n = 5 => step = "half descriptor"
      /\ n = 4 => step = "descriptor"
      /\ n = 3 => step = "some storage"
      /\ n = 2 => step = "storage"
  <2>1. /\ InstallJob[1] = "magic" /\ InstallJob[2] = "half descriptor"
        /\ InstallJob[3] = "descriptor" /\ InstallJob[4] = "some storage" /\ InstallJob[5] = "storage"
    BY DEF InstallJob
  <2>2. \A k \in 2 .. 6 : n = k => step = InstallJob[7 - k]  OBVIOUS
  <2>3. 7 - 6 = 1 /\ 7 - 5 = 2 /\ 7 - 4 = 3 /\ 7 - 3 = 4 /\ 7 - 2 = 5  OBVIOUS
  <2> QED  BY <2>1, <2>2, <2>3
<1>2. CASE n = 6
  <2>1. Flashed(meta_backup.magic, descriptor, storage, code)  BY <1>1, <1>2, Steps
  <2> QED  BY <1>2, <2>1 DEF Flashed, Restoring, BackupMayStart, Confirmed
<1>3. CASE n = 5
  <2>1. Flashed(magic, IF descriptor = NoFirmware THEN Half(d) ELSE descriptor, storage, code)
    BY <1>1, <1>3, Steps
  <2> QED  BY <1>3, <2>1 DEF Flashed, Restoring, BackupMayStart, Confirmed
<1>4. CASE n = 4
  <2>1. Flashed(magic, d, storage, code)  BY <1>1, <1>4, Steps
  <2> QED  BY <1>4, <2>1 DEF Flashed, Restoring, BackupMayStart, Confirmed
<1>5. CASE n = 3
  <2>1. Flashed(magic, descriptor, Part(meta_backup.storage), code)  BY <1>1, <1>5, Steps
  <2> QED  BY <1>5, <2>1 DEF Flashed, Restoring, BackupMayStart, Confirmed
<1>6. CASE n = 2
  <2>1. Flashed(magic, descriptor, meta_backup.storage, code)  BY <1>1, <1>6, Steps
  <2> QED  BY <1>6, <2>1 DEF Flashed, Restoring, BackupMayStart, Confirmed
<1> QED  BY <1>2, <1>3, <1>4, <1>5, <1>6

-----------------------------------------------------------------------------
(* What a job does next.                                                   *)

\* EraseAll: both sectors of the descriptor come before the code.
LEMMA EraseHead ==
  ASSUME NEW end, NEW j \in Seq(StepNames), LeftOf(j, EraseJob(end))
  PROVE  /\ Len(j) \in 1 .. 4
         /\ Len(j) = 4 => Head(j) = "erase first"
         /\ Len(j) = 3 => Head(j) = "erase second"
         /\ Len(j) = 2 => Head(j) = "erase code"
         /\ Len(j) = 1 => Head(j) = end
         /\ Len(j) > 1 => /\ LeftOf(Tail(j), EraseJob(end)) /\ Tail(j) \in Seq(StepNames)
                          /\ Len(Tail(j)) = Len(j) - 1
<1> DEFINE w == EraseJob(end)
<1>1. Len(w) = 4 /\ 4 \in Nat  BY DEF EraseJob
<1>2. w[1] = "erase first" /\ w[2] = "erase second" /\ w[3] = "erase code" /\ w[4] = end
  BY DEF EraseJob
<1>3. LeftOf(j, w)  OBVIOUS
<1> HIDE DEF w
<1>4. /\ Len(j) \in 1 .. 4 /\ Head(j) = w[4 - Len(j) + 1]
      /\ Len(j) > 1 => LeftOf(Tail(j), w) /\ Tail(j) \in Seq(StepNames) /\ Len(Tail(j)) = Len(j) - 1
  BY ONLY <1>1, <1>3, LeftAfter, j \in Seq(StepNames)
<1>5. 4 - 4 + 1 = 1 /\ 4 - 3 + 1 = 2 /\ 4 - 2 + 1 = 3 /\ 4 - 1 + 1 = 4  OBVIOUS
<1>6. \A k \in 1 .. 4 : Len(j) = k => Head(j) = w[4 - k + 1]  BY <1>4
<1>7. /\ Len(j) = 4 => Head(j) = w[1]
      /\ Len(j) = 3 => Head(j) = w[2]
      /\ Len(j) = 2 => Head(j) = w[3]
      /\ Len(j) = 1 => Head(j) = w[4]
  BY <1>5, <1>6
<1> QED  BY <1>2, <1>4, <1>7 DEF w

\* restore_metadata.
LEMMA InstallHead ==
  ASSUME NEW j \in Seq(StepNames), LeftOf(j, InstallJob)
  PROVE  /\ Len(j) \in 1 .. 6 /\ Head(j) = InstallJob[7 - Len(j)]
         /\ Len(j) = 1 => Head(j) = "END"
         /\ Len(j) > 1 => /\ LeftOf(Tail(j), InstallJob) /\ Tail(j) \in Seq(StepNames)
                          /\ Len(Tail(j)) = Len(j) - 1
<1> DEFINE w == InstallJob
<1>1. Len(w) = 6 /\ 6 \in Nat  BY DEF InstallJob
<1>2. w[6] = "END"  BY DEF InstallJob
<1>3. LeftOf(j, w)  OBVIOUS
<1> HIDE DEF w
<1>4. /\ Len(j) \in 1 .. 6 /\ Head(j) = w[6 - Len(j) + 1]
      /\ Len(j) > 1 => LeftOf(Tail(j), w) /\ Tail(j) \in Seq(StepNames) /\ Len(Tail(j)) = Len(j) - 1
  BY ONLY <1>1, <1>3, LeftAfter, j \in Seq(StepNames)
<1>5. 6 - Len(j) + 1 = 7 - Len(j)  BY <1>4
<1>6. Len(j) = 1 => 6 - Len(j) + 1 = 6  OBVIOUS
<1> QED  BY <1>2, <1>4, <1>5, <1>6 DEF w

\* The flash test: erase, pattern, erase, restore.
LEMMA TestHead ==
  ASSUME NEW end, NEW j \in Seq(StepNames), LeftOf(j, TestJob(end))
  PROVE  /\ Len(j) \in 1 .. 11
         /\ Len(j) = 11 => Head(j) = "erase first"
         /\ Len(j) = 10 => Head(j) = "erase second"
         /\ Len(j) = 9 => Head(j) = "pattern"
         /\ Len(j) = 8 => Head(j) = "erase first"
         /\ Len(j) = 7 => Head(j) = "erase second"
         /\ Len(j) \in 2 .. 6 => Head(j) = InstallJob[7 - Len(j)]
         /\ Len(j) = 1 => Head(j) = end
         /\ Len(j) > 1 => /\ LeftOf(Tail(j), TestJob(end)) /\ Tail(j) \in Seq(StepNames)
                          /\ Len(Tail(j)) = Len(j) - 1
<1> DEFINE w == TestJob(end)
           v == InstallJob
<1>1. Len(w) = 11 /\ 11 \in Nat  BY DEF TestJob
<1>2. /\ w[1] = "erase first" /\ w[2] = "erase second" /\ w[3] = "pattern"
      /\ w[4] = "erase first" /\ w[5] = "erase second" /\ w[11] = end
  BY DEF TestJob
<1>3. w[6] = v[1] /\ w[7] = v[2] /\ w[8] = v[3] /\ w[9] = v[4] /\ w[10] = v[5]
  BY DEF TestJob, InstallJob
<1>4. LeftOf(j, w)  OBVIOUS
<1> HIDE DEF w, v
<1>5. /\ Len(j) \in 1 .. 11 /\ Head(j) = w[11 - Len(j) + 1]
      /\ Len(j) > 1 => LeftOf(Tail(j), w) /\ Tail(j) \in Seq(StepNames) /\ Len(Tail(j)) = Len(j) - 1
  BY ONLY <1>1, <1>4, LeftAfter, j \in Seq(StepNames)
<1>6. \A k \in 1 .. 11 : Len(j) = k => Head(j) = w[11 - k + 1]  BY <1>5
<1>7. /\ 11 - 11 + 1 = 1 /\ 11 - 10 + 1 = 2 /\ 11 - 9 + 1 = 3 /\ 11 - 8 + 1 = 4
      /\ 11 - 7 + 1 = 5 /\ 11 - 6 + 1 = 6 /\ 11 - 5 + 1 = 7 /\ 11 - 4 + 1 = 8
      /\ 11 - 3 + 1 = 9 /\ 11 - 2 + 1 = 10 /\ 11 - 1 + 1 = 11
  OBVIOUS
<1>8. /\ Len(j) = 11 => Head(j) = w[1]
      /\ Len(j) = 10 => Head(j) = w[2]
      /\ Len(j) = 9 => Head(j) = w[3]
      /\ Len(j) = 8 => Head(j) = w[4]
      /\ Len(j) = 7 => Head(j) = w[5]
      /\ Len(j) = 6 => Head(j) = w[6]
      /\ Len(j) = 5 => Head(j) = w[7]
      /\ Len(j) = 4 => Head(j) = w[8]
      /\ Len(j) = 3 => Head(j) = w[9]
      /\ Len(j) = 2 => Head(j) = w[10]
      /\ Len(j) = 1 => Head(j) = w[11]
  BY <1>6, <1>7
<1>9. ASSUME Len(j) \in 2 .. 6 PROVE Head(j) = v[7 - Len(j)]
  <2>1. /\ Len(j) = 6 => Head(j) = v[1]
        /\ Len(j) = 5 => Head(j) = v[2]
        /\ Len(j) = 4 => Head(j) = v[3]
        /\ Len(j) = 3 => Head(j) = v[4]
        /\ Len(j) = 2 => Head(j) = v[5]
    BY <1>3, <1>8
  <2>2. 7 - 6 = 1 /\ 7 - 5 = 2 /\ 7 - 4 = 3 /\ 7 - 3 = 4 /\ 7 - 2 = 5  OBVIOUS
  <2>3. /\ Len(j) = 6 => Head(j) = v[7 - 6]
        /\ Len(j) = 5 => Head(j) = v[7 - 5]
        /\ Len(j) = 4 => Head(j) = v[7 - 4]
        /\ Len(j) = 3 => Head(j) = v[7 - 3]
        /\ Len(j) = 2 => Head(j) = v[7 - 2]
    BY <2>1, <2>2
  <2>4. Len(j) = 6 \/ Len(j) = 5 \/ Len(j) = 4 \/ Len(j) = 3 \/ Len(j) = 2  BY <1>9
  <2> QED  BY ONLY <2>3, <2>4, Zenon
<1> QED  BY <1>2, <1>5, <1>8, <1>9 DEF w, v

\* check_bootloader.
LEMMA BootHead ==
  ASSUME NEW j \in Seq(StepNames), LeftOf(j, BootJob)
  PROVE  /\ Len(j) \in 1 .. 3
         /\ Len(j) > 1 => Head(j) \in {"erase boot", "write boot"}
         /\ Len(j) = 1 => Head(j) = "halt"
         /\ Len(j) > 1 => /\ LeftOf(Tail(j), BootJob) /\ Tail(j) \in Seq(StepNames)
                          /\ Len(Tail(j)) = Len(j) - 1
<1> DEFINE w == BootJob
<1>1. Len(w) = 3 /\ 3 \in Nat  BY DEF BootJob
<1>2. w[1] = "erase boot" /\ w[2] = "write boot" /\ w[3] = "halt"  BY DEF BootJob
<1>3. LeftOf(j, w)  OBVIOUS
<1> HIDE DEF w
<1>4. /\ Len(j) \in 1 .. 3 /\ Head(j) = w[3 - Len(j) + 1]
      /\ Len(j) > 1 => LeftOf(Tail(j), w) /\ Tail(j) \in Seq(StepNames) /\ Len(Tail(j)) = Len(j) - 1
  BY ONLY <1>1, <1>3, LeftAfter, j \in Seq(StepNames)
<1>5. 3 - 3 + 1 = 1 /\ 3 - 2 + 1 = 2 /\ 3 - 1 + 1 = 3  OBVIOUS
<1>6. \A k \in 1 .. 3 : Len(j) = k => Head(j) = w[3 - k + 1]  BY <1>4
<1>7. /\ Len(j) = 3 => Head(j) = w[1]
      /\ Len(j) = 2 => Head(j) = w[2]
      /\ Len(j) = 1 => Head(j) = w[3]
  BY <1>5, <1>6
<1>8. Len(j) > 1 => Len(j) = 3 \/ Len(j) = 2  BY <1>4
<1> QED  BY <1>2, <1>4, <1>7, <1>8 DEF w

-----------------------------------------------------------------------------
(* Steps of a job.                                                         *)

\* What is read of flash does not change.
LEMMA MayStartKept ==
  MayStart /\ UNCHANGED <<magic, descriptor, storage, code, approved>> => MayStart'
BY DEF MayStart, firmware_present, Confirmed

\* A step of WipeDevice or FirmwareErase leaves no magic.
LEMMA FlashErase ==
  ASSUME job \in Seq(StepNames), EraseInv, FlashStep
  PROVE  EraseInv' /\ ~magic' /\ job' \in Seq(StepNames)
<1>1. PICK end \in {"END", "FLASHSTART"} :
        /\ LeftOf(job, EraseJob(end))
        /\ Len(job) < 4 => ~magic
        /\ Len(job) < 3 => storage = "erased"
        /\ end = "FLASHSTART" /\ ~brand_new_firmware /\ ~old_was_unsigned
             => meta_backup.storage \notin {"unsigned", "part of unsigned"}
  BY DEF EraseInv
<1> DEFINE n == Len(job)
           w == EraseJob(end)
           step == Head(job)
<1>2. n > 1 /\ job' = Tail(job) /\ UNCHANGED <<session, meta_backup>>
  BY DEF FlashStep
<1>3. /\ n \in 1 .. 4
      /\ n = 4 => step = "erase first"
      /\ n = 3 => step = "erase second"
      /\ n = 2 => step = "erase code"
      /\ LeftOf(Tail(job), w) /\ Tail(job) \in Seq(StepNames) /\ Len(Tail(job)) = n - 1
  BY ONLY <1>1, <1>2, EraseHead, job \in Seq(StepNames)
<1>4. LeftOf(job', w) /\ job' \in Seq(StepNames) /\ Len(job') = n - 1
  BY ONLY <1>2, <1>3
<1>5. (n < 4 => ~magic) /\ (n < 3 => storage = "erased")  BY <1>1
<1>a. n > 1 /\ n \in 1 .. 4  BY <1>2, <1>3
<1>b. Head(job) \notin {"erase boot", "write boot"} => Step(step)  BY DEF FlashStep
<1>c. step = Head(job)  OBVIOUS
<1> HIDE DEF n, w, step
<1>6. n = 4 \/ n = 3 \/ n = 2  BY ONLY <1>a
<1>7. step \notin {"erase boot", "write boot"}  BY ONLY <1>3, <1>6
<1>d. Step(step)  BY ONLY <1>b, <1>c, <1>7
<1>8. /\ step = "erase first" => Flashed(FALSE, NoFirmware, Part(storage), code)
      /\ step = "erase second" => Flashed(magic, descriptor, "erased", code)
      /\ step = "erase code" => Flashed(magic, descriptor, storage, 0)
  BY ONLY <1>d, Steps
<1>9. ~magic'
  <2>1. CASE n = 4  BY <1>3, <1>8, <2>1 DEF Flashed
  <2>2. CASE n = 3
    <3>1. ~magic  BY <1>5, <2>2
    <3> QED  BY <1>3, <1>8, <2>2, <3>1 DEF Flashed
  <2>3. CASE n = 2
    <3>1. ~magic  BY <1>5, <2>3
    <3> QED  BY <1>3, <1>8, <2>3, <3>1 DEF Flashed
  <2> QED  BY <1>6, <2>1, <2>2, <2>3
<1>10. ASSUME n # 4 PROVE storage' = "erased"
  <2>2. CASE n = 3  BY <1>3, <1>8, <2>2 DEF Flashed
  <2>3. CASE n = 2
    <3>1. storage = "erased"  BY <1>5, <2>3
    <3> QED  BY <1>3, <1>8, <2>3, <3>1 DEF Flashed
  <2> QED  BY <1>6, <1>10, <2>2, <2>3
<1>11. Len(job') < 3 => n # 4  BY <1>4, <1>6
<1>12. end = "FLASHSTART" /\ ~brand_new_firmware' /\ ~old_was_unsigned'
         => meta_backup'.storage \notin {"unsigned", "part of unsigned"}
  BY <1>1, <1>2 DEF session
<1> QED  BY <1>4, <1>9, <1>10, <1>11, <1>12 DEF EraseInv, w

\* restore_metadata does not touch the boot loader.
LEMMA RestoringNames ==
  ASSUME NEW n \in 2 .. 6, NEW step, step = InstallJob[7 - n]
  PROVE  step \notin {"erase boot", "write boot"}
<1>1. 7 - n \in 1 .. 5  OBVIOUS
<1>2. \A k \in 1 .. 5 : k = 1 \/ k = 2 \/ k = 3 \/ k = 4 \/ k = 5  OBVIOUS
<1>3. /\ InstallJob[1] = "magic" /\ InstallJob[2] = "half descriptor"
      /\ InstallJob[3] = "descriptor" /\ InstallJob[4] = "some storage" /\ InstallJob[5] = "storage"
  BY DEF InstallJob
<1>4. \A k \in 1 .. 5 : InstallJob[k] \notin {"erase boot", "write boot"}
  BY <1>2, <1>3
<1> QED  BY <1>1, <1>4

\* restore_metadata, in an upload or in a self test.
LEMMA FlashRestore ==
  ASSUME Len(job) \in 2 .. 6, Head(job) = InstallJob[7 - Len(job)], Restoring(Len(job)),
         job' \in Seq(StepNames), Len(job') = Len(job) - 1, FlashStep
  PROVE  Restoring(Len(job))' /\ MayStart'
<1>1. PICK n \in 2 .. 6 : n = Len(job)  OBVIOUS
<1>2. PICK step : step = Head(job)  OBVIOUS
<1>3. step = InstallJob[7 - n] /\ Restoring(n)  BY <1>1, <1>2
<1>4. step \notin {"erase boot", "write boot"}  BY ONLY <1>3, RestoringNames, n \in 2 .. 6
<1>5. Head(job) \notin {"erase boot", "write boot"} => Step(step)  BY <1>2 DEF FlashStep
<1>6. UNCHANGED <<meta_backup, approved>>  BY DEF FlashStep
<1>7. Step(step)  BY ONLY <1>2, <1>4, <1>5
<1>8. Restoring(n - 1)'  BY ONLY <1>3, <1>6, <1>7, RestoringStep, n \in 2 .. 6
<1>9. Len(job') = n - 1 /\ n - 1 \in 1 .. 6  BY <1>1
<1>10. Restoring(Len(job))'  BY ONLY <1>8, <1>9
<1>11. MayStart'
  <2>1. PICK m \in 1 .. 6 : m = n - 1  BY ONLY <1>9
  <2>2. Restoring(m)'  BY ONLY <1>8, <2>1
  <2> QED  BY ONLY <2>2, RestoringMayStartNext, m \in 1 .. 6
<1> QED  BY <1>10, <1>11

\* A step at the end of FirmwareUpload.
LEMMA FlashInstall ==
  ASSUME job \in Seq(StepNames), InstallInv, FlashStep
  PROVE  InstallInv' /\ MayStart' /\ job' \in Seq(StepNames)
<1> DEFINE n == Len(job)
           step == Head(job)
<1>1. n > 1 /\ job' = Tail(job)  BY DEF FlashStep
<1>2. LeftOf(job, InstallJob) /\ Restoring(n)  BY DEF InstallInv
<1>3. /\ n \in 1 .. 6 /\ step = InstallJob[7 - n]
      /\ LeftOf(Tail(job), InstallJob) /\ Tail(job) \in Seq(StepNames) /\ Len(Tail(job)) = n - 1
  BY ONLY <1>1, <1>2, InstallHead, job \in Seq(StepNames)
<1>4. LeftOf(job', InstallJob) /\ job' \in Seq(StepNames) /\ Len(job') = n - 1
  BY ONLY <1>1, <1>3
<1>5. n \in 2 .. 6
  <2>1. n > 1 /\ n \in 1 .. 6  BY ONLY <1>1, <1>3
  <2> HIDE DEF n
  <2> QED  BY ONLY <2>1
<1>6. Restoring(Len(job))' /\ MayStart'
  BY ONLY <1>2, <1>3, <1>4, <1>5, FlashStep, FlashRestore
<1> QED  BY <1>4, <1>6 DEF InstallInv

\* A step of SelfTest.
LEMMA FlashSelfTest ==
  ASSUME job \in Seq(StepNames), TestInv, FlashStep
  PROVE  TestInv' /\ MayStart' /\ job' \in Seq(StepNames)
<1> DEFINE n == Len(job)
           w == TestJob(flash_state)
           step == Head(job)
<1>1. n > 1 /\ job' = Tail(job) /\ UNCHANGED <<flash_state, session, meta_backup, approved>>
  BY DEF FlashStep
<1>2. LeftOf(job, w)  BY DEF TestInv
<1>3. /\ n \in 1 .. 11
      /\ n = 11 => step = "erase first"
      /\ n = 10 => step = "erase second"
      /\ n = 9 => step = "pattern"
      /\ n = 8 => step = "erase first"
      /\ n = 7 => step = "erase second"
      /\ n \in 2 .. 6 => step = InstallJob[7 - n]
      /\ LeftOf(Tail(job), w) /\ Tail(job) \in Seq(StepNames) /\ Len(Tail(job)) = n - 1
  BY ONLY <1>1, <1>2, TestHead, job \in Seq(StepNames)
<1>4. LeftOf(job', w) /\ job' \in Seq(StepNames) /\ Len(job') = n - 1
  BY ONLY <1>1, <1>3
<1>5. LeftOf(job', TestJob(flash_state'))  BY <1>1, <1>4
<1>6. /\ BackupMayStart
      /\ n \in 7 .. 10 => ~magic /\ descriptor = NoFirmware
      /\ n <= 6 => Restoring(n)
      /\ flash_state' \in {"READY", "OPEN"}
      /\ brand_new_firmware' \/ (meta_backup'.magic /\ meta_backup'.descriptor.fits)
  BY <1>1 DEF TestInv, session
<1>7. n > 1 /\ n \in 1 .. 11 /\ Len(job') = n - 1  BY <1>1, <1>3, <1>4
<1>8. Head(job) \notin {"erase boot", "write boot"} => Step(step)  BY DEF FlashStep
<1>9. step = Head(job)  OBVIOUS
<1>10. CASE n \in 2 .. 6
  <2>1. Restoring(n)
    <3>1. n <= 6  BY ONLY <1>7, <1>10
    <3> QED  BY ONLY <1>6, <3>1
  <2>2. Head(job) = InstallJob[7 - n]  BY ONLY <1>3, <1>9, <1>10
  <2>3. Restoring(Len(job))' /\ MayStart'
    BY ONLY <1>4, <1>10, <2>1, <2>2, FlashStep, FlashRestore
  <2> HIDE DEF n
  <2>4. Len(job') \in 1 .. 5  BY ONLY <1>7, <1>10
  <2>5. ~(Len(job') \in 7 .. 10)  BY ONLY <2>4
  <2>6. BackupMayStart'  BY <2>3 DEF Restoring
  <2> QED  BY <1>4, <1>5, <1>6, <2>3, <2>5, <2>6 DEF TestInv
<1>11. CASE n \in 7 .. 11
  <2> HIDE DEF n, w, step
  <2>1. n = 11 \/ n = 10 \/ n = 9 \/ n = 8 \/ n = 7  BY ONLY <1>11
  <2>2. step \notin {"erase boot", "write boot"}  BY ONLY <1>3, <2>1
  <2>3. Step(step)  BY ONLY <1>8, <1>9, <2>2
  <2>4. /\ step = "erase first" => Flashed(FALSE, NoFirmware, Part(storage), code)
        /\ step = "erase second" => Flashed(magic, descriptor, "erased", code)
        /\ step = "pattern" => Flashed(FALSE, NoFirmware, "pattern", code)
    BY ONLY <2>3, Steps
  <2>5. n # 11 => ~magic /\ descriptor = NoFirmware
    <3>1. n # 11 => n \in 7 .. 10  BY ONLY <1>11
    <3> QED  BY ONLY <1>6, <3>1
  <2>6. ~magic' /\ descriptor' = NoFirmware /\ code' = code /\ (n = 7 => storage' = "erased")
    <3>1. CASE n = 11 \/ n = 8  BY <1>3, <2>4, <3>1 DEF Flashed
    <3>2. CASE n = 10 \/ n = 7
      <4>1. ~magic /\ descriptor = NoFirmware  BY ONLY <2>5, <3>2
      <4>2. step = "erase second"  BY ONLY <1>3, <3>2
      <4>3. Flashed(magic, descriptor, "erased", code)  BY ONLY <2>4, <4>2
      <4>4. magic' = magic /\ descriptor' = descriptor /\ storage' = "erased" /\ code' = code
        BY ONLY <4>3 DEF Flashed
      <4> QED  BY <4>1, <4>4
    <3>3. CASE n = 9  BY <1>3, <2>4, <3>3 DEF Flashed
    <3> QED  BY <2>1, <3>1, <3>2, <3>3
  <2>7. BackupMayStart'  BY <1>1, <1>6, <2>6 DEF BackupMayStart, Confirmed
  <2>8. MayStart'  BY <2>6 DEF MayStart, firmware_present
  <2>9. Len(job') <= 6 => n = 7 /\ Len(job') = 6  BY ONLY <1>7, <1>11
  <2>10. n = 7 /\ Len(job') = 6 => Restoring(Len(job))'
    <3>1. n = 7 => Restoring(6)'  BY <2>6, <2>7 DEF Restoring
    <3> QED  BY ONLY <3>1
  <2> QED  BY <1>4, <1>5, <1>6, <2>6, <2>7, <2>8, <2>9, <2>10 DEF TestInv
<1> QED
  <2> HIDE DEF n
  <2>1. n \in 2 .. 6 \/ n \in 7 .. 11  BY ONLY <1>7
  <2> QED  BY <1>10, <1>11, <2>1

\* A step of check_bootloader.
LEMMA FlashBoot ==
  ASSUME job \in Seq(StepNames), BootInv, MayStart, FlashStep
  PROVE  BootInv' /\ MayStart' /\ job' \in Seq(StepNames)
         /\ UNCHANGED <<magic, descriptor, storage, code>>
<1>1. Len(job) > 1 /\ job' = Tail(job) /\ UNCHANGED <<running, approved>>  BY DEF FlashStep
<1>2. LeftOf(job, BootJob) /\ running # "loader"  BY DEF BootInv
<1>3. /\ Head(job) \in {"erase boot", "write boot"}
      /\ LeftOf(Tail(job), BootJob) /\ Tail(job) \in Seq(StepNames)
  BY ONLY <1>1, <1>2, BootHead, job \in Seq(StepNames)
<1>4. UNCHANGED <<magic, descriptor, storage, code>>  BY <1>3 DEF FlashStep
<1>5. MayStart'  BY <1>1, <1>4, MayStartKept
<1> QED  BY <1>1, <1>2, <1>3, <1>4, <1>5 DEF BootInv

\* A step of any job.
LEMMA FlashStepKeeps ==
  ASSUME BootInvariant, FlashStep
  PROVE  BootInvariant'
<1>1. MayStart /\ JobInv /\ LoaderInv  BY DEF BootInvariant
<1>2. /\ Len(job) > 1 /\ job' = Tail(job)
      /\ UNCHANGED <<running, flash_state, session, meta_backup, approved>>
  BY DEF FlashStep
<1>3. job # <<>>
  <2>1. Len(<<>>) = 0  OBVIOUS
  <2> QED  BY <1>2, <2>1
<1>4. job \in Seq(StepNames)  BY <1>1 DEF JobInv
<1>5. CASE running = "loader" /\ (EraseInv \/ TestInv \/ InstallInv)
  <2>1. (EraseInv \/ TestInv \/ InstallInv)' /\ MayStart' /\ job' \in Seq(StepNames)
    <3>1. CASE EraseInv
      <4>1. ~magic' => MayStart'  BY DEF MayStart, firmware_present
      <4> QED  BY <1>4, <3>1, <4>1, FlashErase
    <3>2. CASE TestInv  BY <1>4, <3>2, FlashSelfTest
    <3>3. CASE InstallInv  BY <1>4, <3>3, FlashInstall
    <3> QED  BY <1>5, <3>1, <3>2, <3>3
  <2>2. job' # <<>>  BY <2>1 DEF EraseInv, TestInv, InstallInv, LeftOf
  <2>3. JobInv'  BY <1>2, <1>5, <2>1 DEF JobInv
  <2>4. LoaderInv'  BY <1>2, <1>5, <2>2 DEF LoaderInv
  <2> QED  BY <2>1, <2>3, <2>4 DEF BootInvariant
<1>6. CASE BootInv
  <2>1. BootInv' /\ MayStart' /\ job' \in Seq(StepNames) /\ UNCHANGED <<magic, descriptor, storage, code>>
    BY <1>1, <1>4, <1>6, FlashBoot
  <2>2. job' # <<>>  BY <2>1 DEF BootInv, LeftOf
  <2>3. running # "loader" /\ running # "off"  BY <1>1, <1>3, <1>6 DEF BootInv, LoaderInv
  <2>4. LoaderInv'
    BY <1>1, <1>2, <2>1, <2>2, <2>3 DEF LoaderInv, Whole, firmware_present
  <2> QED  BY <2>1, <2>4 DEF BootInvariant, JobInv
<1> QED  BY <1>1, <1>3, <1>5, <1>6 DEF JobInv

-----------------------------------------------------------------------------
(* The end of a job.                                                       *)

\* The last entry of a job.
LEMMA OneStepLeft ==
  ASSUME job \in Seq(StepNames), Len(job) = 1
  PROVE  /\ \A end : LeftOf(job, EraseJob(end)) => Head(job) = end
         /\ \A end : LeftOf(job, TestJob(end)) => Head(job) = end
         /\ LeftOf(job, InstallJob) => Head(job) = "END"
         /\ LeftOf(job, BootJob) => Head(job) = "halt"
<1>1. ASSUME NEW end, LeftOf(job, EraseJob(end)) PROVE Head(job) = end
  BY ONLY <1>1, EraseHead, job \in Seq(StepNames), Len(job) = 1
<1>2. ASSUME NEW end, LeftOf(job, TestJob(end)) PROVE Head(job) = end
  BY ONLY <1>2, TestHead, job \in Seq(StepNames), Len(job) = 1
<1>3. ASSUME LeftOf(job, InstallJob) PROVE Head(job) = "END"
  BY ONLY <1>3, InstallHead, job \in Seq(StepNames), Len(job) = 1
<1>4. ASSUME LeftOf(job, BootJob) PROVE Head(job) = "halt"
  BY ONLY <1>4, BootHead, job \in Seq(StepNames), Len(job) = 1
<1> QED  BY <1>1, <1>2, <1>3, <1>4

\* Nothing is left to do.
LEMMA NoJob == job' = <<>> => JobInv'
<1> SUFFICES ASSUME job' = <<>> PROVE JobInv'
  OBVIOUS
<1>1. job' \in Seq(StepNames)
  <2>1. <<>> \in Seq(StepNames)  BY EmptySeq
  <2> QED  BY ONLY <2>1, job' = <<>>
<1> QED  BY <1>1 DEF JobInv

\* Where a job ends.
LEMMA JobDoneKeeps ==
  ASSUME BootInvariant, JobDone
  PROVE  BootInvariant'
<1>1. MayStart /\ JobInv /\ LoaderInv  BY DEF BootInvariant
<1>2. Len(job) = 1 /\ job' = <<>> /\ UNCHANGED <<flash, session, approved>>  BY DEF JobDone
<1>3. job # <<>>
  <2>1. Len(<<>>) = 0  OBVIOUS
  <2> QED  BY <1>2, <2>1
<1>4. job \in Seq(StepNames)  BY <1>1 DEF JobInv
<1>5. MayStart'  BY <1>1, <1>2, MayStartKept DEF flash
<1>6. JobInv'  BY <1>2, NoJob
<1>7. /\ \A end : LeftOf(job, EraseJob(end)) => Head(job) = end
      /\ \A end : LeftOf(job, TestJob(end)) => Head(job) = end
      /\ LeftOf(job, InstallJob) => Head(job) = "END"
      /\ LeftOf(job, BootJob) => Head(job) = "halt"
  BY ONLY <1>2, <1>4, OneStepLeft
<1>8. /\ Head(job) = "halt" => running' = "halt" /\ UNCHANGED <<flash_state, meta_backup>>
      /\ Head(job) # "halt" =>
           /\ running' = running
           /\ flash_state' = Head(job) \/ (Head(job) = "FLASHSTART" /\ flash_state' = "END")
           /\ Head(job) = "FLASHSTART" => meta_backup' = meta_backup
  BY DEF JobDone
<1>9. CASE running = "loader" /\ EraseInv
  <2>1. PICK end \in {"END", "FLASHSTART"} :
          /\ LeftOf(job, EraseJob(end))
          /\ Len(job) < 4 => ~magic
          /\ Len(job) < 3 => storage = "erased"
          /\ end = "FLASHSTART" /\ ~brand_new_firmware /\ ~old_was_unsigned
               => meta_backup.storage \notin {"unsigned", "part of unsigned"}
    BY <1>9 DEF EraseInv
  <2>2. Head(job) = end  BY ONLY <1>7, <2>1
  <2>3. Erased
    <3>1. Len(job) < 4 /\ Len(job) < 3  BY <1>2
    <3> QED  BY <2>1, <3>1, Zenon DEF Erased
  <2>4. running' = "loader"  BY ONLY <1>8, <1>9, <2>1, <2>2
  <2>5. flash_state' \in {"END", "FLASHSTART"} /\ (flash_state' = "FLASHSTART" => end = "FLASHSTART")
    BY ONLY <1>8, <2>1, <2>2
  <2>6. end = "FLASHSTART" => meta_backup' = meta_backup  BY ONLY <1>8, <2>2
  <2>7. LoaderInv'
    BY <1>2, <2>1, <2>3, <2>4, <2>5, <2>6 DEF LoaderInv, Loading, Erased, flash, session
  <2> QED  BY <1>5, <1>6, <2>7 DEF BootInvariant
<1>10. CASE running = "loader" /\ TestInv
  <2>1. LeftOf(job, TestJob(flash_state)) /\ flash_state \in {"READY", "OPEN"}
    BY <1>10 DEF TestInv
  <2>2. Head(job) = flash_state  BY ONLY <1>7, <2>1
  <2>3. running' = "loader" /\ flash_state' = flash_state  BY ONLY <1>8, <1>10, <2>1, <2>2
  <2>4. Restoring(1)
    <3>1. Len(job) <= 6  BY <1>2
    <3>2. Restoring(Len(job))  BY <1>10, <3>1 DEF TestInv
    <3> QED  BY ONLY <1>2, <3>2
  <2>5. magic = meta_backup.magic /\ descriptor = meta_backup.descriptor  BY <2>4 DEF Restoring
  <2>6. brand_new_firmware \/ firmware_present  BY <1>10, <2>5 DEF TestInv, firmware_present
  <2>7. LoaderInv'
    BY <1>2, <2>1, <2>3, <2>6 DEF LoaderInv, Loading, firmware_present, flash, session
  <2> QED  BY <1>5, <1>6, <2>7 DEF BootInvariant
<1>11. CASE running = "loader" /\ InstallInv
  <2>1. Head(job) = "END"  BY <1>7, <1>11 DEF InstallInv
  <2>2. running' = "loader" /\ flash_state' = "END"  BY ONLY <1>8, <1>11, <2>1
  <2>3. LoaderInv'  BY <2>2 DEF LoaderInv, Loading
  <2> QED  BY <1>5, <1>6, <2>3 DEF BootInvariant
<1>12. CASE BootInv
  <2>1. Head(job) = "halt" /\ running # "loader"  BY <1>7, <1>12 DEF BootInv
  <2>2. running' = "halt" /\ flash_state' = flash_state  BY ONLY <1>8, <2>1
  <2>3. flash_state = "READY"  BY <1>1, <2>1 DEF LoaderInv
  <2>4. LoaderInv'  BY <2>2, <2>3 DEF LoaderInv, Loading
  <2> QED  BY <1>5, <1>6, <2>4 DEF BootInvariant
<1> QED  BY <1>1, <1>3, <1>9, <1>10, <1>11, <1>12 DEF JobInv

-----------------------------------------------------------------------------
(* Starting.                                                               *)

\* signatures_ok, of the flash.
LEMMA SignaturesAreWhole == signatures_ok <=> Whole(descriptor, code)
BY DEF signatures_ok, Whole

\* A start of the boot loader or of the firmware, power lost, and a seed stored.
LEMMA StartKeeps ==
  ASSUME BootInvariant, load_app \/ show_halt \/ bootloader_loop \/ PowerLoss \/ FirmwareStores
  PROVE  BootInvariant'
<1>1. MayStart /\ JobInv /\ LoaderInv  BY DEF BootInvariant
<1>2. CASE load_app
  <2>1. /\ running = "off" /\ firmware_present
        /\ UNCHANGED <<flash, approved, flash_state, session, meta_backup>>
    BY <1>2 DEF load_app, Starting
  <2>2. flash_state = "READY"  BY <1>1, <2>1 DEF LoaderInv
  <2>3. MayStart'  BY <1>1, <2>1, MayStartKept DEF flash
  <2>4. /\ running' = IF boot = "unknown" THEN "halt" ELSE IF signatures_ok THEN "signed" ELSE "unsigned"
        /\ \/ boot = "old" /\ job' = <<"erase boot", "write boot", "halt">>
           \/ job' = <<>>
    BY <1>2 DEF load_app, check_bootloader
  <2>5. running' \in {"halt", "signed", "unsigned"}  BY <2>4
  <2>6. /\ running' = "signed" => Whole(descriptor, code)
        /\ running' = "unsigned" => ~Whole(descriptor, code)
    BY <2>4, SignaturesAreWhole
  <2>7. JobInv'
    <3>1. CASE job' = <<>>  BY <3>1, NoJob
    <3>2. CASE job' = <<"erase boot", "write boot", "halt">>
      <4>1. job' \in Seq(StepNames) /\ LeftOf(job', BootJob)  BY ONLY <3>2, BootIsJob
      <4> QED  BY <2>5, <4>1 DEF JobInv, BootInv
    <3> QED  BY <2>4, <3>1, <3>2
  <2>8. LoaderInv'
    <3>1. firmware_present' /\ Whole(descriptor, code)' = Whole(descriptor, code)
      BY <2>1 DEF firmware_present, flash
    <3> QED  BY <2>1, <2>2, <2>5, <2>6, <3>1 DEF LoaderInv, Loading
  <2> QED  BY <2>3, <2>7, <2>8 DEF BootInvariant
<1>3. CASE show_halt
  <2>1. /\ running = "off" /\ running' = "halt"
        /\ UNCHANGED <<flash, approved, flash_state, job>>
    BY <1>3 DEF show_halt, Starting
  <2>2. flash_state = "READY" /\ job' = <<>>  BY <1>1, <2>1 DEF LoaderInv
  <2>3. MayStart'  BY <1>1, <2>1, MayStartKept DEF flash
  <2>4. JobInv'  BY <2>2, NoJob
  <2>5. LoaderInv'  BY <2>1, <2>2 DEF LoaderInv, Loading
  <2> QED  BY <2>3, <2>4, <2>5 DEF BootInvariant
<1>4. CASE bootloader_loop
  <2>1. /\ running = "off" /\ running' = "loader" /\ flash_state' = "READY"
        /\ brand_new_firmware' = ~firmware_present
        /\ UNCHANGED <<flash, approved, job>>
    BY <1>4 DEF bootloader_loop, Starting, Fresh
  <2>2. job' = <<>>  BY <1>1, <2>1 DEF LoaderInv
  <2>3. MayStart'  BY <1>1, <2>1, MayStartKept DEF flash
  <2>4. JobInv'  BY <2>2, NoJob
  <2>5. brand_new_firmware' \/ firmware_present'  BY <2>1 DEF firmware_present, flash
  <2>6. LoaderInv'  BY <2>1, <2>2, <2>5 DEF LoaderInv, Loading
  <2> QED  BY <2>3, <2>4, <2>6 DEF BootInvariant
<1>5. CASE PowerLoss
  <2>1. /\ running' = "off" /\ job' = <<>> /\ flash_state' = "READY"
        /\ UNCHANGED <<flash, approved>>
    BY <1>5 DEF PowerLoss, Fresh
  <2>2. MayStart'  BY <1>1, <2>1, MayStartKept DEF flash
  <2>3. JobInv'  BY <2>1, NoJob
  <2>4. LoaderInv'  BY <2>1 DEF LoaderInv, Loading
  <2> QED  BY <2>2, <2>3, <2>4 DEF BootInvariant
<1>6. CASE FirmwareStores
  <2>1. /\ running \in {"signed", "unsigned"} /\ job' = <<>> /\ storage' = running
        /\ UNCHANGED <<magic, descriptor, code, running, flash_state, approved>>
    BY <1>6 DEF FirmwareStores
  <2>2. /\ running = "signed" => firmware_present /\ Whole(descriptor, code)
        /\ running = "unsigned" => ~Whole(descriptor, code)
        /\ flash_state = "READY"
    BY <1>1, <2>1 DEF LoaderInv
  <2>3. Fitting(descriptor, code, running)  BY <2>1, <2>2 DEF Fitting
  <2>4. MayStart'  BY <1>1, <2>1, <2>3 DEF MayStart, firmware_present, Confirmed
  <2>5. JobInv'  BY <2>1, NoJob
  <2>6. LoaderInv'  BY <2>1, <2>2 DEF LoaderInv, Loading, firmware_present
  <2> QED  BY <2>4, <2>5, <2>6 DEF BootInvariant
<1> QED  BY <1>2, <1>3, <1>4, <1>5, <1>6

-----------------------------------------------------------------------------
(* Messages.                                                               *)

\* What a message finds.
LEMMA ReadyFacts ==
  ASSUME NEW states, BootInvariant, Ready(states)
  PROVE  /\ MayStart /\ LoaderInv /\ running = "loader" /\ job = <<>> /\ flash_state \in states
         /\ states \subseteq {"READY", "OPEN"} => brand_new_firmware \/ firmware_present
         /\ states \subseteq Loading =>
              /\ Erased
              /\ ~brand_new_firmware /\ ~old_was_unsigned
                   => meta_backup.storage \notin {"unsigned", "part of unsigned"}
<1>1. MayStart /\ LoaderInv /\ running = "loader" /\ job = <<>> /\ flash_state \in states
  BY DEF BootInvariant, Ready
<1>2. states \subseteq {"READY", "OPEN"} => brand_new_firmware \/ firmware_present
  BY <1>1 DEF LoaderInv
<1>3. states \subseteq Loading =>
        /\ Erased
        /\ ~brand_new_firmware /\ ~old_was_unsigned
             => meta_backup.storage \notin {"unsigned", "part of unsigned"}
  BY <1>1 DEF LoaderInv
<1> QED  BY <1>1, <1>2, <1>3

\* A job is started.
LEMMA Started ==
  ASSUME MayStart', running' = "loader", job' # <<>>, job' \in Seq(StepNames),
         (EraseInv \/ TestInv \/ InstallInv)'
  PROVE  BootInvariant'
<1>1. JobInv'  BY DEF JobInv
<1>2. LoaderInv'  BY DEF LoaderInv
<1> QED  BY <1>1, <1>2 DEF BootInvariant

\* A message is answered at once.
LEMMA EndsKeeps ==
  ASSUME NEW state \in {"OPEN", "END"}, NEW states, BootInvariant, Ready(states),
         state = "OPEN" => states \subseteq {"READY", "OPEN"}, Ends(state)
  PROVE  BootInvariant'
<1>1. MayStart /\ running = "loader" /\ job = <<>>
      /\ (state = "OPEN" => brand_new_firmware \/ firmware_present)
  BY ReadyFacts
<1>2. flash_state' = state /\ UNCHANGED <<flash, running, session, job, approved>>  BY DEF Ends
<1>3. MayStart'  BY <1>1, <1>2, MayStartKept DEF flash
<1>4. JobInv'  BY <1>1, <1>2, NoJob
<1>5. LoaderInv'  BY <1>1, <1>2 DEF LoaderInv, Loading, firmware_present, flash, session
<1> QED  BY <1>3, <1>4, <1>5 DEF BootInvariant

\* WipeDevice and FirmwareErase start to erase.
LEMMA EraseStarts ==
  ASSUME NEW end \in {"END", "FLASHSTART"}, MayStart, running = "loader", Starts(EraseAll, end),
         end = "FLASHSTART" /\ ~brand_new_firmware' /\ ~old_was_unsigned'
           => meta_backup'.storage \notin {"unsigned", "part of unsigned"}
  PROVE  BootInvariant' /\ EraseInv' /\ job' # <<>> /\ job'[Len(job')] = end
<1>1. job' = Append(EraseAll, end) /\ UNCHANGED <<flash, running, approved>>  BY DEF Starts
<1>2. /\ Append(EraseAll, end) \in Seq(StepNames) /\ Len(Append(EraseAll, end)) = 4
      /\ LeftOf(Append(EraseAll, end), EraseJob(end))
  BY EraseIsJob
<1>3. job' \in Seq(StepNames) /\ Len(job') = 4 /\ LeftOf(job', EraseJob(end))
  BY ONLY <1>1, <1>2
<1>4. ~(Len(job') < 4) /\ ~(Len(job') < 3)
  <2>1. Len(job') = 4  BY ONLY <1>3
  <2> QED  BY ONLY <2>1
<1>5. EraseInv'  BY <1>3, <1>4, Zenon DEF EraseInv
<1>6. MayStart'  BY <1>1, MayStartKept DEF flash
<1>7. job' # <<>>  BY <1>3 DEF LeftOf
<1>8. job'[Len(job')] = end
  <2>1. PICK w : w = EraseJob(end)  OBVIOUS
  <2>2. PICK j : j = job'  OBVIOUS
  <2>3. w[4] = end /\ Len(w) = 4  BY <2>1 DEF EraseJob
  <2>4. LeftOf(j, w) /\ Len(j) = 4  BY ONLY <1>3, <2>1, <2>2
  <2>5. j[4] = w[4]
    <3>1. \A i \in 1 .. 4 : j[i] = w[4 - 4 + i]  BY ONLY <2>3, <2>4 DEF LeftOf
    <3>2. 4 \in 1 .. 4 /\ 4 - 4 + 4 = 4  BY ONLY <2>3
    <3> QED  BY ONLY <3>1, <3>2
  <2> QED  BY ONLY <2>2, <2>3, <2>4, <2>5
<1> QED  BY <1>1, <1>3, <1>5, <1>6, <1>7, <1>8, Started

\* The backup of SelfTest is what may be started now.
LEMMA SelfTestKeeps ==
  ASSUME BootInvariant, SelfTest
  PROVE  BootInvariant' /\ TestInv' /\ job' # <<>>
<1>1. Ready({"READY", "OPEN"}) /\ Backup /\ UNCHANGED session /\ Starts(FlashTest, flash_state)
  BY DEF SelfTest, FlashTest
<1>2. /\ MayStart /\ running = "loader" /\ flash_state \in {"READY", "OPEN"}
      /\ brand_new_firmware \/ firmware_present
  BY <1>1, ReadyFacts
<1>3. job' = Append(FlashTest, flash_state) /\ UNCHANGED <<flash, running, flash_state, approved>>
  BY <1>1 DEF Starts
<1>4. PICK end \in {"READY", "OPEN"} : end = flash_state  BY <1>2
<1>5. /\ Append(FlashTest, end) \in Seq(StepNames) /\ Len(Append(FlashTest, end)) = 11
      /\ LeftOf(Append(FlashTest, end), TestJob(end))
  BY TestIsJob
<1>6. job' \in Seq(StepNames) /\ Len(job') = 11 /\ LeftOf(job', TestJob(flash_state'))
  BY ONLY <1>3, <1>4, <1>5
<1>7. MayStart'  BY <1>2, <1>3, MayStartKept DEF flash
<1>8. /\ meta_backup'.magic = magic /\ meta_backup'.descriptor = descriptor
      /\ meta_backup'.storage = storage
  BY <1>1 DEF Backup
<1>9. BackupMayStart'
  BY <1>2, <1>3, <1>8 DEF BackupMayStart, MayStart, firmware_present, Confirmed, flash
<1>10. brand_new_firmware' \/ (meta_backup'.magic /\ meta_backup'.descriptor.fits)
  BY <1>1, <1>2, <1>8 DEF firmware_present, session
<1>11. ~(Len(job') \in 7 .. 10) /\ ~(Len(job') <= 6)  BY <1>6
<1>12. flash_state' \in {"READY", "OPEN"}  BY <1>2, <1>3
<1>13. TestInv'  BY <1>6, <1>9, <1>10, <1>11, <1>12, Zenon DEF TestInv
<1>14. job' # <<>>  BY <1>6 DEF LeftOf
<1> QED  BY <1>2, <1>3, <1>6, <1>7, <1>13, <1>14, Started

\* The backup of FirmwareErase is made of a signed firmware only.
LEMMA FirmwareEraseKeeps ==
  ASSUME BootInvariant, FirmwareErase
  PROVE  BootInvariant'
<1>1. Ready({"OPEN"})  BY DEF FirmwareErase
<1>2. /\ MayStart /\ running = "loader"
      /\ brand_new_firmware \/ firmware_present
  BY <1>1, ReadyFacts
<1>3. CASE Ends("END")  BY <1>1, <1>3, EndsKeeps
<1>4. CASE /\ Starts(EraseAll, "FLASHSTART")
           /\ old_was_unsigned' = ~OldIsSigned /\ UNCHANGED brand_new_firmware
           /\ IF OldIsSigned THEN Backup ELSE UNCHANGED meta_backup
  <2>1. ASSUME ~brand_new_firmware', ~old_was_unsigned'
        PROVE  meta_backup'.storage \notin {"unsigned", "part of unsigned"}
    <3>1. OldIsSigned  BY <1>4, <2>1
    <3>2. Whole(descriptor, code) /\ ~brand_new_firmware
      BY <3>1, SignaturesAreWhole DEF OldIsSigned
    <3>3. storage \notin {"unsigned", "part of unsigned"}
      BY <1>2, <3>2 DEF MayStart, Fitting
    <3>4. meta_backup'.storage = storage  BY <1>4, <3>1 DEF Backup
    <3> QED  BY <3>3, <3>4
  <2> QED  BY <1>2, <1>4, <2>1, EraseStarts
<1> QED  BY <1>3, <1>4 DEF FirmwareErase

\* The descriptor of an upload is written without its magic.
LEMMA FirmwareUploadKeeps ==
  ASSUME BootInvariant, NEW f \in Firmwares, NEW len \in Lengths, FirmwareUpload(f, len)
  PROVE  BootInvariant'
<1>1. Ready({"FLASHSTART"})  BY DEF FirmwareUpload
<1>2. /\ running = "loader" /\ job = <<>> /\ Erased
      /\ ~brand_new_firmware /\ ~old_was_unsigned
           => meta_backup.storage \notin {"unsigned", "part of unsigned"}
  BY <1>1, ReadyFacts DEF Loading
<1>3. flash_state' = "FLASHING" /\ UNCHANGED <<magic, storage, running, session, meta_backup, job>>
  BY DEF FirmwareUpload
<1>4. MayStart'  BY <1>2, <1>3 DEF MayStart, firmware_present, Erased
<1>5. JobInv'  BY <1>2, <1>3, NoJob
<1>6. LoaderInv'  BY <1>2, <1>3 DEF LoaderInv, Erased, session
<1> QED  BY <1>4, <1>5, <1>6 DEF BootInvariant

\* Before the first step of restore_metadata.
LEMMA NothingRestored ==
  BackupMayStart' /\ ~magic' /\ storage' = "erased" /\ descriptor' = meta_backup'.descriptor
    => Restoring(6)'
BY DEF Restoring

\* Install writes what may be started.
LEMMA InstallStarts ==
  ASSUME Erased, NEW ok \in BOOLEAN, NEW c, Install(ok, c), code' = c,
         UNCHANGED <<magic, descriptor, storage, running>>, running = "loader",
         ~brand_new_firmware /\ ~old_was_unsigned
           => meta_backup.storage \notin {"unsigned", "part of unsigned"},
         ~Wipes => code' = code
  PROVE  BootInvariant' /\ InstallInv' /\ job' # <<>>
<1>1. /\ meta_backup'.magic = ok /\ meta_backup'.descriptor = descriptor
      /\ meta_backup'.storage = IF Wipes THEN "zero" ELSE meta_backup.storage
      /\ job' = Append(restore_metadata, "END")
      /\ ok => approved'.firmware = descriptor /\ approved'.code = c
  BY DEF Install
<1>2. job' \in Seq(StepNames) /\ Len(job') = 6 /\ LeftOf(job', InstallJob)
  BY ONLY <1>1, InstallIsJob
<1>3. Fitting(descriptor, c, meta_backup'.storage)
  <2>1. CASE Wipes
    <3>1. meta_backup'.storage = "zero"  BY <1>1, <2>1
    <3> QED  BY <3>1, NothingFits
  <2>2. CASE ~Wipes
    <3>1. ~brand_new_firmware /\ ~old_was_unsigned /\ signatures_ok  BY <2>2 DEF Wipes
    <3>2. Whole(descriptor, c)  BY <2>2, <3>1, SignaturesAreWhole
    <3>3. meta_backup'.storage = meta_backup.storage  BY <1>1, <2>2
    <3> QED  BY <3>1, <3>2, <3>3 DEF Fitting
  <2> QED  BY <2>1, <2>2
<1>4. BackupMayStart'
  BY <1>1, <1>3 DEF BackupMayStart, Confirmed
<1>5. ~magic' /\ storage' = "erased" /\ descriptor' = meta_backup'.descriptor
  BY <1>1 DEF Erased
<1>6. Restoring(6)'  BY ONLY <1>4, <1>5, NothingRestored
<1>7. InstallInv'  BY ONLY <1>2, <1>6 DEF InstallInv
<1>8. MayStart'  BY <1>5 DEF MayStart, firmware_present
<1>9. job' # <<>>  BY <1>2 DEF LeftOf
<1> QED  BY <1>2, <1>7, <1>8, <1>9, Started

\* A device without a firmware installs at the last packet.
LEMMA FlashPacketKeeps ==
  ASSUME BootInvariant, FlashPacket
  PROVE  BootInvariant'
<1>1. /\ Ready({"FLASHING"})
      /\ flash_state' \in {"CHECK", "FLASHING"}
      /\ UNCHANGED <<magic, descriptor, storage, running, session>>
  BY DEF FlashPacket
<1>2. /\ running = "loader" /\ job = <<>> /\ Erased
      /\ ~brand_new_firmware /\ ~old_was_unsigned
           => meta_backup.storage \notin {"unsigned", "part of unsigned"}
  BY <1>1, ReadyFacts DEF Loading
<1>3. \/ brand_new_firmware /\ Install(TRUE, code')
      \/ UNCHANGED <<meta_backup, job, approved>>
  BY DEF FlashPacket
<1>4. CASE brand_new_firmware /\ Install(TRUE, code')
  <2>1. Wipes  BY <1>4 DEF Wipes
  <2> QED  BY <1>1, <1>2, <1>4, <2>1, InstallStarts
<1>5. CASE UNCHANGED <<meta_backup, job, approved>>
  <2>1. MayStart'  BY <1>1, <1>2 DEF MayStart, firmware_present, Erased
  <2>2. JobInv'  BY <1>2, <1>5, NoJob
  <2>3. LoaderInv'  BY <1>1, <1>2, <1>5 DEF LoaderInv, Erased, session
  <2> QED  BY <2>1, <2>2, <2>3 DEF BootInvariant
<1> QED  BY <1>3, <1>4, <1>5

\* The other devices install after the confirmation.
LEMMA ButtonAckKeeps ==
  ASSUME BootInvariant, NEW ok \in BOOLEAN, ButtonAck(ok)
  PROVE  BootInvariant'
<1>1. Ready({"CHECK"}) /\ Install(ok, code) /\ UNCHANGED <<flash, running>>  BY DEF ButtonAck
<1>2. /\ running = "loader" /\ Erased
      /\ ~brand_new_firmware /\ ~old_was_unsigned
           => meta_backup.storage \notin {"unsigned", "part of unsigned"}
  BY <1>1, ReadyFacts DEF Loading
<1> QED  BY <1>1, <1>2, InstallStarts DEF flash

-----------------------------------------------------------------------------
(* What becomes of the storage.                                            *)

\* A signed firmware is being replaced.
Updating == ~brand_new_firmware /\ ~old_was_unsigned

\* The jobs, with where the storage of the start is meanwhile.
EraseKeeps ==
  EraseInv /\ (job[Len(job)] = "FLASHSTART" /\ Updating => meta_backup.storage = before)
TestKeeps == TestInv /\ meta_backup.storage = before
InstallKeeps ==
  /\ InstallInv
  /\ Updating /\ Whole(meta_backup.descriptor, code) /\ meta_backup.descriptor.keep
       => meta_backup.storage = before

\* The storage of the start is in its place, or in the backup until a signed firmware
\* that keeps it has been written.
SurviveInv ==
  running = "loader" =>
    /\ job = <<>> /\ flash_state \in {"READY", "OPEN"} => storage = before
    /\ job = <<>> /\ flash_state \in Loading /\ Updating => meta_backup.storage = before
    /\ job = <<>> /\ flash_state = "END" /\ Updating /\ firmware_present
         /\ Whole(descriptor, code) /\ descriptor.keep => storage = before
    /\ job # <<>> => EraseKeeps \/ TestKeeps \/ InstallKeeps

\* A step of a job keeps its last entry, which says where it ends.
LEMMA LastOfTail ==
  ASSUME job \in Seq(StepNames), Len(job) > 1
  PROVE  Tail(job)[Len(Tail(job))] = job[Len(job)]
<1>1. job # <<>>
  <2>1. Len(<<>>) = 0  OBVIOUS
  <2> QED  BY <2>1
<1>2. /\ Len(job) \in Nat /\ Len(Tail(job)) = Len(job) - 1
      /\ \A i \in 1 .. Len(Tail(job)) : Tail(job)[i] = job[i + 1]
  BY <1>1, HeadTailProperties, LenProperties
<1>3. Len(Tail(job)) \in 1 .. Len(Tail(job)) /\ Len(Tail(job)) + 1 = Len(job)
  BY <1>2
<1> QED  BY <1>2, <1>3

\* Only an erasure of the code changes how much of it there is.
LEMMA CodeStays ==
  ASSUME NEW step, Step(step), step # "erase code"
  PROVE  code' = code
BY DEF Step, Flashed

\* A step of a job.
LEMMA FlashStepSurvives ==
  ASSUME BootInvariant, SurviveInv, FlashStep
  PROVE  SurviveInv'
<1>1. /\ Len(job) > 1 /\ job' = Tail(job)
      /\ UNCHANGED <<running, flash_state, session, meta_backup, before>>
  BY DEF FlashStep
<1>2. job \in Seq(StepNames)  BY DEF BootInvariant, JobInv
<1>3. job # <<>>
  <2>1. Len(<<>>) = 0  OBVIOUS
  <2> QED  BY <1>1, <2>1
<1>4. job'[Len(job')] = job[Len(job)]  BY <1>1, <1>2, LastOfTail
<1>5. CASE EraseKeeps
  <2>1. EraseInv'  BY <1>2, <1>5, FlashErase DEF EraseKeeps
  <2>2. EraseKeeps'  BY <1>1, <1>4, <1>5, <2>1 DEF EraseKeeps, Updating, session
  <2>3. job' # <<>>  BY <2>1 DEF EraseInv, LeftOf
  <2> QED  BY <2>2, <2>3 DEF SurviveInv
<1>6. CASE TestKeeps
  <2>1. TestInv'  BY <1>2, <1>6, FlashSelfTest DEF TestKeeps
  <2>2. TestKeeps'  BY <1>1, <1>6, <2>1 DEF TestKeeps
  <2>3. job' # <<>>  BY <2>1 DEF TestInv, LeftOf
  <2> QED  BY <2>2, <2>3 DEF SurviveInv
<1>7. CASE InstallKeeps
  <2>1. InstallInv'  BY <1>2, <1>7, FlashInstall DEF InstallKeeps
  <2>2. /\ Len(job) \in 1 .. 6 /\ Head(job) = InstallJob[7 - Len(job)]
    <3>1. LeftOf(job, InstallJob)  BY <1>7 DEF InstallKeeps, InstallInv
    <3> QED  BY ONLY <1>2, <3>1, InstallHead
  <2>3. PICK n \in 2 .. 6 : n = Len(job)
    <3>1. PICK n : n = Len(job)  OBVIOUS
    <3>2. n > 1 /\ n \in 1 .. 6  BY ONLY <1>1, <2>2, <3>1
    <3>3. n \in 2 .. 6  BY ONLY <3>2
    <3> QED  BY ONLY <3>1, <3>3
  <2>4. PICK step : step = Head(job)  OBVIOUS
  <2>5. step = InstallJob[7 - n]  BY <2>2, <2>3, <2>4
  <2>6. step \notin {"erase boot", "write boot"}  BY ONLY <2>5, RestoringNames, n \in 2 .. 6
  <2>7. Step(step)  BY <2>4, <2>6 DEF FlashStep
  <2>8. step # "erase code"
    <3>1. /\ InstallJob[1] = "magic" /\ InstallJob[2] = "half descriptor"
          /\ InstallJob[3] = "descriptor" /\ InstallJob[4] = "some storage"
          /\ InstallJob[5] = "storage"
      BY DEF InstallJob
    <3>2. 7 - n \in 1 .. 5  BY <2>3
    <3>3. \A k \in 1 .. 5 : k = 1 \/ k = 2 \/ k = 3 \/ k = 4 \/ k = 5  OBVIOUS
    <3>4. \A k \in 1 .. 5 : InstallJob[k] # "erase code"  BY <3>1, <3>3
    <3> QED  BY <2>5, <3>2, <3>4
  <2>9. code' = code  BY <2>7, <2>8, CodeStays
  <2>10. InstallKeeps'  BY <1>1, <1>7, <2>1, <2>9 DEF InstallKeeps, Updating, session, Whole
  <2>11. job' # <<>>  BY <2>1 DEF InstallInv, LeftOf
  <2> QED  BY <2>10, <2>11 DEF SurviveInv
<1>8. CASE running # "loader"  BY <1>1, <1>8 DEF SurviveInv
<1> QED  BY <1>3, <1>5, <1>6, <1>7, <1>8 DEF SurviveInv

\* Where a job ends.
LEMMA JobDoneSurvives ==
  ASSUME BootInvariant, SurviveInv, JobDone
  PROVE  SurviveInv'
<1>1. Len(job) = 1 /\ job' = <<>> /\ UNCHANGED <<flash, session, before>>  BY DEF JobDone
<1>2. job \in Seq(StepNames)  BY DEF BootInvariant, JobInv
<1>3. job # <<>>
  <2>1. Len(<<>>) = 0  OBVIOUS
  <2> QED  BY <1>1, <2>1
<1>4. job[Len(job)] = Head(job)  BY <1>1, <1>2, <1>3, HeadTailProperties
<1>5. /\ \A end : LeftOf(job, EraseJob(end)) => Head(job) = end
      /\ \A end : LeftOf(job, TestJob(end)) => Head(job) = end
      /\ LeftOf(job, InstallJob) => Head(job) = "END"
  BY ONLY <1>1, <1>2, OneStepLeft
<1>6. /\ Head(job) = "halt" => running' = "halt"
      /\ Head(job) # "halt" =>
           /\ running' = running
           /\ flash_state' = Head(job) \/ (Head(job) = "FLASHSTART" /\ flash_state' = "END")
           /\ Head(job) = "FLASHSTART" => meta_backup' = meta_backup
  BY DEF JobDone
<1>7. CASE EraseKeeps
  <2>1. PICK end \in {"END", "FLASHSTART"} :
          LeftOf(job, EraseJob(end)) /\ (Len(job) < 4 => ~magic)
    BY <1>7 DEF EraseKeeps, EraseInv
  <2>2. Head(job) = end /\ ~magic
    <3>1. Len(job) < 4  BY <1>1
    <3> QED  BY ONLY <1>5, <2>1, <3>1
  <2>3. flash_state' \in {"END", "FLASHSTART"} /\ (flash_state' = "FLASHSTART" => end = "FLASHSTART")
    BY ONLY <1>6, <2>1, <2>2
  <2>4. ~firmware_present'  BY <1>1, <2>2 DEF firmware_present, flash
  <2>5. end = "FLASHSTART" => meta_backup' = meta_backup  BY ONLY <1>6, <2>2
  <2>6. end = "FLASHSTART" /\ Updating => meta_backup.storage = before
    BY <1>4, <1>7, <2>2 DEF EraseKeeps
  <2>7. Updating' = Updating  BY <1>1 DEF Updating, session
  <2> QED  BY <1>1, <2>3, <2>4, <2>5, <2>6, <2>7 DEF SurviveInv, Loading
<1>8. CASE TestKeeps
  <2>1. LeftOf(job, TestJob(flash_state)) /\ flash_state \in {"READY", "OPEN"}
    BY <1>8 DEF TestKeeps, TestInv
  <2>2. Head(job) = flash_state  BY ONLY <1>5, <2>1
  <2>3. flash_state' = flash_state  BY ONLY <1>6, <2>1, <2>2
  <2>4. Restoring(1)
    <3>1. Len(job) <= 6  BY <1>1
    <3>2. Restoring(Len(job))  BY <1>8, <3>1 DEF TestKeeps, TestInv
    <3> QED  BY ONLY <1>1, <3>2
  <2>5. storage = before  BY <1>8, <2>4 DEF Restoring, TestKeeps
  <2> QED  BY <1>1, <2>1, <2>3, <2>5 DEF SurviveInv, Loading, flash
<1>9. CASE InstallKeeps
  <2>1. Head(job) = "END"  BY <1>5, <1>9 DEF InstallKeeps, InstallInv
  <2>2. flash_state' = "END"  BY ONLY <1>6, <2>1
  <2>3. Restoring(1)
    <3>1. Restoring(Len(job))  BY <1>9 DEF InstallKeeps, InstallInv
    <3> QED  BY ONLY <1>1, <3>1
  <2>4. descriptor = meta_backup.descriptor /\ storage = meta_backup.storage
    BY <2>3 DEF Restoring
  <2>5. Updating /\ Whole(descriptor, code) /\ descriptor.keep => storage = before
    BY <1>9, <2>4 DEF InstallKeeps
  <2>6. UNCHANGED <<descriptor, code, storage, before, brand_new_firmware, old_was_unsigned>>
    BY <1>1 DEF flash, session
  <2> QED  BY <1>1, <2>2, <2>5, <2>6 DEF SurviveInv, Loading, Updating, Whole
<1>10. CASE running # "loader"
  <2>1. running' # "loader"  BY <1>6, <1>10
  <2> QED  BY <2>1 DEF SurviveInv
<1> QED  BY <1>3, <1>7, <1>8, <1>9, <1>10 DEF SurviveInv

\* A message that is answered at once finds the storage untouched, or no firmware.
LEMMA EndsSurvives ==
  ASSUME BootInvariant, SurviveInv, NEW states, Ready(states),
         states \subseteq {"READY", "OPEN"} \/ states \subseteq Loading,
         NEW state, state = "END" \/ (state = "OPEN" /\ states \subseteq {"READY", "OPEN"}),
         Ends(state)
  PROVE  SurviveInv'
<1>1. /\ running = "loader" /\ job = <<>> /\ flash_state \in states
      /\ states \subseteq Loading => Erased
  BY ReadyFacts
<1>2. flash_state' = state /\ UNCHANGED <<flash, running, session, job, before>>  BY DEF Ends
<1>3. CASE states \subseteq {"READY", "OPEN"}
  <2>1. storage' = before'  BY <1>1, <1>2, <1>3 DEF SurviveInv, flash
  <2> QED  BY <1>1, <1>2, <2>1 DEF SurviveInv, Loading
<1>4. CASE states \subseteq Loading /\ state = "END"
  <2>1. ~firmware_present'  BY <1>1, <1>2, <1>4 DEF Erased, firmware_present, flash
  <2> QED  BY <1>1, <1>2, <1>4, <2>1 DEF SurviveInv, Loading
<1> QED  BY <1>3, <1>4

LEMMA MessageSurvives ==
  ASSUME BootInvariant, SurviveInv,
         \/ Initialize \/ WipeDevice \/ SelfTest \/ FirmwareErase \/ BadUpload \/ FlashPacket
         \/ \E f \in Firmwares, len \in Lengths : FirmwareUpload(f, len)
         \/ \E hash_check_ok \in BOOLEAN : ButtonAck(hash_check_ok)
  PROVE  SurviveInv'
<1>1. CASE Initialize  BY <1>1, EndsSurvives DEF Initialize
<1>2. CASE BadUpload  BY <1>2, EndsSurvives DEF BadUpload, Loading
<1>3. CASE WipeDevice
  <2>1. Ready({"READY", "OPEN"})  BY <1>3 DEF WipeDevice
  <2>2. CASE Ends("END")  BY <2>1, <2>2, EndsSurvives
  <2>3. CASE Starts(EraseAll, "END")
    <3>1. MayStart /\ running = "loader"  BY <2>1, ReadyFacts
    <3>2. EraseInv' /\ job' # <<>> /\ job'[Len(job')] = "END"  BY <2>3, <3>1, EraseStarts
    <3> QED  BY <3>2 DEF SurviveInv, EraseKeeps
  <2> QED  BY <1>3, <2>2, <2>3 DEF WipeDevice
<1>4. CASE SelfTest
  <2>1. Ready({"READY", "OPEN"}) /\ Backup /\ UNCHANGED before  BY <1>4 DEF SelfTest, Starts
  <2>2. storage = before  BY <2>1, ReadyFacts DEF SurviveInv
  <2>3. meta_backup'.storage = before'  BY <2>1, <2>2 DEF Backup
  <2>4. TestInv' /\ job' # <<>>  BY <1>4, SelfTestKeeps
  <2> QED  BY <2>3, <2>4 DEF SurviveInv, TestKeeps
<1>5. CASE FirmwareErase
  <2>1. Ready({"OPEN"})  BY <1>5 DEF FirmwareErase
  <2>2. CASE Ends("END")  BY <2>1, <2>2, EndsSurvives
  <2>3. CASE /\ Starts(EraseAll, "FLASHSTART")
             /\ old_was_unsigned' = ~OldIsSigned /\ UNCHANGED brand_new_firmware
             /\ IF OldIsSigned THEN Backup ELSE UNCHANGED meta_backup
    <3>1. MayStart /\ running = "loader" /\ storage = before
      BY <2>1, ReadyFacts DEF SurviveInv
    <3>2. ASSUME Updating'
          PROVE  /\ meta_backup'.storage = before'
                 /\ meta_backup'.storage \notin {"unsigned", "part of unsigned"}
      <4>1. OldIsSigned  BY <2>3, <3>2 DEF Updating
      <4>2. Whole(descriptor, code)  BY <4>1, SignaturesAreWhole DEF OldIsSigned
      <4>3. ~brand_new_firmware  BY <4>1 DEF OldIsSigned
      <4>4. firmware_present  BY <2>1, <4>3, ReadyFacts
      <4>5. storage \notin {"unsigned", "part of unsigned"}
        BY <3>1, <4>2, <4>4 DEF MayStart, Fitting
      <4>6. meta_backup'.storage = storage /\ before' = before
        BY <2>3, <4>1 DEF Backup, Starts
      <4> QED  BY <3>1, <4>5, <4>6
    <3>3. EraseInv' /\ job' # <<>> /\ job'[Len(job')] = "FLASHSTART"
      BY <2>3, <3>1, <3>2, EraseStarts DEF Updating
    <3> QED  BY <3>2, <3>3 DEF SurviveInv, EraseKeeps
  <2> QED  BY <1>5, <2>2, <2>3 DEF FirmwareErase
<1>6. ASSUME NEW f \in Firmwares, NEW len \in Lengths, FirmwareUpload(f, len)
      PROVE  SurviveInv'
  <2>1. /\ Ready({"FLASHSTART"}) /\ flash_state' = "FLASHING"
        /\ UNCHANGED <<running, session, meta_backup, job, before>>
    BY <1>6 DEF FirmwareUpload
  <2>2. Updating => meta_backup.storage = before
    BY <2>1 DEF SurviveInv, Ready, Loading
  <2> QED  BY <2>1, <2>2 DEF SurviveInv, Ready, Updating, session
<1>7. CASE FlashPacket
  <2>1. /\ Ready({"FLASHING"}) /\ flash_state' \in {"CHECK", "FLASHING"}
        /\ UNCHANGED <<magic, descriptor, storage, running, session, before>>
        /\ \/ brand_new_firmware /\ Install(TRUE, code')
           \/ UNCHANGED <<meta_backup, job, approved>>
    BY <1>7 DEF FlashPacket
  <2>2. /\ running = "loader" /\ job = <<>> /\ Erased
        /\ ~brand_new_firmware /\ ~old_was_unsigned
             => meta_backup.storage \notin {"unsigned", "part of unsigned"}
    BY <2>1, ReadyFacts DEF Loading
  <2>3. Updating => meta_backup.storage = before
    BY <2>1 DEF SurviveInv, Ready, Loading
  <2>4. CASE brand_new_firmware /\ Install(TRUE, code')
    <3>1. Wipes  BY <2>4 DEF Wipes
    <3>2. InstallInv' /\ job' # <<>>  BY <2>1, <2>2, <2>4, <3>1, InstallStarts
    <3>3. ~Updating'  BY <2>1, <2>4 DEF Updating, session
    <3> QED  BY <3>2, <3>3 DEF SurviveInv, InstallKeeps
  <2>5. CASE UNCHANGED <<meta_backup, job, approved>>
    BY <2>1, <2>2, <2>3, <2>5 DEF SurviveInv, Updating, session
  <2> QED  BY <2>1, <2>4, <2>5
<1>8. ASSUME NEW ok \in BOOLEAN, ButtonAck(ok) PROVE SurviveInv'
  <2>1. /\ Ready({"CHECK"}) /\ Install(ok, code)
        /\ UNCHANGED <<flash, running, session, before>>
    BY <1>8 DEF ButtonAck
  <2>2. /\ running = "loader" /\ Erased
        /\ ~brand_new_firmware /\ ~old_was_unsigned
             => meta_backup.storage \notin {"unsigned", "part of unsigned"}
    BY <2>1, ReadyFacts DEF Loading
  <2>3. Updating => meta_backup.storage = before
    BY <2>1 DEF SurviveInv, Ready, Loading
  <2>4. InstallInv' /\ job' # <<>>  BY <2>1, <2>2, InstallStarts DEF flash
  <2>5. ASSUME Updating', Whole(meta_backup.descriptor, code)', meta_backup'.descriptor.keep
        PROVE  meta_backup'.storage = before'
    <3>1. meta_backup'.descriptor = descriptor /\ code' = code /\ Updating
      BY <2>1, <2>5 DEF Install, flash, session, Updating
    <3>2. signatures_ok /\ descriptor.keep
      <4>1. Whole(descriptor, code)  BY <2>5, <3>1 DEF Whole
      <4> QED  BY <2>5, <3>1, <4>1, SignaturesAreWhole
    <3>3. ~Wipes  BY <3>1, <3>2 DEF Wipes, Updating
    <3> QED  BY <2>1, <2>3, <3>1, <3>3 DEF Install
  <2> QED  BY <2>4, <2>5 DEF SurviveInv, InstallKeeps
<1> QED  BY <1>1, <1>2, <1>3, <1>4, <1>5, <1>6, <1>7, <1>8

-----------------------------------------------------------------------------
(* Theorems.                                                               *)

\* The descriptor is erased before what lies behind it and written back only with the storage
\* that belongs to it (erase_metadata_sectors, restore_metadata), so that at every step of every
\* job flash holds either no firmware or one that may be started with its storage.
THEOREM BootInvariantHolds == Spec => []BootInvariant
<1>1. Init => BootInvariant
  <2> SUFFICES ASSUME Init PROVE BootInvariant
    OBVIOUS
  <2>1. MayStart  BY DEF Init, MayStart, firmware_present
  <2>2. job = <<>> /\ job \in Seq(StepNames)
    <3>1. <<>> \in Seq(StepNames)  BY EmptySeq
    <3> QED  BY <3>1 DEF Init
  <2>3. JobInv  BY <2>2 DEF JobInv
  <2>4. LoaderInv  BY DEF Init, LoaderInv, Loading
  <2> QED  BY <2>1, <2>3, <2>4 DEF BootInvariant
<1>2. BootInvariant /\ [Next]_vars => BootInvariant'
  <2> SUFFICES ASSUME BootInvariant, [Next]_vars PROVE BootInvariant'
    OBVIOUS
  <2>1. CASE FlashStep  BY <2>1, FlashStepKeeps
  <2>2. CASE JobDone  BY <2>2, JobDoneKeeps
  <2>3. CASE load_app \/ show_halt \/ bootloader_loop \/ PowerLoss \/ FirmwareStores
    BY <2>3, StartKeeps
  <2>4. CASE Initialize  BY <2>4, EndsKeeps DEF Initialize
  <2>5. CASE WipeDevice
    <3>1. Ready({"READY", "OPEN"})  BY <2>5 DEF WipeDevice
    <3>2. MayStart /\ running = "loader"  BY <3>1, ReadyFacts
    <3>3. CASE Ends("END")  BY <3>1, <3>3, EndsKeeps
    <3>4. CASE Starts(EraseAll, "END")  BY <3>2, <3>4, EraseStarts
    <3> QED  BY <2>5, <3>3, <3>4 DEF WipeDevice
  <2>6. CASE SelfTest  BY <2>6, SelfTestKeeps
  <2>7. CASE FirmwareErase  BY <2>7, FirmwareEraseKeeps
  <2>8. CASE \E f \in Firmwares, len \in Lengths : FirmwareUpload(f, len)
    BY <2>8, FirmwareUploadKeeps
  <2>9. CASE BadUpload  BY <2>9, EndsKeeps DEF BadUpload
  <2>10. CASE FlashPacket  BY <2>10, FlashPacketKeeps
  <2>11. CASE \E hash_check_ok \in BOOLEAN : ButtonAck(hash_check_ok)  BY <2>11, ButtonAckKeeps
  <2>12. CASE UNCHANGED vars
    <3>1. UNCHANGED <<magic, descriptor, storage, code, running, flash_state, brand_new_firmware,
                      old_was_unsigned, meta_backup, job, approved>>
      BY <2>12 DEF vars, flash, session
    <3>2. MayStart /\ JobInv /\ LoaderInv  BY DEF BootInvariant
    <3>3. MayStart'  BY <3>1, <3>2, MayStartKept
    <3>4. BackupMayStart => BackupMayStart'  BY <3>1 DEF BackupMayStart, Confirmed
    <3>5. \A n : Restoring(n) => Restoring(n)'  BY <3>1, <3>4, Zenon DEF Restoring
    <3>6. EraseInv => EraseInv'  BY <3>1, Zenon DEF EraseInv
    <3>7. TestInv => TestInv'
      <4>1. Restoring(Len(job)) => Restoring(Len(job))'
        <5>1. PICK n : n = Len(job)  OBVIOUS
        <5>2. Len(job') = n  BY ONLY <3>1, <5>1
        <5> QED  BY ONLY <3>5, <5>1, <5>2
      <4> QED  BY <3>1, <3>4, <4>1, Zenon DEF TestInv
    <3>8. InstallInv => InstallInv'
      <4>1. Restoring(Len(job)) => Restoring(Len(job))'
        <5>1. PICK n : n = Len(job)  OBVIOUS
        <5>2. Len(job') = n  BY ONLY <3>1, <5>1
        <5> QED  BY ONLY <3>5, <5>1, <5>2
      <4> QED  BY <3>1, <4>1, Zenon DEF InstallInv
    <3>9. BootInv => BootInv'  BY <3>1 DEF BootInv
    <3>10. JobInv'  BY <3>1, <3>2, <3>6, <3>7, <3>8, <3>9 DEF JobInv
    <3>11. LoaderInv'  BY <3>1, <3>2 DEF LoaderInv, Erased, firmware_present
    <3> QED  BY <3>3, <3>10, <3>11 DEF BootInvariant
  <2> QED
    BY <2>1, <2>2, <2>3, <2>4, <2>5, <2>6, <2>7, <2>8, <2>9, <2>10, <2>11, <2>12 DEF Next
<1> QED  BY <1>1, <1>2, PTL DEF Spec

\* Wherever power is lost in an erase, an upload or a self test of the boot loader, a signed
\* firmware does not start over the storage of an unsigned one, nor an unsigned one over that of
\* a signed one, for every firmware, signature and length the host chooses.
THEOREM SeedStays == Spec => []SeedStaysWithItsFirmware
<1>1. BootInvariant => SeedStaysWithItsFirmware
  <2>1. MayStart => SeedStaysWithItsFirmware
    BY SignaturesAreWhole DEF MayStart, Fitting, SeedStaysWithItsFirmware
  <2> QED  BY <2>1 DEF BootInvariant
<1> QED  BY <1>1, BootInvariantHolds, PTL

\* Whatever is uploaded, the firmware that the boot loader would start is the one, and as much of
\* it, that ButtonAck confirmed or that was installed on a device without any.
THEOREM BootableWasConfirmed == Spec => []BootableIsConfirmed
<1>1. BootInvariant => BootableIsConfirmed
  BY DEF BootInvariant, MayStart, Confirmed, BootableIsConfirmed
<1> QED  BY <1>1, BootInvariantHolds, PTL

\* Between two messages of the loader the storage is what it was at the start, through self
\* tests and questions that were refused, and it is again after the update of a signed
\* firmware by a signed one that keeps it (backup_metadata, restore_metadata).
THEOREM StorageIsKept == Spec => []StorageSurvives
<1>1. Init => SurviveInv  BY DEF Init, SurviveInv
<1>2. BootInvariant /\ SurviveInv /\ [Next]_vars => SurviveInv'
  <2> SUFFICES ASSUME BootInvariant, SurviveInv, [Next]_vars PROVE SurviveInv'
    OBVIOUS
  <2>1. CASE FlashStep  BY <2>1, FlashStepSurvives
  <2>2. CASE JobDone  BY <2>2, JobDoneSurvives
  <2>3. CASE load_app
    <3>1. running' # "loader"  BY <2>3 DEF load_app, check_bootloader
    <3> QED  BY <3>1 DEF SurviveInv
  <2>4. CASE show_halt \/ PowerLoss
    <3>1. running' # "loader"  BY <2>4 DEF show_halt, PowerLoss
    <3> QED  BY <3>1 DEF SurviveInv
  <2>5. CASE bootloader_loop
    <3>1. /\ running = "off" /\ UNCHANGED job /\ flash_state' = "READY"
          /\ before' = storage /\ storage' = storage
      BY <2>5 DEF bootloader_loop, Starting, Fresh, flash
    <3>2. job' = <<>>  BY <3>1 DEF BootInvariant, LoaderInv
    <3> QED  BY <3>1, <3>2 DEF SurviveInv, Loading
  <2>6. CASE FirmwareStores
    <3>1. running' # "loader"  BY <2>6 DEF FirmwareStores
    <3> QED  BY <3>1 DEF SurviveInv
  <2>7. CASE \/ Initialize \/ WipeDevice \/ SelfTest \/ FirmwareErase \/ BadUpload \/ FlashPacket
             \/ \E f \in Firmwares, len \in Lengths : FirmwareUpload(f, len)
             \/ \E hash_check_ok \in BOOLEAN : ButtonAck(hash_check_ok)
    BY <2>7, MessageSurvives
  <2>8. CASE UNCHANGED vars
    <3>1. UNCHANGED <<magic, descriptor, storage, code, running, flash_state, brand_new_firmware,
                      old_was_unsigned, meta_backup, job, before>>
      BY <2>8 DEF vars, flash, session
    <3>2. CASE running # "loader" \/ job = <<>>
      BY <3>1, <3>2 DEF SurviveInv, Updating, firmware_present, Whole
    <3>3. CASE running = "loader" /\ job # <<>>
      <4>1. EraseKeeps => EraseKeeps'
        BY <3>1, Zenon DEF EraseKeeps, EraseInv, Updating
      <4>2. BackupMayStart => BackupMayStart'
        BY <2>8 DEF vars, flash, BackupMayStart, Confirmed, Fitting, Whole
      <4>3. \A n : Restoring(n) => Restoring(n)'  BY <3>1, <4>2, Zenon DEF Restoring
      <4>4. Restoring(Len(job)) => Restoring(Len(job))'
        <5>1. PICK n : n = Len(job)  OBVIOUS
        <5>2. Len(job') = n  BY ONLY <3>1, <5>1
        <5> QED  BY ONLY <4>3, <5>1, <5>2
      <4>5. TestKeeps => TestKeeps'  BY <3>1, <4>2, <4>4, Zenon DEF TestKeeps, TestInv
      <4>6. InstallKeeps => InstallKeeps'
        BY <3>1, <4>4, Zenon DEF InstallKeeps, InstallInv, Updating, Whole
      <4> QED  BY <3>1, <3>3, <4>1, <4>5, <4>6 DEF SurviveInv
    <3> QED  BY <3>2, <3>3
  <2> QED
    BY <2>1, <2>2, <2>3, <2>4, <2>5, <2>6, <2>7, <2>8 DEF Next
<1>3. BootInvariant /\ SurviveInv => StorageSurvives
  <2> SUFFICES ASSUME BootInvariant, SurviveInv, running = "loader", job = <<>>
               PROVE  /\ flash_state \in {"READY", "OPEN"} => storage = before
                      /\ flash_state = "END" /\ firmware_present /\ signatures_ok
                           /\ descriptor.keep /\ ~brand_new_firmware /\ ~old_was_unsigned
                             => storage = before
    BY DEF StorageSurvives
  <2> QED  BY SignaturesAreWhole DEF SurviveInv, Updating
<1> QED  BY <1>1, <1>2, <1>3, BootInvariantHolds, PTL DEF Spec
=============================================================================
