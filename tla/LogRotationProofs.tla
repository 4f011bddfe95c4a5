------------------------- MODULE LogRotationProofs -------------------------
(***************************************************************************)
(* Proof that the log files keep what is recent, for every backupCount and  *)
(* every number of crashes.                                                 *)
(*                                                                          *)
(* The argument is about the number of the file a segment is in: it never   *)
(* exceeds the age of the segment by more than the crashes.  The library    *)
(* removes only the file numbered backupCount, so what it removes is old    *)
(* enough.                                                                  *)
(***************************************************************************)
EXTENDS LogRotation, TLAPS

Begun == IF place \in {"shift", "open"} THEN 1 ELSE 0

(* Segments are numbered in the order they are opened.                       *)
Known == \A n \in 0 .. BackupCount : files[n] <= newest

(* A file is at most as far back as its segment is old, and where the shift  *)
(* has not come yet, the rollover that has begun does not count.             *)
NotTooFar ==
    \A n \in 0 .. BackupCount :
        Exists(n) => n <= newest - files[n] + Begun + crashes

Ahead ==
    place = "shift" =>
        /\ i + 1 < BackupCount => ~Exists(i + 1)
        /\ \A n \in 0 .. i + 1 : Exists(n) => n <= newest - files[n] + crashes

LoopIsBelow == place \in {"shift", "archives"} => i < BackupCount

BaseIsThere ==
    /\ place \in {"logging", "archives", "remove"} => Exists(0)
    /\ place = "open" => ~Exists(0)

OldLogIsEmpty == place = "remove" => files[1] \notin filled

IInv ==
    /\ TypeOK
    /\ Known
    /\ NotTooFar
    /\ Ahead
    /\ LoopIsBelow
    /\ BaseIsThere
    /\ OldLogIsEmpty
    /\ RecentKept

(* The log directory has no files when the first process starts.             *)
LEMMA InitIInv == Init => IInv
BY LogRotationAssumption
DEF Init, IInv, TypeOK, Known, NotTooFar, Ahead, LoopIsBelow, BaseIsThere,
    OldLogIsEmpty, RecentKept, Exists, NoFile, Begun

LEMMA SetLoggerKeeps == IInv /\ SetLogger => IInv'
BY LogRotationAssumption
DEF SetLogger, OpenBase, IInv, TypeOK, Known, NotTooFar, Ahead, LoopIsBelow,
    BaseIsThere, OldLogIsEmpty, RecentKept, Age, Exists, NoFile, Begun

LEMMA EmitKeeps == IInv /\ Emit => IInv'
<1> SUFFICES ASSUME IInv, Emit PROVE IInv'
  OBVIOUS
<1> USE LogRotationAssumption DEF IInv
<1>0. files[0] \in 1 .. newest
  BY DEF Emit, BaseIsThere, Known, TypeOK, Exists, NoFile
<1>1. /\ TypeOK' /\ Known' /\ NotTooFar' /\ Ahead' /\ LoopIsBelow'
      /\ BaseIsThere' /\ OldLogIsEmpty'
  BY <1>0 DEF Emit, TypeOK, Known, NotTooFar, Ahead, LoopIsBelow,
              BaseIsThere, OldLogIsEmpty, Exists, NoFile, Begun
<1>2. RecentKept'
  <2> SUFFICES ASSUME NEW k \in filled', Age(k)' + crashes' <= BackupCount
               PROVE \E n \in 0 .. BackupCount : files'[n] = k
    BY DEF RecentKept
  <2>1. CASE k = files[0]
    BY <2>1 DEF Emit
  <2>2. CASE k \in filled
    BY <2>2 DEF Emit, RecentKept, Age
  <2> QED
    BY <2>1, <2>2 DEF Emit
<1> QED
  BY <1>1, <1>2

LEMMA BeginRolloverKeeps == IInv /\ BeginRollover => IInv'
BY LogRotationAssumption
DEF BeginRollover, IInv, TypeOK, Known, NotTooFar, Ahead, LoopIsBelow,
    BaseIsThere, OldLogIsEmpty, RecentKept, Age, Exists, NoFile, Begun

LEMMA RemoveTargetKeeps == IInv /\ RemoveTarget => IInv'
<1> SUFFICES ASSUME IInv, RemoveTarget PROVE IInv'
  OBVIOUS
<1> USE LogRotationAssumption DEF IInv
<1>1. i \in Nat /\ i + 1 = BackupCount
  BY DEF RemoveTarget, Ahead, LoopIsBelow, TypeOK
<1>2. \A n \in 0 .. BackupCount :
        files'[n] = IF n = BackupCount THEN NoFile ELSE files[n]
  BY <1>1 DEF RemoveTarget, TypeOK
<1>3. files' \in [0 .. BackupCount -> 0 .. MaxSegments]
  BY <1>1 DEF RemoveTarget, TypeOK, NoFile
<1>4. TypeOK' /\ Known' /\ LoopIsBelow' /\ BaseIsThere' /\ OldLogIsEmpty'
  BY <1>1, <1>2, <1>3
  DEF RemoveTarget, TypeOK, Known, LoopIsBelow, BaseIsThere, OldLogIsEmpty,
      NoFile
<1>5. NotTooFar'
  BY <1>2 DEF RemoveTarget, NotTooFar, Exists, Begun
<1>6. Ahead'
  BY <1>1, <1>2 DEF RemoveTarget, Ahead, Exists
<1>7. RecentKept'
  <2> SUFFICES ASSUME NEW k \in filled, Age(k) + crashes <= BackupCount
               PROVE \E n \in 0 .. BackupCount : files'[n] = k
    BY DEF RecentKept, RemoveTarget, Age
  <2>1. PICK n \in 0 .. BackupCount : files[n] = k
    BY DEF RecentKept
  <2>2. n # BackupCount
    BY <1>1, <2>1 DEF Ahead, RemoveTarget, Age, TypeOK, Exists
  <2> QED
    BY <1>2, <2>1, <2>2
<1> QED
  BY <1>4, <1>5, <1>6, <1>7

LEMMA ShiftKeeps == IInv /\ Shift => IInv'
<1> SUFFICES ASSUME IInv, Shift PROVE IInv'
  OBVIOUS
<1> USE LogRotationAssumption DEF IInv
<1>1. i \in 0 .. BackupCount /\ i < BackupCount
  BY DEF Shift, LoopIsBelow, TypeOK
<1>2. \A n \in 0 .. BackupCount :
        files'[n] = IF Exists(i) /\ n = i + 1 THEN files[i]
                    ELSE IF n = i THEN NoFile ELSE files[n]
  BY <1>1 DEF Shift, TypeOK, Exists, NoFile
<1>3. files' \in [0 .. BackupCount -> 0 .. MaxSegments]
  <2>1. CASE Exists(i)
    BY <1>1, <2>1 DEF Shift, TypeOK, NoFile
  <2>2. CASE ~Exists(i)
    BY <2>2 DEF Shift, TypeOK
  <2> QED
    BY <2>1, <2>2
<1>4. TypeOK'
  <2>1. place' \in {"shift", "open"} /\ i' \in 0 .. BackupCount
    BY <1>1 DEF Shift
  <2> QED
    BY <1>3, <2>1 DEF Shift, TypeOK
<1>5. Known'
  <2>1. newest' = newest /\ newest \in Nat
    BY DEF Shift, TypeOK
  <2>2. NoFile <= newest
    BY <2>1 DEF NoFile
  <2> QED
    BY <1>1, <1>2, <2>1, <2>2 DEF Known
<1>6. LoopIsBelow' /\ BaseIsThere' /\ OldLogIsEmpty'
  BY <1>1, <1>2
  DEF Shift, LoopIsBelow, BaseIsThere, OldLogIsEmpty, Exists, TypeOK
<1>7. NotTooFar'
  <2> SUFFICES ASSUME NEW n \in 0 .. BackupCount, files'[n] # NoFile
               PROVE n <= newest' - files'[n] + Begun' + crashes'
    BY DEF NotTooFar, Exists
  <2>1. Begun' = 1 /\ newest' = newest /\ crashes' = crashes
    BY DEF Shift, Begun
  <2>2. CASE Exists(i) /\ n = i + 1
    <3>1. i <= newest - files[i] + crashes
      BY <1>1, <2>2 DEF Ahead, Shift
    <3> QED
      BY <1>1, <1>2, <2>1, <2>2, <3>1 DEF TypeOK
  <2>3. CASE ~(Exists(i) /\ n = i + 1)
    <3>1. files'[n] = files[n] /\ Exists(n)
      BY <1>2, <2>3 DEF Exists
    <3> QED
      BY <2>1, <3>1 DEF NotTooFar, Begun, Shift
  <2> QED
    BY <2>2, <2>3
<1>8. Ahead'
  <2> SUFFICES ASSUME i # 0 PROVE Ahead'
    BY DEF Ahead, Shift
  <2>1. i' = i - 1 /\ newest' = newest /\ crashes' = crashes
    BY DEF Shift
  <2>2. files'[i] = NoFile
    BY <1>1, <1>2
  <2>3. \A n \in 0 .. i : files'[n] # NoFile => files'[n] = files[n]
    BY <1>1, <1>2
  <2>4. \A n \in 0 .. i : Exists(n) => n <= newest - files[n] + crashes
    BY <1>1 DEF Ahead, Shift
  <2> QED
    BY <1>1, <2>1, <2>2, <2>3, <2>4 DEF Ahead, Exists
<1>9. RecentKept'
  <2> SUFFICES ASSUME NEW k \in filled, Age(k) + crashes <= BackupCount
               PROVE \E n \in 0 .. BackupCount : files'[n] = k
    BY DEF RecentKept, Shift, Age
  <2>1. PICK n \in 0 .. BackupCount : files[n] = k
    BY DEF RecentKept
  <2>2. k # NoFile
    BY DEF TypeOK, NoFile
  <2>3. CASE n = i
    <3>1. Exists(i) /\ i + 1 \in 0 .. BackupCount
      BY <1>1, <2>1, <2>2, <2>3 DEF Exists
    <3>2. files'[i + 1] = k
      BY <1>2, <2>1, <2>3, <3>1
    <3> QED
      BY <3>1, <3>2
  <2>4. CASE n # i
    BY <1>1, <1>2, <2>1, <2>2, <2>4 DEF Exists, Shift
  <2> QED
    BY <2>3, <2>4
<1> QED
  BY <1>4, <1>5, <1>6, <1>7, <1>8, <1>9

LEMMA OpenNextKeeps == IInv /\ OpenNext => IInv'
BY LogRotationAssumption
DEF OpenNext, OpenBase, IInv, TypeOK, Known, NotTooFar, Ahead, LoopIsBelow,
    BaseIsThere, OldLogIsEmpty, RecentKept, Age, Exists, NoFile, Begun

LEMMA ArchivesKeep ==
    IInv /\ (RemoveArchive \/ ShiftArchive \/ Compress) => IInv'
<1> SUFFICES ASSUME IInv, RemoveArchive \/ ShiftArchive \/ Compress
             PROVE IInv'
  OBVIOUS
<1> USE LogRotationAssumption DEF IInv
<1>1. /\ UNCHANGED <<files, newest, filled, crashes>>
      /\ place = "archives" /\ place' \in {"archives", "logging", "remove"}
  BY DEF RemoveArchive, ShiftArchive, Compress
<1>2. archives' \subseteq 1 .. BackupCount /\ i' \in 0 .. BackupCount
  <2>1. CASE RemoveArchive
    BY <2>1 DEF RemoveArchive, TypeOK
  <2>2. CASE ShiftArchive
    BY <2>2 DEF ShiftArchive, LoopIsBelow, TypeOK
  <2>3. CASE Compress
    BY <2>3 DEF Compress, TypeOK
  <2> QED
    BY <2>1, <2>2, <2>3
<1>3. TypeOK' /\ Known' /\ Ahead' /\ BaseIsThere'
  BY <1>1, <1>2 DEF TypeOK, Known, Ahead, BaseIsThere, Exists
<1>4. LoopIsBelow'
  BY DEF RemoveArchive, ShiftArchive, Compress, LoopIsBelow, TypeOK
<1>5. NotTooFar' /\ RecentKept'
  BY <1>1 DEF NotTooFar, RecentKept, Age, Begun, Exists
<1>6. OldLogIsEmpty'
  BY <1>1 DEF RemoveArchive, ShiftArchive, Compress, OldLogIsEmpty
<1> QED
  BY <1>3, <1>4, <1>5, <1>6

LEMMA RemoveOldLogKeeps == IInv /\ RemoveOldLog => IInv'
<1> SUFFICES ASSUME IInv, RemoveOldLog PROVE IInv'
  OBVIOUS
<1> USE LogRotationAssumption DEF IInv
<1>1. \A n \in 0 .. BackupCount :
        files'[n] = IF n = 1 THEN NoFile ELSE files[n]
  BY DEF RemoveOldLog, TypeOK
<1>2. files' \in [0 .. BackupCount -> 0 .. MaxSegments]
  BY DEF RemoveOldLog, TypeOK, NoFile
<1>3. files[0] \in 1 .. newest
  BY DEF RemoveOldLog, BaseIsThere, Known, TypeOK, Exists, NoFile
<1>4. TypeOK'
  BY <1>2, <1>3 DEF RemoveOldLog, TypeOK
<1>5. Known' /\ BaseIsThere' /\ Ahead' /\ LoopIsBelow' /\ OldLogIsEmpty'
  BY <1>1 DEF RemoveOldLog, TypeOK, Known, BaseIsThere, Ahead, LoopIsBelow,
              OldLogIsEmpty,
              Exists, NoFile
<1>6. NotTooFar'
  BY <1>1 DEF RemoveOldLog, NotTooFar, Exists, NoFile, Begun
<1>7. RecentKept'
  <2> SUFFICES ASSUME NEW k \in filled', Age(k)' + crashes' <= BackupCount
               PROVE \E n \in 0 .. BackupCount : files'[n] = k
    BY DEF RecentKept
  <2>1. CASE k = files[0]
    BY <1>1, <2>1
  <2>2. CASE k \in filled
    <3>1. Age(k) + crashes <= BackupCount
      BY DEF RemoveOldLog, Age
    <3>2. PICK n \in 0 .. BackupCount : files[n] = k
      BY <2>2, <3>1 DEF RecentKept
    <3> QED
      BY <1>1, <2>2, <3>2 DEF RemoveOldLog, OldLogIsEmpty
  <2> QED
    BY <2>1, <2>2 DEF RemoveOldLog
<1> QED
  BY <1>4, <1>5, <1>6, <1>7

LEMMA CrashKeeps == IInv /\ Crash => IInv'
<1> SUFFICES ASSUME IInv, Crash PROVE IInv'
  OBVIOUS
<1> USE LogRotationAssumption DEF IInv
<1>1. /\ UNCHANGED <<files, newest, filled>>
      /\ place' = "down" /\ crashes' = crashes + 1
  BY DEF Crash
<1>2. /\ TypeOK' /\ Known' /\ Ahead' /\ LoopIsBelow'
      /\ BaseIsThere' /\ OldLogIsEmpty'
  BY <1>1 DEF Crash, TypeOK, Known, Ahead, LoopIsBelow, BaseIsThere,
              OldLogIsEmpty
<1>3. Begun \in {0, 1} /\ Begun' = 0
  BY <1>1 DEF Begun
<1>4. NotTooFar'
  BY <1>1, <1>3 DEF NotTooFar, Exists, TypeOK
<1>5. RecentKept'
  BY <1>1 DEF RecentKept, Age, TypeOK
<1> QED
  BY <1>2, <1>4, <1>5

LEMMA StutterKeeps == IInv /\ UNCHANGED vars => IInv'
BY DEF vars, IInv, TypeOK, Known, NotTooFar, Ahead, LoopIsBelow, BaseIsThere,
       OldLogIsEmpty, RecentKept, Age, Exists, NoFile, Begun

LEMMA StepKeeps == IInv /\ [Next]_vars => IInv'
BY SetLoggerKeeps, EmitKeeps, BeginRolloverKeeps, RemoveTargetKeeps, ShiftKeeps,
   OpenNextKeeps, ArchivesKeep, RemoveOldLogKeeps, CrashKeeps, StutterKeeps
DEF Next

(* Both loops of doRollover keep to the backups they were given, and emit    *)
(* always has a base file to write to: no log or archive is renamed past     *)
(* name.backupCount, and every record is in a segment that was opened.  The  *)
(* loops rest on LoopIsBelow, the records on BaseIsThere: a crash between    *)
(* two renames may leave no base file, but then setLogger opens one first.   *)
THEOREM TypeCorrect == Spec => []TypeOK
<1>1. IInv => TypeOK
  BY DEF IInv
<1> QED
  BY InitIInv, StepKeeps, <1>1, PTL DEF Spec

(* What is not older than backupCount rollovers and crashes is in one of the *)
(* plain files, whatever the number of backups and wherever the process      *)
(* dies inside doRollover.                                                   *)
THEOREM RotationKeepsRecent == Spec => []RecentKept
<1>1. IInv => RecentKept
  BY DEF IInv
<1> QED
  BY InitIInv, StepKeeps, <1>1, PTL DEF Spec
=============================================================================
