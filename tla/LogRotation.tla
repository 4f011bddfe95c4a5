---------------------------- MODULE LogRotation ----------------------------
(***************************************************************************)
(* The log files of RotatingFileHandlerWithCompression: the base file, its  *)
(* backups name.1 .. name.B of the library's RotatingFileHandler, and the   *)
(* archives name.1.gz .. name.B.gz that doRollover of this class adds.      *)
(*                                                                          *)
(* A segment is what is written between two openings of a new base file;    *)
(* segments are numbered from 1 and a file is the segment it holds.  Each   *)
(* step is one call that changes the directory, because the process may     *)
(* die between any two of them; setLogger then finds the files as they are. *)
(*                                                                          *)
(* doRollover passes lines of text to a gzip file opened for bytes: the     *)
(* first line raises a TypeError.  The archive stays empty, the old log     *)
(* stays beside it, and the record that asked for the rollover is dropped.  *)
(* Only a log without a line is compressed and removed.  So what is kept is *)
(* kept by the backups, and an archive is no more than a name here.         *)
(*                                                                          *)
(* The handler's lock makes a rollover one step for the other threads.      *)
(***************************************************************************)
EXTENDS Integers

CONSTANTS
    BackupCount,    \* backupCount of the handler
    MaxSegments,    \* bound: how often a new base file is opened
    MaxCrashes      \* bound: how often the process dies

ASSUME LogRotationAssumption ==
    /\ BackupCount \in Nat \ {0}
    /\ MaxSegments \in Nat
    /\ MaxCrashes \in Nat

VARIABLES
    place,      \* where the process is
    i,          \* the loop variable of doRollover
    files,      \* the segment in each plain file, 0 the base; NoFile if none
    archives,   \* the numbers of the .gz files
    newest,     \* the last segment opened
    filled,     \* the segments with at least one record
    crashes

vars == <<place, i, files, archives, newest, filled, crashes>>

NoFile == 0
Exists(n) == files[n] # NoFile

TypeOK ==
    /\ place \in {"down", "logging", "shift", "open", "archives", "remove"}
    /\ i \in 0 .. BackupCount
    /\ files \in [0 .. BackupCount -> 0 .. MaxSegments]
    /\ archives \subseteq 1 .. BackupCount
    /\ newest \in 0 .. MaxSegments
    /\ filled \subseteq 1 .. newest
    /\ crashes \in 0 .. MaxCrashes

Init ==
    /\ place = "down" /\ i = 0
    /\ files = [n \in 0 .. BackupCount |-> NoFile]
    /\ archives = {}
    /\ newest = 0 /\ filled = {} /\ crashes = 0

(* The handler opens the base file for appending: what is there stays.       *)
OpenBase ==
    /\ ~Exists(0) => newest < MaxSegments
    /\ newest' = IF Exists(0) THEN newest ELSE newest + 1
    /\ files' = IF Exists(0) THEN files ELSE [files EXCEPT ![0] = newest + 1]

SetLogger ==
    /\ place = "down"
    /\ OpenBase
    /\ place' = "logging"
    /\ UNCHANGED <<i, archives, filled, crashes>>

(* A record that fits into the base file.                                    *)
Emit ==
    /\ place = "logging"
    /\ filled' = filled \cup {files[0]}
    /\ UNCHANGED <<place, i, files, archives, newest, crashes>>

(* A record that does not fit, whatever the size of the base file: a single  *)
(* record may be longer than maxBytes.                                       *)
BeginRollover ==
    /\ place = "logging"
    /\ newest < MaxSegments
    /\ place' = "shift"
    /\ i' = BackupCount - 1
    /\ UNCHANGED <<files, archives, newest, filled, crashes>>

(* The library moves name.i to name.i+1 from the last backup down; the base  *)
(* file, number 0, is the last to move.  An existing target is removed       *)
(* first.                                                                    *)
RemoveTarget ==
    /\ place = "shift"
    /\ Exists(i) /\ Exists(i + 1)
    /\ files' = [files EXCEPT ![i + 1] = NoFile]
    /\ UNCHANGED <<place, i, archives, newest, filled, crashes>>

Shift ==
    /\ place = "shift"
    /\ Exists(i) => ~Exists(i + 1)
    /\ files' = IF Exists(i)
                THEN [files EXCEPT ![i + 1] = files[i], ![i] = NoFile]
                ELSE files
    /\ IF i = 0 THEN place' = "open" /\ i' = i
                ELSE place' = place /\ i' = i - 1
    /\ UNCHANGED <<archives, newest, filled, crashes>>

(* Mutation: the loop over the archives runs from backupCount.               *)
OpenNextFromBackupCount ==
    /\ place = "open"
    /\ OpenBase
    /\ place' = "archives"
    /\ i' = BackupCount
    /\ UNCHANGED <<archives, filled, crashes>>

OpenNext ==
    /\ place = "open"
    /\ OpenBase
    /\ place' = "archives"
    /\ i' = BackupCount - 1
    /\ UNCHANGED <<archives, filled, crashes>>

(* The loop of this class over the archives.                                 *)
RemoveArchive ==
    /\ place = "archives"
    /\ i \in archives /\ i + 1 \in archives
    /\ archives' = archives \ {i + 1}
    /\ UNCHANGED <<place, i, files, newest, filled, crashes>>

ShiftArchive ==
    /\ place = "archives" /\ i > 0
    /\ i \in archives => i + 1 \notin archives
    /\ archives' = IF i \in archives THEN (archives \ {i}) \cup {i + 1}
                                     ELSE archives
    /\ i' = i - 1
    /\ UNCHANGED <<place, files, newest, filled, crashes>>

(* Mutation: the old log is removed whether or not it was compressed.        *)
CompressInFinally ==
    /\ place = "archives" /\ i = 0
    /\ archives' = archives \cup {1}
    /\ place' = "remove"
    /\ UNCHANGED <<i, files, newest, filled, crashes>>

(* open(old_log + '.gz', 'wb'), and the TypeError of the first line.         *)
Compress ==
    /\ place = "archives" /\ i = 0
    /\ archives' = archives \cup {1}
    /\ place' = IF files[1] \in filled THEN "logging" ELSE "remove"
    /\ UNCHANGED <<i, files, newest, filled, crashes>>

(* Without a TypeError the old log goes, and emit writes its record.         *)
RemoveOldLog ==
    /\ place = "remove"
    /\ files' = [files EXCEPT ![1] = NoFile]
    /\ filled' = filled \cup {files[0]}
    /\ place' = "logging"
    /\ UNCHANGED <<i, archives, newest, crashes>>

Crash ==
    /\ place # "down" /\ crashes < MaxCrashes
    /\ crashes' = crashes + 1
    /\ place' = "down" /\ i' = 0
    /\ UNCHANGED <<files, archives, newest, filled>>

Next ==
    \/ SetLogger \/ Emit \/ BeginRollover
    \/ RemoveTarget \/ Shift \/ OpenNext
    \/ RemoveArchive \/ ShiftArchive \/ Compress \/ RemoveOldLog
    \/ Crash

Spec == Init /\ [][Next]_vars

(***************************************************************************)
(* Properties.                                                              *)
(***************************************************************************)
(* A rollover that has begun counts the base file it is going to open.       *)
Age(k) == newest - k + IF place \in {"shift", "open"} THEN 1 ELSE 0

(* Every segment with records that is not older than backupCount rollovers   *)
(* is in the directory, each crash of the process between two renames of     *)
(* doRollover costing at most one of them.  Nothing but the failing          *)
(* compression makes it true: os.remove follows a gzip that never succeeds.  *)
RecentKept ==
    \A k \in filled : Age(k) + crashes <= BackupCount =>
        \E n \in 0 .. BackupCount : files[n] = k
=============================================================================
