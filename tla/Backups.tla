------------------------------ MODULE Backups ------------------------------
(***************************************************************************)
(* The daily dump of the database (backup_service) with its rotation and   *)
(* copy to B2, and the weekly check that restores the newest dump into a   *)
(* database of its own.  The process may be killed at any step.            *)
(***************************************************************************)
EXTENDS Integers, FiniteSets

CONSTANTS
    KeepLast,  \* KEEP_LAST: 7 in the code
    Offsite,   \* the B2 settings are there
    LastDay    \* bound on the days looked at

ASSUME BackupsAssumption == KeepLast \in Nat \ {0} /\ Offsite \in BOOLEAN /\ LastDay \in Nat \ {0}

VARIABLES
    day,
    ranOn,    \* the day of the last daily_backup
    disk,     \* BACKUP_DIR: which file names are there, and whether with all data
    made,     \* days whose dump was finished
    backup,   \* the running backup
    check,    \* the running restore check
    scratch,  \* its databases that were not dropped, by day
    copied    \* dumps in B2

backupsVars == <<day, ranOn, disk, made, backup, check, scratch, copied>>

Days == 0 .. LastDay

\* pipka_<timestamp>.sql.gz
FinalName(d) == <<d, "gz">>

\* pipka_<timestamp>.sql.gz.tmp, which the glob of the other steps does not match.
TmpName(d) == <<d, "tmp">>

\* Mutant of WorkName: the dump is written under its final name.
WorkInPlace(d) == FinalName(d)

\* The name of the file while gzip writes it.
WorkName(d) == TmpName(d)

Visible == {d \in Days : FinalName(d) \in DOMAIN disk}

Put(name, whole) == [n \in DOMAIN disk \cup {name} |-> IF n = name THEN whole ELSE disk[n]]
Without(f, name) == [n \in DOMAIN f \ {name} |-> f[n]]

NotRunning == [pc |-> "idle", of |-> 0]

BackupsInit ==
    /\ day = 1 /\ ranOn = 0
    /\ disk = [n \in {} |-> TRUE]
    /\ made = {} /\ scratch = {} /\ copied = {}
    /\ backup = NotRunning /\ check = NotRunning

\* 02:30; a job that still runs is not started again, nor one missed while
\* the process was down.
StartBackup ==
    /\ backup.pc = "idle" /\ ranOn < day
    /\ ranOn' = day
    /\ backup' = [pc |-> "dump", of |-> day]
    /\ UNCHANGED <<day, disk, made, check, scratch, copied>>

\* Client and server agree, pg_dump has written all to memory; gzip starts.
Dump ==
    /\ backup.pc = "dump"
    /\ disk' = Put(WorkName(backup.of), FALSE)
    /\ backup' = [backup EXCEPT !.pc = "write"]
    /\ UNCHANGED <<day, ranOn, made, check, scratch, copied>>

\* A version mismatch, an error or a timeout of pg_dump, a full disk: the job
\* ends, and the temporary file is unlinked.
FailBackup ==
    /\ backup.pc \in {"dump", "write"}
    /\ disk' = Without(disk, TmpName(backup.of))
    /\ backup' = NotRunning
    /\ UNCHANGED <<day, ranOn, made, check, scratch, copied>>

\* gzip closes the file, which then takes its name.
Replace ==
    /\ backup.pc = "write"
    /\ disk' = Without(Put(FinalName(backup.of), TRUE), TmpName(backup.of))
    /\ made' = made \cup {backup.of}
    /\ backup' = [backup EXCEPT !.pc = "rotate"]
    /\ UNCHANGED <<day, ranOn, check, scratch, copied>>

Outdated == {d \in Visible : Cardinality({e \in Visible : e > d}) >= KeepLast}

\* One round of the loop of _rotate_backups, oldest first.
RotateFiles ==
    /\ backup.pc = "rotate"
    /\ IF Outdated = {}
       THEN /\ backup' = IF Offsite THEN [backup EXCEPT !.pc = "upload"] ELSE NotRunning
            /\ UNCHANGED disk
       ELSE /\ \E d \in Outdated : /\ \A e \in Outdated : d <= e
                                   /\ disk' = Without(disk, FinalName(d))
            /\ UNCHANGED backup
    /\ UNCHANGED <<day, ranOn, made, check, scratch, copied>>

\* A failed upload does not fail the backup.
Upload ==
    /\ backup.pc = "upload"
    /\ copied' \in {copied, copied \cup {backup.of}}
    /\ backup' = NotRunning
    /\ UNCHANGED <<day, ranOn, disk, made, check, scratch>>

\* Sunday, 03:30: the newest dump, if there is one, passes gzip -t and the
\* database is created.
StartCheck ==
    /\ check.pc = "idle" /\ scratch \cap {day} = {}
    /\ \E d \in Visible : /\ \A e \in Visible : e <= d
                          /\ disk[FinalName(d)]
                          /\ check' = [pc |-> "restore", of |-> d]
    /\ scratch' = scratch \cup {day}
    /\ UNCHANGED <<day, ranOn, disk, made, backup, copied>>

\* The restore, or its failure, and dropdb, whose result nobody looks at.
EndCheck ==
    /\ check.pc = "restore"
    /\ check' = NotRunning
    /\ scratch' \in {scratch, scratch \ {day}}
    /\ UNCHANGED <<day, ranOn, disk, made, backup, copied>>

Kill ==
    /\ backup' = NotRunning /\ check' = NotRunning
    /\ UNCHANGED <<day, ranOn, disk, made, scratch, copied>>

NextDay ==
    /\ day < LastDay
    /\ check.pc = "idle"
    /\ day' = day + 1
    /\ UNCHANGED <<ranOn, disk, made, backup, check, scratch, copied>>

BackupsNext ==
    \/ StartBackup \/ Dump \/ FailBackup \/ Replace \/ RotateFiles \/ Upload
    \/ StartCheck \/ EndCheck \/ Kill \/ NextDay

BackupsSpec == BackupsInit /\ [][BackupsNext]_backupsVars

-----------------------------------------------------------------------------
(* Properties.                                                             *)

BackupsTypeOK ==
    /\ day \in Days /\ ranOn \in Days
    /\ DOMAIN disk \subseteq Days \X {"gz", "tmp"}
    /\ \A n \in DOMAIN disk : disk[n] \in BOOLEAN
    /\ made \subseteq Days /\ scratch \subseteq Days /\ copied \subseteq made
    /\ backup \in [pc : {"idle", "dump", "write", "rotate", "upload"}, of : Days]
    /\ check \in [pc : {"idle", "restore"}, of : Days]

\* The last KEEP_LAST dumps that were finished are there, and every file that
\* looks like a dump has all its data, wherever the process was killed and
\* however many backups failed since (_create_local_backup, _rotate_backups).
BackupsKept ==
    /\ \A d \in Visible : disk[FinalName(d)]
    /\ \A d \in made : Cardinality({e \in made : e > d}) < KeepLast => d \in Visible
=============================================================================
