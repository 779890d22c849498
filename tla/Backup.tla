------------------------------- MODULE Backup -------------------------------
(***************************************************************************)
(* Backup and restore of the SQLite database while other processes write   *)
(* to it.  (With PostgreSQL both commands refuse to work.)                 *)
(*                                                                         *)
(* The database is in WAL mode: a commit appends the pages it changed to   *)
(* the log, a checkpoint moves them to the main file, and who reads takes  *)
(* a page from the log if it is there.  A connection keeps the main file   *)
(* it has opened, but the log and its locks go by the database's name.     *)
(*                                                                         *)
(* The backup command adds its first audit event in a session that stays   *)
(* open, copies the database over a connection of its own, counts the rows *)
(* over another, writes the manifest next to the copy, and then commits.   *)
(* Restore checks the copy against the manifest and puts it in the place   *)
(* of the main file; log and open connections stay as they are.            *)
(***************************************************************************)
EXTENDS Naturals, Sequences, FiniteSets

CONSTANTS
  Writers,      \* processes that write, each over a connection of its own
  Pages,        \* pages of the database; each holds the rows of one table
  MaxWrites,    \* bound: commits
  MaxCommands   \* bound: backup and restore commands

VARIABLES
  main,        \* file -> the version of each page in it; files are numbered
  wal,         \* page -> its version in the log, for the pages in the log
  current,     \* the file that has the name of the database
  conn,        \* the file each writer has open
  written,     \* number of commits so far, each with a version of its own
  copy,        \* the backup file: [whole, pages]
  manifest,    \* [sum, counts], and for the properties file and settled
  command,     \* the command under way
  commands,
  committed    \* history: contents as the commits left them

backupVars == <<main, wal, current, conn, written, copy, manifest, command, commands, committed>>

\* What a connection with this file open reads.
Reads(file) == [p \in Pages |-> IF p \in DOMAIN wal THEN wal[p] ELSE main[file][p]]

Blank == [p \in Pages |-> 0]
None == [p \in {} |-> 0]
Absent == [whole |-> FALSE, pages |-> Blank]
NoManifest == [sum |-> Absent, counts |-> None, file |-> 0, settled |-> FALSE]
NoCommand == [pc |-> "idle"]

BackupInit ==
  /\ main = <<Blank>> /\ wal = None /\ current = 1
  /\ conn = [w \in Writers |-> 1]
  /\ written = 0
  /\ copy = Absent /\ manifest = NoManifest
  /\ command = NoCommand /\ commands = 0
  /\ committed = {Blank}

\* The write lock of the log: an open session that has written, in whatever file.
Locked == command.pc # "idle" /\ command.locks

\* A commit over a connection to a file puts the pages it changed in the log.
CommitTo(file) ==
  \E touched \in (SUBSET Pages) \ {{}} :
    LET version(p) == IF p \in touched THEN written + 1 ELSE wal[p] IN
    /\ wal' = [p \in touched \cup DOMAIN wal |-> version(p)]
    /\ written' = written + 1
    /\ committed' = committed \cup
         {[p \in Pages |-> IF p \in touched THEN written + 1 ELSE Reads(file)[p]]}

WriteRow(w) ==
  /\ written < MaxWrites
  /\ ~Locked
  /\ CommitTo(conn[w])
  /\ UNCHANGED <<main, current, conn, copy, manifest, command, commands>>

\* wal_autocheckpoint after a commit, or the last connection to a file that is
\* still in its place is closed: logged pages go to the file the connection has
\* open.  (SQLite drops the log when all pages are moved; dropping each one with
\* its move allows more.)
Checkpoint(file) ==
  \E moved \in (SUBSET DOMAIN wal) \ {{}} :
    /\ main' = [main EXCEPT ![file] = [p \in Pages |-> IF p \in moved THEN wal[p] ELSE @[p]]]
    /\ wal' = [p \in DOMAIN wal \ moved |-> wal[p]]
    /\ UNCHANGED <<current, conn, written, copy, manifest, command, commands, committed>>

OpenFiles ==
  {conn[w] : w \in Writers} \cup IF command.pc = "idle" THEN {} ELSE {command.file}

\* A process is started again, or its pool opens a connection anew: the file in
\* place, and the log as it is, which closing a replaced file leaves behind.
Reconnect(w) ==
  /\ conn[w] # current
  /\ conn' = [conn EXCEPT ![w] = current]
  /\ UNCHANGED <<main, wal, current, written, copy, manifest, command, commands, committed>>

-----------------------------------------------------------------------------
(* BackupService.admin_backup *)

\* The first audit event of a second command waits for the lock of the first.
BeginWrite(pc, locks) ==
  /\ command.pc = "idle" /\ commands < MaxCommands
  /\ commands' = commands + 1
  /\ command' = [pc |-> pc, locks |-> locks, file |-> current, sum |-> Absent,
                 counts |-> None, settled |-> \A w \in Writers : conn[w] = current]
  /\ UNCHANGED <<main, wal, current, conn, written, copy, manifest, committed>>

\* Seeded fault: the first audit event comes after the copy.
StartBackupUnlocked == BeginWrite("copy", FALSE)

\* The backup_started event is flushed, not committed: the session has the lock.
StartBackup == BeginWrite("copy", TRUE)

Goes(pc) == command' = [command EXCEPT !.pc = pc]

\* SqliteBackupAdapter.backup_to: the online backup of one snapshot, then the
\* checksum, which stands for the copy it is of.
CopyBegins ==
  /\ command.pc = "copy"
  /\ copy' = [whole |-> FALSE, pages |-> Reads(current)]
  /\ Goes("copying")
  /\ UNCHANGED <<main, wal, current, conn, written, manifest, commands, committed>>
CopyEnds ==
  /\ command.pc = "copying"
  /\ copy' = [copy EXCEPT !.whole = TRUE]
  /\ command' = [command EXCEPT !.pc = "count", !.sum = copy']
  /\ UNCHANGED <<main, wal, current, conn, written, manifest, commands, committed>>

\* table_counts: a SELECT of its own for every table; the count stands for the
\* version of the page it was taken of.
CountTable(p) ==
  /\ command.pc = "count" /\ p \notin DOMAIN command.counts
  /\ command' = [command EXCEPT !.counts =
       [q \in DOMAIN @ \cup {p} |-> IF q = p THEN Reads(current)[p] ELSE @[q]]]
  /\ UNCHANGED <<main, wal, current, conn, written, copy, manifest, commands, committed>>

WriteManifest ==
  /\ command.pc = "count" /\ DOMAIN command.counts = Pages
  /\ manifest' = [sum |-> command.sum, counts |-> command.counts,
                  file |-> command.file, settled |-> command.settled]
  /\ Goes("commit")
  /\ UNCHANGED <<main, wal, current, conn, written, copy, commands, committed>>

-----------------------------------------------------------------------------
(* BackupService.restore *)

\* restore_started is flushed in the session of the command.
StartRestore == manifest # NoManifest /\ BeginWrite("check", TRUE)

\* restore_from: a copy with another checksum is refused, which rolls the
\* restore_failed event back with the rest of the session.
CheckSum ==
  /\ command.pc = "check"
  /\ command' = IF manifest.sum = copy
                THEN [command EXCEPT !.pc = "replace"] ELSE NoCommand
  /\ UNCHANGED <<main, wal, current, conn, written, copy, manifest, commands, committed>>

\* The copy is copied to a temporary file, and os.replace gives it the name of
\* the main file.  The log of the database it replaces stays.
ReplaceFile ==
  /\ command.pc = "replace"
  /\ main' = Append(main, copy.pages)
  /\ current' = current + 1
  /\ Goes("restored")
  /\ UNCHANGED <<wal, conn, written, copy, manifest, commands, committed>>

\* The session of the command commits, over the file that it has open.
CommandCommits ==
  /\ command.pc \in {"commit", "restored"}
  /\ written < MaxWrites
  /\ CommitTo(command.file)
  /\ command' = [command EXCEPT !.pc = "close", !.locks = FALSE]
  /\ UNCHANGED <<main, current, conn, copy, manifest, commands>>

\* The command is over: at any moment when its process dies.
CommandEnds ==
  /\ command.pc # "idle"
  /\ command' = NoCommand
  /\ UNCHANGED <<main, wal, current, conn, written, copy, manifest, commands, committed>>

BackupNext ==
  \/ \E w \in Writers : WriteRow(w) \/ Reconnect(w)
  \/ \E file \in OpenFiles : Checkpoint(file)
  \/ StartBackup \/ CopyBegins \/ CopyEnds
  \/ \E p \in Pages : CountTable(p)
  \/ WriteManifest
  \/ StartRestore \/ CheckSum \/ ReplaceFile
  \/ CommandCommits \/ CommandEnds

BackupSpec == BackupInit /\ [][BackupNext]_backupVars

-----------------------------------------------------------------------------
(* Properties *)

\* However commands die, writers write and the log is checkpointed: a backup
\* that its manifest vouches for has the row counts of the manifest, although
\* copy and counts are many reads, unless a process still had a replaced file
\* open when the backup began; and before the first restore it is a content
\* that some commit left.
BackupIsFaithful ==
  manifest.sum.whole /\ copy = manifest.sum =>
    /\ manifest.settled => manifest.counts = copy.pages
    /\ manifest.file = 1 => copy.pages \in committed

\* Not so in the code: "Validate checksum then replace the target DB with the
\* backup" (restore_from).  Only the main file is replaced, and who opens the
\* database next reads the pages of the old log over it.
RestoreBringsBackupBack == command.pc = "restored" => Reads(current) = copy.pages
=============================================================================
