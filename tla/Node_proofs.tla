----------------------------- MODULE Node_proofs ----------------------------
(***************************************************************************)
(* What the parts of a node guarantee that share no state with each other: *)
(* backup and restore, the reading of records, the submission of videos,   *)
(* the provisioning of cameras, the frame selection and the frame files of *)
(* the running units, the timeline they record with its export, and the    *)
(* vector index.                                                           *)
(***************************************************************************)
EXTENDS Submission, Provisioning, RecordAccess, Backup, FrameStore, CallTimeline,
        VectorIndex, FiniteSetTheorems, FunctionTheorems, SequenceTheorems, TLAPS

-----------------------------------------------------------------------------
(* Backup. *)

\* What a command has read is what an opener still reads: its session keeps the
\* write lock, and no process has a replaced file open to checkpoint into.
CommandOK ==
  \/ command = NoCommand
  \/ /\ command.pc \in {"copy", "copying", "count", "check", "replace", "restored",
                        "commit", "close"}
     /\ DOMAIN command = {"pc", "locks", "file", "sum", "counts", "settled"}
     /\ command.pc # "close" => command.locks = TRUE
     /\ command.file \in 1..Len(main)
     /\ command.pc \in {"copy", "copying", "count"} => command.file = current
     /\ command.settled /\ command.pc \in {"copy", "copying", "count"} =>
          \A w \in Writers : conn[w] = current
     /\ command.settled /\ command.pc \in {"copying", "count"} =>
          copy.pages = Reads(current)
     /\ command.file = 1 /\ command.pc \in {"copying", "count"} => copy.pages \in committed
     /\ command.pc = "count" => command.sum = copy
     /\ command.pc \in {"copy", "copying"} => command.counts = None
     /\ command.settled /\ command.pc = "count" =>
          /\ DOMAIN command.counts \subseteq Pages
          /\ command.counts = [p \in DOMAIN command.counts |-> copy.pages[p]]

\* A manifest is of one content, even while the copy beside it is being replaced
\* by the next one.  Before the first restore everybody has the one file open,
\* and the last commit left what it reads.
BackupInv ==
  /\ main \in Seq([Pages -> Nat]) /\ written \in Nat
  /\ current = Len(main) /\ current \in Nat \ {0}
  /\ DOMAIN wal \subseteq Pages /\ \A p \in DOMAIN wal : wal[p] \in Nat
  /\ wal = [p \in DOMAIN wal |-> wal[p]]
  /\ conn \in [Writers -> 1..Len(main)]
  /\ copy \in [whole : BOOLEAN, pages : [Pages -> Nat]]
  /\ current = 1 => Reads(current) \in committed
  /\ manifest.settled => manifest.counts = manifest.sum.pages
  /\ manifest.file = 1 => manifest.sum.pages \in committed
  /\ CommandOK

\* What is read is a page's version for every page.
LEMMA ReadsType ==
  ASSUME BackupInv, NEW f \in 1..Len(main)
  PROVE  /\ main[f] \in [Pages -> Nat] /\ Reads(f) \in [Pages -> Nat]
<1>1. main[f] \in [Pages -> Nat]
  BY DEF BackupInv
<1>2. \A p \in Pages : (IF p \in DOMAIN wal THEN wal[p] ELSE main[f][p]) \in Nat
  BY <1>1 DEF BackupInv
<1> QED BY <1>1, <1>2 DEF Reads

\* A commit leaves, for who has its file open, a content of the history.
LEMMA CommitToKeeps ==
  ASSUME BackupInv, NEW f \in 1..Len(main), CommitTo(f)
  PROVE  /\ DOMAIN wal' \subseteq Pages /\ \A p \in DOMAIN wal' : wal'[p] \in Nat
         /\ wal' = [p \in DOMAIN wal' |-> wal'[p]]
         /\ written' \in Nat /\ committed \subseteq committed'
         /\ [p \in Pages |-> IF p \in DOMAIN wal' THEN wal'[p] ELSE main[f][p]]
              \in committed'
<1>1. PICK touched \in (SUBSET Pages) \ {{}} :
        /\ wal' = [p \in touched \cup DOMAIN wal |->
                     IF p \in touched THEN written + 1 ELSE wal[p]]
        /\ written' = written + 1
        /\ committed' = committed \cup
             {[p \in Pages |-> IF p \in touched THEN written + 1 ELSE Reads(f)[p]]}
  BY DEF CommitTo
<1>2. DOMAIN wal' = touched \cup DOMAIN wal
  BY <1>1
<1>3. \A p \in DOMAIN wal' : wal'[p] = IF p \in touched THEN written + 1 ELSE wal[p]
  BY <1>1, <1>2
<1>4. DOMAIN wal \subseteq Pages /\ written \in Nat /\ \A p \in DOMAIN wal : wal[p] \in Nat
  BY DEF BackupInv
<1>5. \A p \in Pages :
        (IF p \in DOMAIN wal' THEN wal'[p] ELSE main[f][p])
          = IF p \in touched THEN written + 1 ELSE Reads(f)[p]
  BY <1>2, <1>3 DEF Reads
<1>6. [p \in Pages |-> IF p \in DOMAIN wal' THEN wal'[p] ELSE main[f][p]]
        = [p \in Pages |-> IF p \in touched THEN written + 1 ELSE Reads(f)[p]]
  BY <1>5
<1>7. \A p \in DOMAIN wal' : wal'[p] \in Nat
  BY <1>2, <1>3, <1>4
<1>8. wal' = [p \in DOMAIN wal' |-> wal'[p]]
  BY <1>1, <1>2
<1>9. DOMAIN wal' \subseteq Pages /\ written' \in Nat
  BY <1>1, <1>2, <1>4
<1>10. committed \subseteq committed'
       /\ [p \in Pages |-> IF p \in touched THEN written + 1 ELSE Reads(f)[p]] \in committed'
  BY <1>1
<1> QED BY <1>6, <1>7, <1>8, <1>9, <1>10

\* A checkpoint into the file one has open changes nothing one reads.
LEMMA CheckpointKeeps ==
  ASSUME BackupInv, NEW f \in 1..Len(main), Checkpoint(f)
  PROVE  /\ main' \in Seq([Pages -> Nat]) /\ Len(main') = Len(main)
         /\ DOMAIN wal' \subseteq Pages /\ \A p \in DOMAIN wal' : wal'[p] \in Nat
         /\ wal' = [p \in DOMAIN wal' |-> wal'[p]]
         /\ [p \in Pages |-> IF p \in DOMAIN wal' THEN wal'[p] ELSE main'[f][p]] = Reads(f)
<1> DEFINE merged(moved) == [p \in Pages |-> IF p \in moved THEN wal[p] ELSE main[f][p]]
<1>1. PICK moved \in (SUBSET DOMAIN wal) \ {{}} :
        /\ main' = [main EXCEPT ![f] = merged(moved)]
        /\ wal' = [p \in DOMAIN wal \ moved |-> wal[p]]
  BY DEF Checkpoint
<1>2. /\ DOMAIN wal \subseteq Pages /\ \A p \in DOMAIN wal : wal[p] \in Nat
      /\ main \in Seq([Pages -> Nat])
  BY DEF BackupInv
<1>3. merged(moved) \in [Pages -> Nat]
  <2>1. \A p \in Pages : (IF p \in moved THEN wal[p] ELSE main[f][p]) \in Nat
    BY <1>2, ReadsType
  <2> QED BY <2>1
<1>4. /\ main' \in Seq([Pages -> Nat]) /\ Len(main') = Len(main)
      /\ main'[f] = merged(moved)
  <2> DEFINE page == merged(moved)
              file == [Pages -> Nat]
  <2>1. main' = [main EXCEPT ![f] = page] /\ page \in file /\ main \in Seq(file)
    BY <1>1, <1>2, <1>3
  <2> HIDE DEF page, file
  <2>2. /\ main' \in Seq(file) /\ Len(main') = Len(main) /\ main'[f] = page
    BY <2>1, ExceptSeq
  <2> QED BY <2>2 DEF page, file
<1>5. DOMAIN wal' = DOMAIN wal \ moved /\ \A p \in DOMAIN wal' : wal'[p] = wal[p]
  BY <1>1
<1>6. \A p \in Pages : (IF p \in DOMAIN wal' THEN wal'[p] ELSE main'[f][p]) = Reads(f)[p]
  BY <1>1, <1>4, <1>5 DEF Reads
<1>7. wal' = [p \in DOMAIN wal' |-> wal'[p]]
  BY <1>1, <1>5
<1>8. [p \in Pages |-> IF p \in DOMAIN wal' THEN wal'[p] ELSE main'[f][p]] = Reads(f)
  BY <1>6 DEF Reads
<1> QED BY <1>2, <1>4, <1>5, <1>7, <1>8

\* Every step keeps the invariant.
LEMMA BackupStep ==
  ASSUME BackupInv, [BackupNext]_backupVars
  PROVE  BackupInv'
<1>0. Len(main) \in Nat /\ current \in 1..Len(main)
  BY DEF BackupInv
<1>1. CASE UNCHANGED backupVars
  BY <1>1 DEF BackupInv, CommandOK, Reads, backupVars
<1>2. ASSUME NEW f \in 1..Len(main), CommitTo(f),
             UNCHANGED <<main, current, conn, copy, manifest, commands>>, CommandOK'
      PROVE  BackupInv'
  <2>1. current = 1 => f = current
    BY <1>0 DEF BackupInv
  <2>2. current' = 1 => Reads(current)' \in committed'
    BY <1>2, <2>1, CommitToKeeps DEF Reads
  <2> QED BY <1>2, <2>2, CommitToKeeps DEF BackupInv
<1>3. ASSUME NEW w \in Writers, WriteRow(w) PROVE BackupInv'
  <2>1. conn[w] \in 1..Len(main) /\ CommitTo(conn[w]) /\ ~Locked
        /\ UNCHANGED <<main, current, conn, copy, manifest, command, commands>>
    BY <1>3 DEF BackupInv, WriteRow
  <2>2. CASE command = NoCommand
    BY <1>2, <2>1, <2>2 DEF CommandOK
  <2>3. CASE command # NoCommand
    <3>1. command.pc = "close"
      BY <2>1, <2>3 DEF Locked, BackupInv, CommandOK
    <3>2. CommandOK'
      BY <2>1, <2>3, <3>1 DEF CommandOK, BackupInv
    <3> QED BY <1>2, <2>1, <3>2
  <2> QED BY <2>2, <2>3
<1>4. ASSUME NEW w \in Writers, Reconnect(w) PROVE BackupInv'
  <2>1. /\ conn' = [conn EXCEPT ![w] = current]
        /\ conn[w] # current
        /\ UNCHANGED <<main, wal, current, written, copy, manifest, command, commands, committed>>
    BY <1>4 DEF Reconnect
  <2>2. conn' \in [Writers -> 1..Len(main)]
    BY <1>0, <2>1 DEF BackupInv
  <2>3. \A v \in Writers : conn'[v] = IF v = w THEN current ELSE conn[v]
    BY <2>1 DEF BackupInv
  <2>4. CommandOK'
    BY <2>1, <2>3 DEF BackupInv, CommandOK, Reads
  <2> QED BY <2>1, <2>2, <2>4 DEF BackupInv, Reads
<1>5. ASSUME NEW f \in OpenFiles, Checkpoint(f) PROVE BackupInv'
  <2>1. f \in 1..Len(main)
    BY <1>5 DEF OpenFiles, BackupInv, CommandOK, NoCommand
  <2>2. UNCHANGED <<current, conn, written, copy, manifest, command, commands, committed>>
    BY <1>5 DEF Checkpoint
  <2>3. f = current => Reads(current)' = Reads(current)
    BY <1>5, <2>1, <2>2, CheckpointKeeps DEF Reads
  <2>4. current = 1 => f = current
    BY <1>0, <2>1 DEF BackupInv
  <2>5. command # NoCommand /\ command.settled /\ command.pc \in {"copying", "count"} =>
          f = current
    BY <1>5 DEF OpenFiles, BackupInv, CommandOK, NoCommand
  <2>6. CommandOK'
    <3>1. Len(main') = Len(main) /\ CommandOK
      BY <1>5, <2>1, CheckpointKeeps DEF BackupInv
    <3>2. CASE command = NoCommand
      BY <2>2, <3>2 DEF CommandOK
    <3>3. CASE command # NoCommand
      BY <2>2, <2>3, <2>5, <3>1, <3>3 DEF CommandOK
    <3> QED BY <3>2, <3>3
  <2> QED BY <1>5, <2>1, <2>2, <2>3, <2>4, <2>6, CheckpointKeeps DEF BackupInv
<1>6. ASSUME NEW pc \in {"copy", "check"}, BeginWrite(pc, TRUE) PROVE BackupInv'
  <2>1. /\ command' = [pc |-> pc, locks |-> TRUE, file |-> current, sum |-> Absent,
                       counts |-> None, settled |-> \A w \in Writers : conn[w] = current]
        /\ UNCHANGED <<main, wal, current, conn, written, copy, manifest, committed>>
    BY <1>6 DEF BeginWrite
  <2>2. CommandOK'
    BY <1>0, <1>6, <2>1 DEF CommandOK
  <2> QED BY <2>1, <2>2 DEF BackupInv, Reads
<1>7. CASE StartBackup
  BY <1>6, <1>7 DEF StartBackup
<1>8. CASE StartRestore
  BY <1>6, <1>8 DEF StartRestore
<1>9. ASSUME CopyBegins \/ CopyEnds \/ (\E p \in Pages : CountTable(p)) \/ WriteManifest
             \/ CheckSum \/ ReplaceFile \/ CommandCommits
      PROVE  /\ command # NoCommand /\ CommandOK
             /\ DOMAIN command = {"pc", "locks", "file", "sum", "counts", "settled"}
             /\ command.file \in 1..Len(main)
             /\ command.pc # "close" /\ command.locks = TRUE
  <2>1. command.pc \in {"copy", "copying", "count", "check", "replace", "commit", "restored"}
    BY <1>9 DEF CopyBegins, CopyEnds, CountTable, WriteManifest, CheckSum, ReplaceFile,
       CommandCommits
  <2>2. command # NoCommand /\ CommandOK
    BY <2>1 DEF NoCommand, BackupInv
  <2> QED BY <2>1, <2>2 DEF CommandOK
<1>10. CASE CopyBegins
  <2>1. /\ command.pc = "copy" /\ command.file = current
        /\ copy' = [whole |-> FALSE, pages |-> Reads(current)]
        /\ command' = [command EXCEPT !.pc = "copying"]
        /\ UNCHANGED <<main, wal, current, conn, written, manifest, commands, committed>>
    BY <1>9, <1>10 DEF CopyBegins, Goes, CommandOK
  <2>2. Reads(current) \in [Pages -> Nat]
    BY <1>0, ReadsType
  <2>3. Reads(current)' = Reads(current)
    BY <2>1 DEF Reads
  <2>4. CommandOK'
    BY <1>9, <1>10, <2>1, <2>3 DEF BackupInv, CommandOK
  <2> QED BY <2>1, <2>2, <2>3, <2>4 DEF BackupInv
<1>11. CASE CopyEnds
  <2>1. /\ command.pc = "copying"
        /\ copy' = [copy EXCEPT !.whole = TRUE]
        /\ command' = [command EXCEPT !.pc = "count", !.sum = copy']
        /\ UNCHANGED <<main, wal, current, conn, written, manifest, commands, committed>>
    BY <1>11 DEF CopyEnds
  <2>2. copy' \in [whole : BOOLEAN, pages : [Pages -> Nat]] /\ copy'.pages = copy.pages
    BY <2>1 DEF BackupInv
  <2>3. Reads(current)' = Reads(current)
    BY <2>1 DEF Reads
  <2>4. /\ DOMAIN command' = DOMAIN command
        /\ command'.pc = "count" /\ command'.sum = copy' /\ command'.counts = None
        /\ command'.locks = TRUE /\ command'.file = command.file
        /\ command'.settled = command.settled
    BY <1>9, <1>11, <2>1 DEF CommandOK
  <2>5. /\ DOMAIN command'.counts \subseteq Pages
        /\ command'.counts = [p \in DOMAIN command'.counts |-> copy'.pages[p]]
    BY <2>4 DEF None
  <2>6. CommandOK'
    BY <1>9, <1>11, <2>1, <2>2, <2>3, <2>4, <2>5 DEF CommandOK
  <2> QED BY <2>1, <2>2, <2>3, <2>6 DEF BackupInv
<1>12. ASSUME NEW p \in Pages, CountTable(p) PROVE BackupInv'
  <2> DEFINE counted == [q \in DOMAIN command.counts \cup {p} |->
                           IF q = p THEN Reads(current)[p] ELSE command.counts[q]]
  <2>1. /\ command.pc = "count"
        /\ command' = [command EXCEPT !.counts = counted]
        /\ UNCHANGED <<main, wal, current, conn, written, copy, manifest, commands, committed>>
    BY <1>12 DEF CountTable
  <2>2. Reads(current)' = Reads(current)
    BY <2>1 DEF Reads
  <2>3. /\ DOMAIN command' = DOMAIN command
        /\ command'.pc = "count" /\ command'.sum = command.sum /\ command'.counts = counted
        /\ command'.locks = TRUE /\ command'.file = command.file
        /\ command'.settled = command.settled
    BY <1>9, <1>12, <2>1
  <2>4. ASSUME command.settled
        PROVE  DOMAIN counted \subseteq Pages /\ counted = [q \in DOMAIN counted |-> copy.pages[q]]
    <3>1. /\ DOMAIN command.counts \subseteq Pages
          /\ command.counts = [q \in DOMAIN command.counts |-> copy.pages[q]]
          /\ copy.pages = Reads(current)
      BY <1>9, <1>12, <2>1, <2>4 DEF CommandOK
    <3>2. \A q \in DOMAIN command.counts : command.counts[q] = copy.pages[q]
      BY <3>1
    <3>3. DOMAIN counted = DOMAIN command.counts \cup {p}
      OBVIOUS
    <3> QED BY <3>1, <3>2, <3>3
  <2>5. CommandOK'
    <3> HIDE DEF counted
    <3> QED BY <1>9, <1>12, <2>1, <2>2, <2>3, <2>4 DEF CommandOK
  <2> QED BY <2>1, <2>2, <2>5 DEF BackupInv
<1>13. CASE WriteManifest
  <2>1. /\ command.pc = "count" /\ DOMAIN command.counts = Pages
        /\ manifest' = [sum |-> command.sum, counts |-> command.counts,
                        file |-> command.file, settled |-> command.settled]
        /\ command' = [command EXCEPT !.pc = "commit"]
        /\ UNCHANGED <<main, wal, current, conn, written, copy, commands, committed>>
    BY <1>13 DEF WriteManifest, Goes
  <2>2. command.sum = copy /\ copy.pages \in [Pages -> Nat]
    BY <1>9, <1>13, <2>1 DEF CommandOK, BackupInv
  <2>3. command.settled => command.counts = copy.pages
    <3>1. SUFFICES ASSUME command.settled PROVE command.counts = copy.pages
      OBVIOUS
    <3>2. command.counts = [p \in Pages |-> copy.pages[p]]
      BY <1>9, <1>13, <2>1, <3>1 DEF CommandOK
    <3> QED BY <2>2, <3>2
  <2>4. command.file = 1 => copy.pages \in committed
    BY <1>9, <1>13, <2>1 DEF CommandOK
  <2>5. CommandOK'
    BY <1>9, <1>13, <2>1 DEF CommandOK
  <2> QED BY <2>1, <2>2, <2>3, <2>4, <2>5 DEF BackupInv, Reads
<1>14. CASE CheckSum
  <2>1. CommandOK'
    BY <1>9, <1>14 DEF CheckSum, CommandOK
  <2> QED BY <1>14, <2>1 DEF CheckSum, BackupInv, Reads
<1>15. CASE ReplaceFile
  <2>1. /\ copy.pages \in [Pages -> Nat]
        /\ main' = Append(main, copy.pages) /\ current' = current + 1
        /\ command' = [command EXCEPT !.pc = "restored"]
        /\ UNCHANGED <<wal, conn, written, copy, manifest, commands, committed>>
    BY <1>15 DEF ReplaceFile, Goes, BackupInv
  <2>2. main' \in Seq([Pages -> Nat]) /\ Len(main') = Len(main) + 1
    BY <2>1, AppendProperties DEF BackupInv
  <2>3. /\ current' = Len(main') /\ current' \in Nat \ {0} /\ current' # 1
        /\ \A g \in 1..Len(main) : g \in 1..Len(main')
    BY <1>0, <2>1, <2>2 DEF BackupInv
  <2>4. CommandOK'
    BY <1>9, <1>15, <2>1, <2>3 DEF CommandOK
  <2>5. conn' \in [Writers -> 1..Len(main')]
    BY <2>1, <2>3 DEF BackupInv
  <2> QED BY <2>1, <2>2, <2>3, <2>4, <2>5 DEF BackupInv
<1>16. CASE CommandCommits
  <2>1. /\ CommitTo(command.file)
        /\ command' = [command EXCEPT !.pc = "close", !.locks = FALSE]
        /\ UNCHANGED <<main, current, conn, copy, manifest, commands>>
    BY <1>16 DEF CommandCommits
  <2>2. CommandOK'
    BY <1>9, <1>16, <2>1 DEF CommandOK
  <2> QED BY <1>2, <1>9, <1>16, <2>1, <2>2
<1>17. CASE CommandEnds
  BY <1>17 DEF CommandEnds, BackupInv, CommandOK, Reads
<1> QED BY <1>1, <1>3, <1>4, <1>5, <1>7, <1>8, <1>10, <1>11, <1>12, <1>13, <1>14,
           <1>15, <1>16, <1>17 DEF BackupNext

\* However commands die, writers write and the log is checkpointed, a backup that
\* its manifest vouches for has the row counts of the manifest, and before the
\* first restore it is a content some commit left: because the uncommitted audit
\* event of admin_backup keeps the write lock over all of its reads.
THEOREM BackupsAreFaithful == BackupSpec => []BackupIsFaithful
<1>1. BackupInit => BackupInv
  <2> SUFFICES ASSUME BackupInit PROVE BackupInv
    OBVIOUS
  <2>1. /\ main = <<Blank>> /\ wal = None /\ current = 1 /\ written = 0
        /\ conn = [w \in Writers |-> 1] /\ copy = Absent /\ manifest = NoManifest
        /\ command = NoCommand /\ committed = {Blank}
    BY DEF BackupInit
  <2>2. Blank \in [Pages -> Nat] /\ DOMAIN wal = {}
    BY <2>1 DEF Blank, None
  <2>3. main \in Seq([Pages -> Nat]) /\ Len(main) = 1 /\ main[1] = Blank
    BY <2>1, <2>2
  <2>4. Reads(current) = Blank
    BY <2>1, <2>2, <2>3 DEF Reads, Blank
  <2>5. wal = [p \in DOMAIN wal |-> wal[p]]
    BY <2>1 DEF None
  <2>6. /\ conn \in [Writers -> 1..Len(main)]
        /\ copy \in [whole : BOOLEAN, pages : [Pages -> Nat]]
        /\ manifest.settled = FALSE /\ manifest.file = 0
    BY <2>1, <2>2, <2>3 DEF Absent, NoManifest
  <2> QED BY <2>1, <2>2, <2>3, <2>4, <2>5, <2>6 DEF BackupInv, CommandOK
<1>2. BackupInv => BackupIsFaithful
  BY DEF BackupInv, BackupIsFaithful
<1> QED BY <1>1, <1>2, BackupStep, PTL DEF BackupSpec

-----------------------------------------------------------------------------
(* Reading records. *)

AskKinds ==
  {"details", "locators", "overlap", "playback", "user_export", "migration_export"}

\* What a scope opens rests on policies the principal was granted.
Backed(scope, granted) ==
  /\ granted \subseteq AllPolicies
  /\ scope.policies \subseteq granted
  /\ \A l \in scope.locations : LocationPolicy[l] \in granted
  /\ scope.level \in Levels
  /\ scope.level = 0 \/ \E p \in granted : PolicyLevel[p] = scope.level

\* The audit events of an answer name what it shows.
Names(e, kind, who, record) == e.kind = kind /\ e.who = who /\ e.record = record
Audited(kind, who, shown, events) ==
  /\ kind \in {"details", "playback"} =>
       \A r \in shown : \E e \in events : Names(e, kind, who, r.id)
  /\ kind = "locators" =>
       \A r \in shown : \E e \in events : Names(e, "locator", who, r.id)
  /\ kind \in {"user_export", "migration_export"} =>
       \E e \in events : Names(e, kind, who, Cardinality(shown))

\* A request that is being served: its scope is backed by grants of this very
\* request, and what it is about to show was read through the scope's filter.
HandlerOK(v) ==
  \/ v = Unused
  \/ /\ v.pc \in {"serve", "commit"}
     /\ v.ask.kind \in AskKinds
     /\ Backed(v.scope, v.granted)
     /\ v.pc = "serve" =>
          DOMAIN v = {"pc", "who", "ask", "scope", "granted"}
     /\ v.pc = "commit" =>
          /\ DOMAIN v = {"pc", "who", "ask", "scope", "granted", "shown",
                         "events", "new"}
          /\ v.shown \subseteq Rows
          /\ \A r \in v.shown : InScope(v.scope, r)
          /\ Audited(v.ask.kind, v.who, v.shown, v.events)

AccessInv ==
  /\ rows \subseteq Rows
  /\ handler = [h \in Handlers |-> handler[h]]
  /\ \A h \in Handlers : HandlerOK(handler[h])
  /\ DisclosureIsAuthorized
  /\ DisclosureIsAudited

\* A set of security levels that is not empty has a highest one.
LEMMA HighestLevel ==
  ASSUME NEW S \in SUBSET Levels, S # {}
  PROVE  Max(S) \in S /\ \A y \in S : y <= Max(S)
<1>1. \E x \in S : \A y \in S : x >= y
  <2>1. \A y \in S : y \in {0, 1, 2, 3}
    BY DEF Levels
  <2>2. CASE 3 \in S BY <2>1, <2>2
  <2>3. CASE 3 \notin S /\ 2 \in S BY <2>1, <2>3
  <2>4. CASE 3 \notin S /\ 2 \notin S /\ 1 \in S BY <2>1, <2>4
  <2>5. CASE 3 \notin S /\ 2 \notin S /\ 1 \notin S BY <2>1, <2>5
  <2> QED BY <2>2, <2>3, <2>4, <2>5
<1>2. Max(S) \in S /\ \A y \in S : Max(S) >= y
  BY <1>1 DEF Max
<1> QED BY <1>2 DEF Levels

\* compute_authorized_scope opens what the permitted policies cover.
LEMMA ScopeIsBacked ==
  ASSUME NEW who
  PROVE  Backed(AuthorizedScope(who), {p \in AllPolicies : PolicyPermits(p, who)})
<1> DEFINE permitted == {p \in AllPolicies : PolicyPermits(p, who)}
<1> DEFINE levels == {0} \cup {PolicyLevel[p] : p \in permitted}
<1>1. levels \in SUBSET Levels /\ levels # {}
  BY AccessAssumption DEF Levels
<1>2. Max(levels) \in levels
  BY <1>1, HighestLevel
<1>3. /\ AuthorizedScope(who).policies = permitted
      /\ AuthorizedScope(who).level = Max(levels)
      /\ AuthorizedScope(who).locations =
           {l \in DOMAIN LocationPolicy : LocationPolicy[l] \in permitted}
  BY DEF AuthorizedScope
<1>4. permitted \subseteq AllPolicies
  OBVIOUS
<1>5. Max(levels) \in Levels
  BY <1>1, <1>2
<1>6. Max(levels) = 0 \/ \E p \in permitted : PolicyLevel[p] = Max(levels)
  BY <1>2
<1> HIDE DEF levels, permitted
<1>7. Backed(AuthorizedScope(who), permitted)
  BY <1>3, <1>4, <1>5, <1>6 DEF Backed
<1> QED BY <1>7 DEF permitted

\* The handlers after a step of one of them.
LEMMA OneHandler ==
  ASSUME AccessInv, NEW h \in Handlers, NEW v,
         handler' = [handler EXCEPT ![h] = v], HandlerOK(v)
  PROVE  /\ handler' = [k \in Handlers |-> handler'[k]]
         /\ \A k \in Handlers : HandlerOK(handler'[k])
<1>1. /\ handler' = [k \in Handlers |-> handler'[k]]
      /\ \A k \in Handlers : handler'[k] = IF k = h THEN v ELSE handler[k]
  BY DEF AccessInv
<1> QED BY <1>1 DEF AccessInv

\* While nothing is answered there is nothing to authorize.
LEMMA NothingShown ==
  ASSUME answer' = NoAnswer
  PROVE  DisclosureIsAuthorized' /\ DisclosureIsAudited'
<1>1. answer'.shown = {} /\ answer'.kind = "none"
  BY DEF NoAnswer
<1> QED BY <1>1 DEF DisclosureIsAuthorized, DisclosureIsAudited

\* A service that has read through the filter and audited it.
LEMMA ServedKeeps ==
  ASSUME AccessInv, NEW h \in Handlers, NEW shown, NEW events, NEW new,
         handler[h].pc = "serve",
         Served(h, shown, events, new),
         shown \subseteq rows,
         \A r \in shown : InScope(handler[h].scope, r),
         Audited(handler[h].ask.kind, handler[h].who, shown, events)
  PROVE  AccessInv'
<1> DEFINE v == [pc |-> "commit", who |-> handler[h].who, ask |-> handler[h].ask,
                 scope |-> handler[h].scope, granted |-> handler[h].granted,
                 shown |-> shown, events |-> events, new |-> new]
<1>1. handler' = [handler EXCEPT ![h] = v] /\ rows' = rows /\ answer' = NoAnswer
  BY DEF Served
<1>2. /\ handler[h].ask.kind \in AskKinds
      /\ Backed(handler[h].scope, handler[h].granted)
  BY DEF AccessInv, HandlerOK, Unused
<1>3. /\ v.pc = "commit" /\ v.ask = handler[h].ask /\ v.who = handler[h].who
      /\ v.scope = handler[h].scope /\ v.granted = handler[h].granted
      /\ v.shown = shown /\ v.events = events
      /\ DOMAIN v = {"pc", "who", "ask", "scope", "granted", "shown", "events", "new"}
  OBVIOUS
<1> HIDE DEF v
<1>4. HandlerOK(v)
  BY <1>2, <1>3 DEF HandlerOK, AccessInv
<1>5. /\ handler' = [k \in Handlers |-> handler'[k]]
      /\ \A k \in Handlers : HandlerOK(handler'[k])
  BY <1>1, <1>4, OneHandler
<1> QED BY <1>1, <1>5, NothingShown DEF AccessInv

\* The services: each reads through the filter and writes its audit events in
\* the session.
LEMMA ServiceStep ==
  ASSUME AccessInv, NEW h \in Handlers,
         \/ GetDetails(h) \/ IssueLocators(h) \/ VerifyPlayback(h)
         \/ GetOverlapping(h) \/ UserExport(h) \/ MigrationExport(h)
  PROVE  AccessInv'
<1> DEFINE scope == handler[h].scope
<1> DEFINE Found(ids) == AuthorizedActive(scope, ids)
<1>1. ASSUME NEW ids PROVE Found(ids) \subseteq rows /\ \A r \in Found(ids) : InScope(scope, r)
  BY DEF AuthorizedActive
<1>2. \A kind, r : Names(Event(h, kind, r), kind, handler[h].who, r.id)
  BY DEF Names, Event
<1>3. \A kind, n : Names(Summary(h, kind, n), kind, handler[h].who, n)
  BY DEF Names, Summary
<1>4. CASE GetDetails(h)
  <2> DEFINE found == Found(handler[h].ask.ids)
  <2> DEFINE events == {Event(h, "details", r) : r \in found}
                       \cup {Event(h, "locator", r) : r \in found}
  <2>1. /\ handler[h].pc = "serve" /\ handler[h].ask.kind = "details"
        /\ Served(h, found, events, {})
    BY <1>4 DEF GetDetails, May
  <2>2. Audited("details", handler[h].who, found, events)
    <3>1. \A r \in found : Event(h, "details", r) \in events
      OBVIOUS
    <3> HIDE DEF found, events
    <3> QED BY <1>2, <3>1 DEF Audited
  <2>3. found \subseteq rows /\ \A r \in found : InScope(scope, r)
    BY <1>1
  <2> HIDE DEF found, events
  <2> QED BY <2>1, <2>2, <2>3, ServedKeeps
<1>5. CASE IssueLocators(h)
  <2> DEFINE found == Found(handler[h].ask.ids)
  <2> DEFINE events == {Event(h, "locator", r) : r \in found}
  <2> DEFINE new == {Sign(handler[h].who, r) : r \in found}
  <2>1. /\ handler[h].pc = "serve" /\ handler[h].ask.kind = "locators"
        /\ Served(h, found, events, new)
    BY <1>5 DEF IssueLocators, May
  <2>2. Audited("locators", handler[h].who, found, events)
    <3>1. \A r \in found : Event(h, "locator", r) \in events
      OBVIOUS
    <3> HIDE DEF found, events
    <3> QED BY <1>2, <3>1 DEF Audited
  <2>3. found \subseteq rows /\ \A r \in found : InScope(scope, r)
    BY <1>1
  <2> HIDE DEF found, events, new
  <2> QED BY <2>1, <2>2, <2>3, ServedKeeps
<1>6. CASE VerifyPlayback(h)
  <2> DEFINE found == Found({handler[h].ask.token.record})
  <2> DEFINE events == {Event(h, "playback", r) : r \in found}
  <2>1. /\ handler[h].pc = "serve" /\ handler[h].ask.kind = "playback"
        /\ Served(h, found, events, {})
    BY <1>6 DEF VerifyPlayback, May
  <2>2. Audited("playback", handler[h].who, found, events)
    <3>1. \A r \in found : Event(h, "playback", r) \in events
      OBVIOUS
    <3> HIDE DEF found, events
    <3> QED BY <1>2, <3>1 DEF Audited
  <2>3. found \subseteq rows /\ \A r \in found : InScope(scope, r)
    BY <1>1
  <2> HIDE DEF found, events
  <2> QED BY <2>1, <2>2, <2>3, ServedKeeps
<1>7. CASE GetOverlapping(h)
  <2> DEFINE found == UNION {Overlapping(scope, t) : t \in Found(handler[h].ask.ids)}
  <2>1. /\ handler[h].pc = "serve" /\ handler[h].ask.kind = "overlap"
        /\ Served(h, found, {}, {})
    BY <1>7 DEF GetOverlapping, May
  <2>2. Audited("overlap", handler[h].who, found, {})
    BY DEF Audited
  <2>3. found \subseteq rows /\ \A r \in found : InScope(scope, r)
    BY DEF Overlapping
  <2> HIDE DEF found
  <2> QED BY <2>1, <2>2, <2>3, ServedKeeps
<1>8. ASSUME NEW kind \in {"user_export", "migration_export"},
             handler[h].pc = "serve", handler[h].ask.kind = kind,
             Served(h, {r \in rows : InScope(scope, r)},
                    {Summary(h, kind, Cardinality({r \in rows : InScope(scope, r)}))}, {})
      PROVE  AccessInv'
  <2> DEFINE found == {r \in rows : InScope(scope, r)}
  <2>1. found \subseteq rows /\ \A r \in found : InScope(scope, r)
    OBVIOUS
  <2>2. Served(h, found, {Summary(h, kind, Cardinality(found))}, {})
    BY <1>8
  <2> HIDE DEF found
  <2>3. Audited(kind, handler[h].who, found, {Summary(h, kind, Cardinality(found))})
    BY <1>3, <1>8 DEF Audited
  <2> QED BY <1>8, <2>1, <2>2, <2>3, ServedKeeps
<1>9. CASE UserExport(h)
  BY <1>8, <1>9 DEF UserExport, May
<1>10. CASE MigrationExport(h)
  BY <1>8, <1>10 DEF MigrationExport, May
<1> QED BY <1>4, <1>5, <1>6, <1>7, <1>9, <1>10

\* The principal and its scope are resolved.
LEMMA AuthorizeStep ==
  ASSUME AccessInv, NEW h \in Handlers, NEW who \in AllPrincipals,
         NEW ask \in Asks, Authorize(h, who, ask)
  PROVE  AccessInv'
<1> DEFINE granted == {p \in AllPolicies : PolicyPermits(p, who)}
<1> DEFINE v == [pc |-> "serve", who |-> who, ask |-> ask,
                 scope |-> AuthorizedScope(who), granted |-> granted]
<1>1. handler' = [handler EXCEPT ![h] = v] /\ rows' = rows /\ answer' = NoAnswer
  BY DEF Authorize
<1>2. ask.kind \in AskKinds
  BY DEF Asks, AskKinds
<1>3. Backed(AuthorizedScope(who), granted)
  BY ScopeIsBacked
<1>4. /\ v.pc = "serve" /\ v.ask = ask /\ v.scope = AuthorizedScope(who)
      /\ v.granted = granted
      /\ DOMAIN v = {"pc", "who", "ask", "scope", "granted"}
  OBVIOUS
<1> HIDE DEF v, granted
<1>5. HandlerOK(v)
  BY <1>2, <1>3, <1>4 DEF HandlerOK
<1>6. /\ handler' = [k \in Handlers |-> handler'[k]]
      /\ \A k \in Handlers : HandlerOK(handler'[k])
  BY <1>1, <1>5, OneHandler
<1> QED BY <1>1, <1>6, NothingShown DEF AccessInv

\* The session commits and the client is answered.
LEMMA AnswerStep ==
  ASSUME AccessInv, NEW h \in Handlers, CommitAndAnswer(h)
  PROVE  AccessInv'
<1> DEFINE v == handler[h]
<1>1. /\ v.pc = "commit" /\ v.ask.kind \in AskKinds
      /\ Backed(v.scope, v.granted)
      /\ v.shown \subseteq Rows /\ \A r \in v.shown : InScope(v.scope, r)
      /\ Audited(v.ask.kind, v.who, v.shown, v.events)
  BY DEF CommitAndAnswer, AccessInv, HandlerOK, Unused
<1>2. /\ answer'.who = v.who /\ answer'.kind = v.ask.kind
      /\ answer'.shown = v.shown /\ answer'.granted = v.granted
      /\ answer'.events = v.events
      /\ handler' = [handler EXCEPT ![h] = Unused] /\ rows' = rows
  BY DEF CommitAndAnswer, Answer
<1>3. ASSUME NEW row \in v.shown
      PROVE  /\ row.policy \in v.granted
             /\ LocationPolicy[row.location] \in v.granted
             /\ \E p \in v.granted : PolicyLevel[p] >= row.level
  <2>1. /\ row.policy \in v.granted /\ LocationPolicy[row.location] \in v.granted
        /\ row.level <= v.scope.level
    BY <1>1 DEF Backed, InScope
  <2>2. /\ row.level \in Levels /\ v.scope.level \in Levels
        /\ PolicyLevel[row.policy] \in Levels
        /\ \A p \in v.granted : PolicyLevel[p] \in Levels
    BY <1>1, <2>1, AccessAssumption DEF Backed
  <2>3. CASE v.scope.level = 0
    BY <2>1, <2>2, <2>3 DEF Levels
  <2>4. ASSUME NEW p \in v.granted, PolicyLevel[p] = v.scope.level
        PROVE  \E q \in v.granted : PolicyLevel[q] >= row.level
    BY <2>1, <2>2, <2>4 DEF Levels
  <2> QED BY <1>1, <2>1, <2>3, <2>4 DEF Backed
<1>4. DisclosureIsAuthorized'
  BY <1>2, <1>3 DEF DisclosureIsAuthorized
<1>5. DisclosureIsAudited'
  <2> DEFINE Named(kind) == {e.record : e \in {f \in v.events : f.kind = kind /\ f.who = v.who}}
  <2> DEFINE ids == {row.id : row \in v.shown}
  <2>1. ASSUME NEW kind, NEW n, \E e \in v.events : Names(e, kind, v.who, n)
        PROVE  n \in Named(kind)
    BY <2>1 DEF Names
  <2>2. v.ask.kind \in {"details", "playback"} => ids \subseteq Named(v.ask.kind)
    <3>1. ASSUME v.ask.kind \in {"details", "playback"}, NEW row \in v.shown
          PROVE  row.id \in Named(v.ask.kind)
      BY <1>1, <2>1, <3>1 DEF Audited
    <3> QED BY <3>1
  <2>3. v.ask.kind = "locators" => ids \subseteq Named("locator")
    <3>1. ASSUME v.ask.kind = "locators", NEW row \in v.shown
          PROVE  row.id \in Named("locator")
      BY <1>1, <2>1, <3>1 DEF Audited
    <3> QED BY <3>1
  <2>4. v.ask.kind \in {"user_export", "migration_export"} =>
          Cardinality(v.shown) \in Named(v.ask.kind)
    BY <1>1, <2>1 DEF Audited
  <2>5. DisclosureIsAudited' =
          CASE v.ask.kind \in {"none", "overlap"} -> TRUE
            [] v.ask.kind \in {"user_export", "migration_export"} ->
                 Cardinality(v.shown) \in Named(v.ask.kind)
            [] v.ask.kind = "locators" -> ids \subseteq Named("locator")
            [] OTHER -> ids \subseteq Named(v.ask.kind)
    BY <1>2 DEF DisclosureIsAudited
  <2> HIDE DEF Named, ids, v
  <2> QED BY <1>1, <2>2, <2>3, <2>4, <2>5 DEF AskKinds
<1>6. /\ handler' = [k \in Handlers |-> handler'[k]]
      /\ \A k \in Handlers : HandlerOK(handler'[k])
  BY <1>2, OneHandler DEF HandlerOK
<1> QED BY <1>2, <1>4, <1>5, <1>6 DEF AccessInv

\* Administrators, workers, time and restarts.
LEMMA OthersStep ==
  ASSUME AccessInv,
         \/ \E p \in AllPolicies, rule \in Rulings : ChangeRule(p, rule)
         \/ \E who \in AllPrincipals : Disable(who)
         \/ \E row \in Rows : Republish(row)
         \/ TokenClock \/ RestartServer
  PROVE  AccessInv'
<1>1. answer' = NoAnswer
  BY DEF ChangeRule, Disable, Republish, TokenClock, RestartServer
<1>2. rows' \subseteq Rows
  BY DEF ChangeRule, Disable, Republish, TokenClock, RestartServer, AccessInv
<1>3. ASSUME NEW p \in AllPolicies, NEW rule \in Rulings, ChangeRule(p, rule),
             NEW k \in Handlers
      PROVE  HandlerOK(handler'[k])
  <2> DEFINE v == handler[k]
  <2> DEFINE w == [v EXCEPT !.granted = @ \cup {p}]
  <2>1. handler'[k] = v \/ (v.pc # "idle" /\ handler'[k] = w)
    BY <1>3 DEF ChangeRule
  <2>2. HandlerOK(v)
    BY DEF AccessInv
  <2>3. CASE v.pc # "idle" /\ handler'[k] = w
    <3>1. /\ v.pc \in {"serve", "commit"} /\ v # Unused
          /\ v.pc = "serve" =>
               DOMAIN v = {"pc", "who", "ask", "scope", "granted"}
          /\ v.pc = "commit" =>
               DOMAIN v = {"pc", "who", "ask", "scope", "granted", "shown",
                           "events", "new"}
      BY <2>2, <2>3 DEF HandlerOK, Unused
    <3>2. /\ DOMAIN w = DOMAIN v
          /\ w.pc = v.pc /\ w.who = v.who /\ w.ask = v.ask /\ w.scope = v.scope
          /\ w.granted = v.granted \cup {p}
          /\ v.pc = "commit" => w.shown = v.shown /\ w.events = v.events
      BY <3>1
    <3>3. Backed(v.scope, v.granted)
      BY <2>2, <3>1 DEF HandlerOK
    <3>4. Backed(w.scope, w.granted)
      BY <3>2, <3>3 DEF Backed
    <3> HIDE DEF w
    <3>5. HandlerOK(w)
      BY <2>2, <3>1, <3>2, <3>4 DEF HandlerOK
    <3> QED BY <2>3, <3>5
  <2> QED BY <2>1, <2>2, <2>3
<1>4. CASE \E p \in AllPolicies, rule \in Rulings : ChangeRule(p, rule)
  <2>1. handler' = [k \in Handlers |-> handler'[k]]
    BY <1>4 DEF ChangeRule
  <2> QED BY <1>1, <1>2, <1>3, <1>4, <2>1, NothingShown DEF AccessInv
<1>5. CASE RestartServer
  <2>1. handler' = [k \in Handlers |-> Unused]
    BY <1>5 DEF RestartServer
  <2>2. /\ handler' = [k \in Handlers |-> handler'[k]]
        /\ \A k \in Handlers : HandlerOK(handler'[k])
    BY <2>1 DEF HandlerOK
  <2> QED BY <1>1, <1>2, <2>2, NothingShown DEF AccessInv
<1>6. CASE handler' = handler
  BY <1>1, <1>2, <1>6, NothingShown DEF AccessInv
<1> QED BY <1>4, <1>5, <1>6 DEF Disable, Republish, TokenClock

\* The invariant, for every interleaving of requests and changes.
LEMMA AccessInvHolds == AccessSpec => []AccessInv
<1>1. AccessInit => AccessInv
  <2> SUFFICES ASSUME AccessInit PROVE AccessInv
    OBVIOUS
  <2>1. /\ answer = NoAnswer /\ rows \subseteq Rows
        /\ handler = [h \in Handlers |-> Unused]
    BY AccessAssumption DEF AccessInit
  <2>2. answer.shown = {} /\ answer.kind = "none"
    BY <2>1 DEF NoAnswer
  <2> QED BY <2>1, <2>2
      DEF AccessInv, HandlerOK, DisclosureIsAuthorized, DisclosureIsAudited
<1>2. ASSUME AccessInv, [AccessNext]_accessVars PROVE AccessInv'
  <2>1. CASE UNCHANGED accessVars
    BY <1>2, <2>1
    DEF accessVars, AccessInv, DisclosureIsAuthorized, DisclosureIsAudited
  <2>2. ASSUME NEW h \in Handlers, Rollback(h) PROVE AccessInv'
    <3>1. /\ handler' = [handler EXCEPT ![h] = Unused] /\ rows' = rows
          /\ answer' = NoAnswer
      BY <2>2 DEF Rollback
    <3>2. /\ handler' = [k \in Handlers |-> handler'[k]]
          /\ \A k \in Handlers : HandlerOK(handler'[k])
      BY <1>2, <3>1, OneHandler DEF HandlerOK
    <3> QED BY <1>2, <3>1, <3>2, NothingShown DEF AccessInv
  <2> QED BY <1>2, <2>1, <2>2, AuthorizeStep, ServiceStep, AnswerStep, OthersStep
      DEF AccessNext
<1> QED BY <1>1, <1>2, PTL DEF AccessSpec

\* No answer shows a record on the strength of an earlier grant: for any
\* principals, policies, places, records and requests under way, what details,
\* locators, playback, overlapping records and the exports show is covered by
\* policies the principal held during that very request.
THEOREM DisclosuresAreAuthorized == AccessSpec => []DisclosureIsAuthorized
<1>1. AccessInv => DisclosureIsAuthorized
  BY DEF AccessInv
<1> QED BY <1>1, AccessInvHolds, PTL

\* No answer outlives its audit events: a record shown by details, a locator or
\* a playback is named by an event that was committed before the answer, and an
\* export by its number of records.
THEOREM DisclosuresAreAudited == AccessSpec => []DisclosureIsAudited
<1>1. AccessInv => DisclosureIsAudited
  BY DEF AccessInv
<1> QED BY <1>1, AccessInvHolds, PTL
-----------------------------------------------------------------------------
(* Provisioning. *)

Locations == {AutoLocation, Lobby}
Cameras == {NoCamera, RealCamera, Placeholder}

Sessions == [pc : {"start", "get_auto", "put_auto", "put_camera", "get_location",
                   "resolve", "done", "policy", "lobby", "camera", "commit"},
             open : BOOLEAN, places : SUBSET Locations,
             device : Cameras, camera : Cameras]

ProvTypes ==
  /\ backend \in Backends
  /\ places \subseteq Locations /\ device \in Cameras
  /\ plan \in [Actors -> Sessions]
  /\ context \in [Planners -> {"none", "default", "policy_public_area"}]
  /\ lateLook \subseteq Planners

\* Rows that are not yet committed belong to an open transaction, and a camera
\* row is written by a session that sees its location.
SessionOK(p, seen) ==
  /\ ~p.open => p.places = {} /\ p.device = NoCamera
  /\ p.device # NoCamera => p.device.location \in seen \cup p.places
  /\ p.pc = "put_camera" => AutoLocation \in seen \cup p.places
  /\ p.pc \in {"start", "done"} => ~p.open
SeedOK(p, seen) ==
  /\ p.pc \in {"start", "policy", "lobby", "camera", "commit", "done"}
  /\ p.pc \in {"lobby", "camera", "commit"} => p.open
  /\ p.pc \in {"camera", "commit"} => Lobby \in seen \cup p.places
  /\ p.pc = "commit" => p.device = RealCamera

PlannerOK(p) ==
  /\ p.pc \notin {"policy", "lobby", "camera", "commit"}
  /\ p.pc \in {"get_auto", "put_auto", "put_camera"} => p.device = NoCamera

\* Nobody looked before the seed was committed, so that everyone goes by it.
LateOK(p) ==
  /\ p.pc \in {"start", "get_location", "resolve", "done"}
  /\ p.device = NoCamera
  /\ p.pc \in {"get_location", "resolve"} => p.camera = RealCamera
AllLookedLate ==
  /\ device = RealCamera
  /\ \A w \in Planners : LateOK(plan[w])
  /\ \A w \in lateLook : context[w] \in {"none", RealCamera.policy}

ProvInv ==
  /\ ProvTypes
  /\ \A a \in Actors : SessionOK(plan[a], places)
  /\ SeedOK(plan[Seeder], places)
  /\ device # NoCamera => device.location \in places
  /\ \A w \in Planners : PlannerOK(plan[w])
  /\ plan[Seeder].pc # "done" => lateLook = {}
  /\ plan[Seeder].pc = "done" /\ stale = {} => AllLookedLate

\* The conditions on a session hold for more committed rows as well.
LEMMA MorePlaces ==
  ASSUME NEW p, NEW P, NEW Q, P \subseteq Q
  PROVE  /\ SessionOK(p, P) => SessionOK(p, Q)
         /\ SeedOK(p, P) => SeedOK(p, Q)
BY DEF SessionOK, SeedOK

\* What is left to show of a step of one actor that does not end the seed.
LEMMA ProvLocal ==
  ASSUME ProvInv, NEW a \in Actors, NEW p \in Sessions,
         plan' = [plan EXCEPT ![a] = p],
         places \subseteq places', places' \subseteq Locations, device' \in Cameras,
         context' \in [Planners -> {"none", "default", "policy_public_area"}],
         backend' = backend, stale' = stale,
         SessionOK(p, places'),
         device' # NoCamera => device'.location \in places',
         a = Seeder => SeedOK(p, places') /\ p.pc # "done" /\ plan[a].pc # "done"
                       /\ lateLook' = lateLook,
         a \in Planners =>
           /\ PlannerOK(p)
           /\ lateLook' \subseteq lateLook \cup {a}
           /\ plan[Seeder].pc # "done" => lateLook' = lateLook
           /\ AllLookedLate =>
                /\ LateOK(p) /\ device' = device
                /\ \A w \in lateLook' : context'[w] \in {"none", RealCamera.policy}
  PROVE  ProvInv'
<1>1. plan \in [Actors -> Sessions] /\ plan' \in [Actors -> Sessions]
  BY DEF ProvInv, ProvTypes
<1>2. /\ plan'[a] = p
      /\ \A b \in Actors : b # a => plan'[b] = plan[b]
  BY <1>1
<1>3. a \in Planners \/ a = Seeder
  BY DEF Actors
<1>4. /\ Seeder \in Actors /\ Seeder \notin Planners
      /\ \A w \in Planners : w \in Actors /\ w # Seeder
  BY ProvAssumption DEF Actors
<1>5. ProvTypes'
  BY <1>1, <1>3 DEF ProvInv, ProvTypes
<1>6. ASSUME NEW b \in Actors PROVE SessionOK(plan'[b], places')
  BY <1>2, MorePlaces DEF ProvInv
<1>7. SeedOK(plan'[Seeder], places')
  BY <1>2, <1>4, MorePlaces DEF ProvInv
<1>8. \A w \in Planners : PlannerOK(plan'[w])
  BY <1>2, <1>4 DEF ProvInv
<1>9. plan'[Seeder].pc # "done" => lateLook' = {}
  BY <1>2, <1>3, <1>4 DEF ProvInv
<1>10. ASSUME plan'[Seeder].pc = "done", stale' = {} PROVE AllLookedLate'
  <2>1. a # Seeder /\ a \in Planners /\ plan'[Seeder] = plan[Seeder]
    BY <1>2, <1>3, <1>4, <1>10
  <2>2. AllLookedLate
    BY <1>10, <2>1 DEF ProvInv
  <2>3. \A w \in Planners : LateOK(plan'[w])
    BY <1>2, <1>4, <2>1, <2>2 DEF AllLookedLate
  <2> QED BY <2>1, <2>2, <2>3 DEF AllLookedLate
<1> QED BY <1>5, <1>6, <1>7, <1>8, <1>9, <1>10 DEF ProvInv

\* The rows differ in their locations; only the real one names a policy.
LEMMA CamerasDiffer ==
  /\ NoCamera # RealCamera /\ NoCamera # Placeholder /\ RealCamera # Placeholder
  /\ RealCamera.location = Lobby /\ Placeholder.location = AutoLocation
  /\ RealCamera.policy = "policy_public_area"
  /\ \A c \in Cameras : PolicyOf(c) \in {"none", "default", "policy_public_area"}
  /\ PolicyOf(RealCamera) = "policy_public_area"
BY DEF NoCamera, RealCamera, Placeholder, Lobby, AutoLocation, PolicyOf, Cameras

\* Upserting a location, by either side.
LEMMA UpsertLocationStep ==
  ASSUME ProvInv, NEW a \in Actors, NEW l \in Locations, NEW next,
         UpsertLocation(a, l, next), next # "done", next # "start",
         \/ /\ a = Seeder /\ next \in {"policy", "camera"}
            /\ next = "camera" => l = Lobby /\ plan[a].open
            /\ plan[a].pc \notin {"camera", "commit", "done"}
         \/ /\ a \in Planners /\ next = "put_camera" /\ l = AutoLocation
            /\ plan[a].pc = "put_auto"
  PROVE  ProvInv'
<1>1. plan \in [Actors -> Sessions] /\ plan[a] \in Sessions /\ SessionOK(plan[a], places)
  BY DEF ProvInv, ProvTypes
<1>2. a \in Planners => a # Seeder
  BY ProvAssumption
<1>3. a \in Planners => ~AllLookedLate
  BY <1>2 DEF AllLookedLate, LateOK
<1>4. /\ UNCHANGED <<backend, device, context, stale, lateLook>>
      /\ device \in Cameras /\ places \subseteq Locations
      /\ context \in [Planners -> {"none", "default", "policy_public_area"}]
      /\ device # NoCamera => device.location \in places
  BY DEF UpsertLocation, ProvInv, ProvTypes
<1>5. CASE backend = "sqlite" /\ ~plan[a].open /\ l \notin places
  <2> DEFINE p == [plan[a] EXCEPT !.pc = next]
  <2>1. places' = places \cup {l} /\ plan' = [plan EXCEPT ![a] = p]
    BY <1>1, <1>5 DEF UpsertLocation
  <2>2. p \in Sessions /\ p.pc = next /\ p.open = FALSE /\ p.places = {} /\ p.device = NoCamera
    BY <1>1, <1>5 DEF Sessions, SessionOK
  <2>3. SessionOK(p, places')
    BY <2>1, <2>2 DEF SessionOK
  <2>4. a = Seeder => SeedOK(p, places')
    BY <1>2, <1>5, <2>1, <2>2 DEF SeedOK
  <2>5. a \in Planners => PlannerOK(p)
    BY <1>2, <2>2 DEF PlannerOK
  <2> HIDE DEF p
  <2> QED BY <1>2, <1>3, <1>4, <2>1, <2>2, <2>3, <2>4, <2>5, ProvLocal
<1>6. CASE ~(backend = "sqlite" /\ ~plan[a].open /\ l \notin places)
  <2> DEFINE p == [plan[a] EXCEPT !.pc = next, !.open = TRUE,
                                  !.places = plan[a].places \cup {l}]
  <2>1. places' = places /\ plan' = [plan EXCEPT ![a] = p]
    BY <1>1, <1>6 DEF UpsertLocation
  <2>2. /\ p \in Sessions /\ p.pc = next /\ p.open = TRUE
        /\ p.places = plan[a].places \cup {l} /\ p.device = plan[a].device
    BY <1>1 DEF Sessions
  <2>3. SessionOK(p, places')
    BY <1>1, <2>1, <2>2 DEF SessionOK
  <2>4. a = Seeder => SeedOK(p, places')
    BY <1>2, <2>1, <2>2 DEF SeedOK
  <2>5. a \in Planners => PlannerOK(p)
    BY <1>2, <2>2 DEF PlannerOK, ProvInv
  <2> HIDE DEF p
  <2> QED BY <1>2, <1>3, <1>4, <2>1, <2>2, <2>3, <2>4, <2>5, ProvLocal
<1> QED BY <1>5, <1>6

\* Upserting the camera row: the placeholder, or the real one in the seed's
\* transaction.
LEMMA UpsertCameraStep ==
  ASSUME ProvInv, NEW a \in Actors, NEW row \in Cameras, NEW next,
         UpsertCamera(a, row, next),
         \/ a = Seeder /\ row = RealCamera /\ next = "commit" /\ plan[a].pc = "camera"
         \/ /\ a \in Planners /\ row = Placeholder /\ next = "get_location"
            /\ plan[a].pc = "put_camera"
  PROVE  ProvInv'
<1>1. plan \in [Actors -> Sessions] /\ plan[a] \in Sessions /\ SessionOK(plan[a], places)
  BY DEF ProvInv, ProvTypes
<1>2. a \in Planners => a # Seeder
  BY ProvAssumption
<1>3. a \in Planners => ~AllLookedLate
  BY <1>2 DEF AllLookedLate, LateOK
<1>4. /\ UNCHANGED <<backend, places, context, stale, lateLook>>
      /\ device \in Cameras /\ places \subseteq Locations
      /\ context \in [Planners -> {"none", "default", "policy_public_area"}]
      /\ device # NoCamera => device.location \in places
  BY DEF UpsertCamera, ProvInv, ProvTypes
<1>5. a = Seeder => plan[a].open /\ SeedOK(plan[a], places)
  BY <1>2 DEF ProvInv, SeedOK
<1>6. row.location \in places \cup plan[a].places
  BY <1>1, <1>2, <1>5, CamerasDiffer DEF SeedOK, SessionOK
<1>7. CASE backend = "sqlite" /\ ~plan[a].open /\ device = NoCamera
  <2> DEFINE p == [plan[a] EXCEPT !.pc = next, !.camera = row]
  <2>1. device' = row /\ plan' = [plan EXCEPT ![a] = p]
    BY <1>1, <1>7 DEF UpsertCamera
  <2>2. p \in Sessions /\ p.pc = next /\ p.open = FALSE /\ p.places = {} /\ p.device = NoCamera
    BY <1>1, <1>7 DEF Sessions, SessionOK
  <2>3. a # Seeder /\ SessionOK(p, places') /\ device'.location \in places'
    BY <1>1, <1>4, <1>5, <1>6, <1>7, <2>1, <2>2 DEF SessionOK
  <2>4. a \in Planners => PlannerOK(p)
    BY <1>2, <2>2 DEF PlannerOK
  <2> HIDE DEF p
  <2> QED BY <1>2, <1>3, <1>4, <2>1, <2>2, <2>3, <2>4, ProvLocal
<1>8. CASE ~(backend = "sqlite" /\ ~plan[a].open /\ device = NoCamera)
  <2> DEFINE p == [plan[a] EXCEPT !.pc = next, !.open = TRUE, !.device = row,
                                  !.camera = row]
  <2>1. device' = device /\ plan' = [plan EXCEPT ![a] = p]
    BY <1>1, <1>8 DEF UpsertCamera
  <2>2. /\ p \in Sessions /\ p.pc = next /\ p.open = TRUE
        /\ p.places = plan[a].places /\ p.device = row
    BY <1>1 DEF Sessions
  <2>3. SessionOK(p, places')
    BY <1>1, <1>4, <1>6, <2>1, <2>2 DEF SessionOK
  <2>4. a = Seeder => SeedOK(p, places')
    BY <1>2, <1>4, <1>5, <2>1, <2>2 DEF SeedOK
  <2>5. a \in Planners => PlannerOK(p)
    BY <1>2, <2>2 DEF PlannerOK
  <2> HIDE DEF p
  <2> QED BY <1>2, <1>3, <1>4, <2>1, <2>2, <2>3, <2>4, <2>5, ProvLocal
<1> QED BY <1>7, <1>8

\* The seed commits: whoever has not looked yet will find the real camera.
LEMMA SeedCommitStep ==
  ASSUME ProvInv, SeedCommit
  PROVE  ProvInv'
<1> DEFINE s == plan[Seeder]
           p == [Closed EXCEPT !.pc = "done"]
<1>1. /\ plan \in [Actors -> Sessions] /\ Seeder \in Actors /\ s \in Sessions
      /\ \A w \in Planners : w \in Actors /\ w # Seeder /\ plan[w] \in Sessions
  BY ProvAssumption DEF ProvInv, ProvTypes, Actors
<1>2. /\ s.pc = "commit" /\ s.device = RealCamera
      /\ Lobby \in places \cup s.places
  BY DEF SeedCommit, ProvInv, SeedOK
<1>3. /\ places' = places \cup s.places /\ device' = RealCamera
      /\ plan' = [plan EXCEPT ![Seeder] = p]
      /\ stale' = {w \in Planners : plan[w].pc \notin {"start", "done", "failed"}}
      /\ UNCHANGED <<backend, context, lateLook>>
  BY <1>2, CamerasDiffer DEF SeedCommit, PlacesSeen, DeviceSeen
<1>4. /\ p \in Sessions /\ p.pc = "done" /\ p.open = FALSE /\ p.places = {}
      /\ p.device = NoCamera
  BY DEF Closed, Sessions, Cameras
<1>5. /\ plan' \in [Actors -> Sessions] /\ plan'[Seeder] = p
      /\ \A w \in Planners : plan'[w] = plan[w]
      /\ \A a \in Actors : a # Seeder => plan'[a] = plan[a]
  BY <1>1, <1>3, <1>4
<1> HIDE DEF p
<1>6. ProvTypes'
  <2>1. s.places \subseteq Locations
    BY <1>1 DEF Sessions
  <2> QED BY <1>3, <1>5, <2>1 DEF ProvInv, ProvTypes, Cameras
<1>7. places \subseteq places'
  BY <1>3
<1>8. SessionOK(p, places') /\ SeedOK(p, places')
  BY <1>4 DEF SessionOK, SeedOK
<1>9. \A a \in Actors : SessionOK(plan'[a], places')
  BY <1>5, <1>7, <1>8, MorePlaces DEF ProvInv
<1>10. device'.location \in places'
  BY <1>2, <1>3, CamerasDiffer
<1>11. lateLook' = {}
  BY <1>2, <1>3 DEF ProvInv
<1>12. ASSUME stale' = {}, NEW w \in Planners PROVE LateOK(plan'[w])
  <2>1. plan[w].pc \in {"start", "done"}
    BY <1>1, <1>3, <1>12 DEF Sessions
  <2>2. plan[w].device = NoCamera
    BY <1>1, <2>1 DEF ProvInv, SessionOK
  <2> QED BY <1>5, <2>1, <2>2 DEF LateOK
<1>13. stale' = {} => AllLookedLate'
  BY <1>3, <1>11, <1>12 DEF AllLookedLate
<1>14. \A w \in Planners : PlannerOK(plan'[w])
  BY <1>5 DEF ProvInv
<1> QED BY <1>4, <1>5, <1>6, <1>8, <1>9, <1>10, <1>11, <1>13, <1>14 DEF ProvInv

\* The steps of a planner that write no row.
LEMMA PlannerMoves ==
  ASSUME ProvInv, NEW w \in Planners,
         GetCamera(w) \/ GetAutoLocation(w) \/ GetLocation(w) \/ PlanningAborts(w)
  PROVE  ProvInv'
<1>1. /\ plan \in [Actors -> Sessions] /\ w \in Actors /\ plan[w] \in Sessions
      /\ w # Seeder /\ SessionOK(plan[w], places) /\ PlannerOK(plan[w])
  BY ProvAssumption DEF ProvInv, ProvTypes, Actors
<1>2. /\ UNCHANGED <<backend, places, device, context, stale>>
      /\ device \in Cameras /\ places \subseteq Locations
      /\ context \in [Planners -> {"none", "default", "policy_public_area"}]
      /\ device # NoCamera => device.location \in places
  BY DEF GetCamera, GetAutoLocation, GetLocation, PlanningAborts, Step, ProvInv, ProvTypes
<1>3. CASE GetCamera(w)
  <2> DEFINE p == [plan[w] EXCEPT !.camera = device,
                      !.pc = IF device = NoCamera THEN "get_auto" ELSE "get_location"]
  <2>1. /\ plan' = [plan EXCEPT ![w] = p] /\ plan[w].pc = "start" /\ context[w] = "none"
        /\ lateLook' = IF plan[Seeder].pc = "done" THEN lateLook \cup {w} ELSE lateLook
    BY <1>1, <1>3 DEF GetCamera
  <2>2. /\ p \in Sessions /\ p.camera = device
        /\ p.pc = (IF device = NoCamera THEN "get_auto" ELSE "get_location")
        /\ p.open = plan[w].open /\ p.places = plan[w].places /\ p.device = plan[w].device
    BY <1>1, <1>2 DEF Sessions
  <2>3. p.open = FALSE /\ p.device = NoCamera
    BY <1>1, <2>1, <2>2 DEF SessionOK, Sessions
  <2>4. SessionOK(p, places') /\ PlannerOK(p)
    BY <1>1, <1>2, <2>1, <2>2, <2>3 DEF SessionOK, PlannerOK
  <2>5. AllLookedLate => /\ LateOK(p)
                         /\ \A v \in lateLook' : context'[v] \in {"none", RealCamera.policy}
    BY <1>2, <2>1, <2>2, <2>3, CamerasDiffer DEF AllLookedLate, LateOK
  <2> HIDE DEF p
  <2> QED BY <1>1, <1>2, <2>1, <2>2, <2>4, <2>5, ProvLocal
<1>4. ASSUME NEW next \in {"put_camera", "put_auto", "resolve"},
             Step(w, next), lateLook' = lateLook,
             plan[w].pc = IF next = "resolve" THEN "get_location" ELSE "get_auto",
             next = "put_camera" => AutoLocation \in places \cup plan[w].places
      PROVE  ProvInv'
  <2> DEFINE p == [plan[w] EXCEPT !.pc = next]
  <2>1. plan' = [plan EXCEPT ![w] = p]
    BY <1>1, <1>4 DEF Step
  <2>2. /\ p \in Sessions /\ p.pc = next /\ p.camera = plan[w].camera
        /\ p.open = plan[w].open /\ p.places = plan[w].places /\ p.device = plan[w].device
    BY <1>1, <1>4 DEF Sessions
  <2>3. SessionOK(p, places') /\ PlannerOK(p)
    BY <1>1, <1>2, <1>4, <2>2 DEF SessionOK, PlannerOK
  <2>4. AllLookedLate => LateOK(p)
    BY <1>4, <2>2 DEF AllLookedLate, LateOK
  <2>5. AllLookedLate => \A v \in lateLook' : context'[v] \in {"none", RealCamera.policy}
    BY <1>2, <1>4 DEF AllLookedLate
  <2> HIDE DEF p
  <2> QED BY <1>1, <1>2, <1>4, <2>1, <2>2, <2>3, <2>4, <2>5, ProvLocal
<1>5. CASE GetAutoLocation(w)
  BY <1>4, <1>5 DEF GetAutoLocation, PlacesSeen
<1>6. CASE GetLocation(w)
  BY <1>4, <1>6 DEF GetLocation
<1>7. CASE PlanningAborts(w)
  <2>1. /\ Closed \in Sessions /\ Closed.pc = "start" /\ Closed.open = FALSE
        /\ Closed.places = {} /\ Closed.device = NoCamera
    BY DEF Closed, Sessions, Cameras
  <2>2. SessionOK(Closed, places') /\ PlannerOK(Closed) /\ LateOK(Closed)
    BY <2>1 DEF SessionOK, PlannerOK, LateOK
  <2>3. plan' = [plan EXCEPT ![w] = Closed] /\ lateLook' = lateLook
    BY <1>7 DEF PlanningAborts
  <2>4. AllLookedLate => \A v \in lateLook' : context'[v] \in {"none", RealCamera.policy}
    BY <1>2, <2>3 DEF AllLookedLate
  <2> QED BY <1>1, <1>2, <2>1, <2>2, <2>3, <2>4, ProvLocal
<1> QED BY <1>3, <1>5, <1>6, <1>7

\* A planner's session commits.
LEMMA PlannerCommits ==
  ASSUME ProvInv, NEW w \in Planners, ResolveAndCommit(w)
  PROVE  ProvInv'
<1> DEFINE p == [Closed EXCEPT !.pc = "done"]
<1>1. /\ plan \in [Actors -> Sessions] /\ w \in Actors /\ plan[w] \in Sessions
      /\ w # Seeder /\ SessionOK(plan[w], places) /\ PlannerOK(plan[w])
  BY ProvAssumption DEF ProvInv, ProvTypes, Actors
<1>2. /\ plan[w].pc = "resolve"
      /\ context' = [context EXCEPT ![w] = PolicyOf(plan[w].camera)]
      /\ places' = places \cup plan[w].places
      /\ device' = (IF plan[w].device # NoCamera THEN plan[w].device ELSE device)
      /\ plan' = [plan EXCEPT ![w] = p]
      /\ UNCHANGED <<backend, stale, lateLook>>
  BY DEF ResolveAndCommit, PlacesSeen, DeviceSeen
<1>3. /\ p \in Sessions /\ p.pc = "done" /\ p.open = FALSE /\ p.places = {}
      /\ p.device = NoCamera
  BY DEF Closed, Sessions, Cameras
<1> HIDE DEF p
<1>4. SessionOK(p, places') /\ PlannerOK(p) /\ LateOK(p)
  BY <1>3 DEF SessionOK, PlannerOK, LateOK
<1>5. /\ places \subseteq places' /\ places' \subseteq Locations /\ device' \in Cameras
      /\ plan[w].camera \in Cameras
  BY <1>1, <1>2 DEF ProvInv, ProvTypes, Sessions
<1>6. context' \in [Planners -> {"none", "default", "policy_public_area"}]
  BY <1>2, <1>5, CamerasDiffer DEF ProvInv, ProvTypes
<1>7. device' # NoCamera => device'.location \in places'
  BY <1>1, <1>2 DEF SessionOK, ProvInv
<1>8. ASSUME AllLookedLate
      PROVE  /\ device' = device
             /\ \A v \in lateLook' : context'[v] \in {"none", RealCamera.policy}
  <2>1. plan[w].camera = RealCamera /\ plan[w].device = NoCamera
    BY <1>2, <1>8 DEF AllLookedLate, LateOK
  <2>2. context' = [context EXCEPT ![w] = RealCamera.policy]
    BY <1>2, <2>1, CamerasDiffer
  <2>3. context \in [Planners -> {"none", "default", "policy_public_area"}]
        /\ lateLook \subseteq Planners
    BY DEF ProvInv, ProvTypes
  <2> QED BY <1>2, <1>8, <2>1, <2>2, <2>3 DEF AllLookedLate
<1> QED BY <1>1, <1>2, <1>3, <1>4, <1>5, <1>6, <1>7, <1>8, ProvLocal

\* Every step keeps the invariant.
LEMMA ProvStep ==
  ASSUME ProvInv, [ProvNext]_provVars
  PROVE  ProvInv'
<1>0. /\ Seeder \in Actors /\ \A w \in Planners : w \in Actors
      /\ AutoLocation \in Locations /\ Lobby \in Locations
      /\ RealCamera \in Cameras /\ Placeholder \in Cameras
  BY DEF Actors, Locations, Cameras
<1>1. CASE UNCHANGED provVars
  BY <1>1 DEF provVars, ProvInv, ProvTypes, AllLookedLate
<1>2. CASE SeedAuto
  BY <1>0, <1>2, UpsertLocationStep DEF SeedAuto
<1>3. CASE SeedPolicy
  <2> DEFINE p == [plan[Seeder] EXCEPT !.pc = "lobby", !.open = TRUE]
  <2>1. /\ plan \in [Actors -> Sessions] /\ plan[Seeder] \in Sessions
        /\ SessionOK(plan[Seeder], places) /\ SeedOK(plan[Seeder], places)
        /\ Seeder \notin Planners
    BY <1>0, ProvAssumption DEF ProvInv, ProvTypes
  <2>2. /\ plan' = [plan EXCEPT ![Seeder] = p] /\ plan[Seeder].pc = "policy"
        /\ UNCHANGED <<backend, places, device, context, stale, lateLook>>
    BY <1>3, <2>1 DEF SeedPolicy
  <2>3. /\ p \in Sessions /\ p.pc = "lobby" /\ p.open = TRUE
        /\ p.places = plan[Seeder].places /\ p.device = plan[Seeder].device
    BY <2>1 DEF Sessions
  <2>4. SessionOK(p, places') /\ SeedOK(p, places')
    BY <2>1, <2>2, <2>3 DEF SessionOK, SeedOK
  <2>5. /\ device \in Cameras /\ places \subseteq Locations
        /\ context \in [Planners -> {"none", "default", "policy_public_area"}]
        /\ device # NoCamera => device.location \in places
    BY DEF ProvInv, ProvTypes
  <2> HIDE DEF p
  <2> QED BY <1>0, <2>1, <2>2, <2>3, <2>4, <2>5, ProvLocal
<1>4. CASE SeedLobby
  <2>1. plan[Seeder].pc = "lobby" /\ plan[Seeder].open
    BY <1>4 DEF SeedLobby, ProvInv, SeedOK
  <2> QED BY <1>0, <1>4, <2>1, UpsertLocationStep DEF SeedLobby
<1>5. CASE SeedCamera
  BY <1>0, <1>5, UpsertCameraStep DEF SeedCamera
<1>6. CASE SeedCommit
  BY <1>6, SeedCommitStep
<1>7. ASSUME NEW w \in Planners, PutAutoLocation(w) PROVE ProvInv'
  BY <1>0, <1>7, UpsertLocationStep DEF PutAutoLocation
<1>8. ASSUME NEW w \in Planners, PutCamera(w) PROVE ProvInv'
  BY <1>0, <1>8, UpsertCameraStep DEF PutCamera
<1> QED BY <1>1, <1>2, <1>3, <1>4, <1>5, <1>6, <1>7, <1>8, PlannerMoves,
           PlannerCommits DEF ProvNext

\* The cold-start race of upsert_by_pk, for any number of planning workers and
\* on either database: nobody fails, a camera has its location, and a
\* registration is replaced only by a planner that looked before the seed.
THEOREM ColdStart == ProvSpec => []ColdStartIsSafe
<1>1. ProvInit => ProvInv
  <2> SUFFICES ASSUME ProvInit PROVE ProvInv
    OBVIOUS
  <2>1. /\ Closed \in Sessions /\ Closed.pc = "start" /\ Closed.open = FALSE
        /\ Closed.places = {} /\ Closed.device = NoCamera
    BY DEF Closed, Sessions, Cameras
  <2>2. /\ plan = [a \in Actors |-> Closed] /\ Seeder \in Actors
        /\ \A w \in Planners : w \in Actors
    BY DEF ProvInit, Actors
  <2>3. \A a \in Actors : plan[a] = Closed
    BY <2>2
  <2>4. ProvTypes
    BY <2>1, <2>2 DEF ProvInit, ProvTypes, Cameras
  <2>5. SessionOK(Closed, places) /\ SeedOK(Closed, places) /\ PlannerOK(Closed)
    BY <2>1 DEF SessionOK, SeedOK, PlannerOK
  <2> QED BY <2>1, <2>2, <2>3, <2>4, <2>5 DEF ProvInv, ProvInit
<1>2. ProvInv /\ [ProvNext]_provVars => ProvInv'
  BY ProvStep
<1>3. ProvInv => ColdStartIsSafe
  BY DEF ProvInv, ProvTypes, Sessions, AllLookedLate, ColdStartIsSafe, Actors
<1> QED BY <1>1, <1>2, <1>3, PTL DEF ProvSpec
-----------------------------------------------------------------------------
(* Submission. *)

Tables == {"sources", "jobs", "scales", "tasks"}
Keyed == {"sources", "jobs", "scales"}
Started == {"insert_scales", "enqueue", "commit"}
Found == {"find_job", "select_job", "insert_job"} \cup Started

\* KeyOf, JobKey and Visible with what they read as parameters.
AnchorOf(b, s) ==
  IF b = "sqlite" THEN <<s.camera, s.start, s.zone>> ELSE <<s.camera, s.start>>
UniqueOf(b, t, row) ==
  CASE t = "sources" -> AnchorOf(b, row)
    [] t = "jobs" -> row.key
    [] t = "scales" -> <<row.job, row.scale>>
    [] t = "tasks" -> row
KeyFor(request, source) ==
  CASE request.key # Missing -> request.key
    [] request.key = Missing /\ request.ext # Missing -> request.ext
    [] OTHER -> source
Seen(T, v, t) == T[t] \cup v.own[t]

\* A request in flight is a record, and what it wrote a table of rows.
Shape(v) ==
  /\ DOMAIN v = {"pc", "own", "source", "job"}
  /\ v.own = [t \in Tables |-> v.own[t]]

\* No two rows that a request sees have the same unique value.
SeesUnique(b, T, v) ==
  \A t \in Keyed : \A a, r \in Seen(T, v, t) :
    UniqueOf(b, t, a) = UniqueOf(b, t, r) => a = r

\* The transactions of two requests: on SQLite one writes at a time, on
\* PostgreSQL they write different unique values.
Apart(b, v, w) ==
  /\ b = "sqlite" => v.own = NoWrites \/ w.own = NoWrites
  /\ \A t \in Keyed : \A a \in v.own[t], r \in w.own[t] :
       UniqueOf(b, t, a) # UniqueOf(b, t, r)

\* How far a request is with the rows of its job: it writes none because the
\* job is there, or it has made the job under its own id.
Untouched(v) == v.own.jobs = {} /\ v.own.scales = {} /\ v.own.tasks = {}
Reuses(T, v) == Untouched(v) /\ \E j \in T.jobs : j.id = v.job
Made(v, request, id) ==
  /\ v.job = id
  /\ v.own.jobs = {[id |-> id, video |-> v.source, key |-> KeyFor(request, v.source)]}
Scaled(v, request, id) ==
  v.own.scales = {[job |-> id, scale |-> s] : s \in ScalesOf(request)}
Queued(v, id) == v.own.tasks = {[job |-> id, video |-> v.source, by |-> id]}

FlightOK(b, T, v, request, id) ==
  /\ v.pc \in {"idle", "source", "insert_source"} => v.own = NoWrites
  /\ v.pc \notin Started => Untouched(v)
  /\ v.pc \in Found => \E s \in Seen(T, v, "sources") :
       s.id = v.source /\ AnchorOf(b, s) = AnchorOf(b, request)
  /\ v.pc \in Started => \E j \in Seen(T, v, "jobs") :
       j.id = v.job /\ j.key = KeyFor(request, v.source)
  /\ v.pc = "insert_scales" =>
       \/ Reuses(T, v)
       \/ Made(v, request, id) /\ v.own.scales = {} /\ v.own.tasks = {}
  /\ v.pc = "enqueue" => /\ Made(v, request, id) /\ Scaled(v, request, id)
                         /\ v.own.tasks = {}
  /\ v.pc = "commit" =>
       \/ Reuses(T, v)
       \/ Made(v, request, id) /\ Scaled(v, request, id) /\ Queued(v, id)

\* A committed job is complete.
Complete(j, T, w) ==
  /\ \E q \in T.tasks : q.video = j.video /\ {r \in T.tasks : r.job = j.id} = {q}
  /\ {s.scale : s \in {r \in T.scales : r.job = j.id}} = ScalesOf(w[j.id[1]])
TablesOK(b, T, w) ==
  /\ T = [t \in Tables |-> T[t]]
  /\ \A t \in Keyed : \A a, r \in T[t] : UniqueOf(b, t, a) = UniqueOf(b, t, r) => a = r
  /\ \A j \in T.jobs : Complete(j, T, w)
  /\ \A s \in T.scales : \E j \in T.jobs : j.id = s.job
  /\ \A q \in T.tasks : \E j \in T.jobs : j.id = q.job

\* An accepted answer names the job of the request's key and anchor.
AnswerOK(b, T, a) ==
  \E s \in T.sources, j \in T.jobs :
    /\ s.id = a.video /\ AnchorOf(b, s) = AnchorOf(b, a.request)
    /\ j.id = a.job /\ j.key = KeyFor(a.request, a.video)

\* The ids a client has used are behind the one of its request in flight.
IdOK(id, v, n) ==
  /\ id = <<id[1], id[2]>> /\ id[1] \in Clients /\ id[2] \in Nat
  /\ id[2] <= n[id[1]]
  /\ v[id[1]].pc # "idle" => id[2] # n[id[1]]

SubInv ==
  /\ DOMAIN sub = Clients /\ sends \in [Clients -> Nat]
  /\ \A c \in Clients :
       /\ Shape(sub[c])
       /\ SeesUnique(backend, tables, sub[c])
       /\ FlightOK(backend, tables, sub[c], wanted[c], <<c, sends[c]>>)
  /\ \A c, d \in Clients : c # d => Apart(backend, sub[c], sub[d])
  /\ TablesOK(backend, tables, wanted)
  /\ \A j \in tables.jobs : IdOK(j.id, sub, sends)
  /\ \A a \in answers : a.status = "accepted" => AnswerOK(backend, tables, a)

\* What the parametrised forms stand for.
LEMMA KeysAre ==
  /\ \A s : SourceKey(s) = AnchorOf(backend, s)
  /\ \A t, row : KeyOf(t, row) = UniqueOf(backend, t, row)
  /\ \A c \in Clients : JobKey(c) = KeyFor(wanted[c], sub[c].source)
  /\ \A c \in Clients, t \in Tables : Visible(c, t) = Seen(tables, sub[c], t)
BY DEF SourceKey, AnchorOf, KeyOf, UniqueOf, JobKey, KeyFor, Visible, Seen

\* A session that has written nothing, table by table.
LEMMA NoWritesIs ==
  /\ \A t \in Tables : NoWrites[t] = {}
  /\ NoWrites = [t \in Tables |-> NoWrites[t]]
  /\ NoWrites.sources = {} /\ NoWrites.jobs = {} /\ NoWrites.scales = {}
  /\ NoWrites.tasks = {}
BY DEF NoWrites, Tables

\* A request that is not under way.
LEMMA UnsentIs ==
  ASSUME NEW b, NEW T, NEW request, NEW id
  PROVE  /\ Unsent.pc = "idle" /\ Unsent.own = NoWrites /\ Shape(Unsent)
         /\ FlightOK(b, T, Unsent, request, id)
         /\ \A v : Apart(b, Unsent, v) /\ Apart(b, v, Unsent)
<1>1. Unsent.pc = "idle" /\ Unsent.own = NoWrites
      /\ DOMAIN Unsent = {"pc", "own", "source", "job"}
  BY DEF Unsent
<1>2. Shape(Unsent)
  BY <1>1, NoWritesIs DEF Shape
<1>3. FlightOK(b, T, Unsent, request, id)
  BY <1>1, NoWritesIs DEF FlightOK, Untouched, Started, Found
<1>4. \A v : Apart(b, Unsent, v) /\ Apart(b, v, Unsent)
  BY <1>1, NoWritesIs DEF Apart, Tables, Keyed
<1> QED BY <1>1, <1>2, <1>3, <1>4

\* Committed rows alone are unique.
LEMMA UnsentUnique ==
  ASSUME NEW b, NEW T, NEW w, TablesOK(b, T, w)
  PROVE  SeesUnique(b, T, Unsent)
<1>1. \A t \in Keyed : Seen(T, Unsent, t) = T[t]
  BY UnsentIs, NoWritesIs DEF Seen, Keyed, Tables
<1> QED BY <1>1 DEF SeesUnique, TablesOK

\* What is left to show of a step of one request that commits nothing.
LEMMA SubLocal ==
  ASSUME SubInv, NEW c \in Clients, NEW v,
         sub' = [sub EXCEPT ![c] = v],
         UNCHANGED <<backend, wanted, tables>>,
         sends' \in [Clients -> Nat], sends'[c] >= sends[c],
         \A d \in Clients : d # c => sends'[d] = sends[d],
         Shape(v), SeesUnique(backend, tables, v),
         FlightOK(backend, tables, v, wanted[c], <<c, sends'[c]>>),
         \A d \in Clients : d # c =>
           Apart(backend, v, sub[d]) /\ Apart(backend, sub[d], v),
         v.pc # "idle" =>
           \/ sends'[c] > sends[c]
           \/ sends'[c] = sends[c] /\ sub[c].pc # "idle",
         \A a \in answers' : a \in answers \/ a.status # "accepted"
  PROVE  SubInv'
<1>1. /\ DOMAIN sub' = Clients /\ sub'[c] = v
      /\ \A d \in Clients : d # c => sub'[d] = sub[d]
  BY DEF SubInv
<1>2. \A d \in Clients :
        /\ Shape(sub'[d]) /\ SeesUnique(backend', tables', sub'[d])
        /\ FlightOK(backend', tables', sub'[d], wanted'[d], <<d, sends'[d]>>)
  BY <1>1 DEF SubInv
<1>3. \A d, e \in Clients : d # e => Apart(backend', sub'[d], sub'[e])
  BY <1>1 DEF SubInv
<1>4. ASSUME NEW j \in tables'.jobs PROVE IdOK(j.id, sub', sends')
  <2>1. IdOK(j.id, sub, sends)
    BY <1>4 DEF SubInv
  <2>2. CASE j.id[1] = c
    <3>1. j.id[2] \in Nat /\ sends[c] \in Nat /\ sends'[c] \in Nat /\ j.id[2] <= sends[c]
      BY <2>1, <2>2 DEF IdOK, SubInv
    <3>2. sub'[c].pc # "idle" => j.id[2] # sends'[c]
      BY <1>1, <2>1, <2>2, <3>1 DEF IdOK
    <3> QED BY <2>1, <2>2, <3>1, <3>2 DEF IdOK
  <2>3. CASE j.id[1] # c
    BY <1>1, <2>1, <2>3 DEF IdOK
  <2> QED BY <2>2, <2>3
<1>5. \A a \in answers' : a.status = "accepted" => AnswerOK(backend', tables', a)
  BY DEF SubInv
<1> QED BY <1>1, <1>2, <1>3, <1>4, <1>5 DEF SubInv

\* A request is refused: rollback.
LEMMA RefuseStep ==
  ASSUME SubInv, NEW c \in Clients, NEW status, Refuse(c, status), status # "accepted"
  PROVE  SubInv'
<1>1. /\ sub' = [sub EXCEPT ![c] = Unsent]
      /\ UNCHANGED <<backend, wanted, tables, sends>>
      /\ \A a \in answers' : a \in answers \/ a.status # "accepted"
  BY DEF Refuse, Told
<1>2. /\ sends \in [Clients -> Nat] /\ TablesOK(backend, tables, wanted)
      /\ sends[c] \in Nat
  BY DEF SubInv
<1>3. /\ SeesUnique(backend, tables, Unsent) /\ Shape(Unsent) /\ Unsent.pc = "idle"
      /\ FlightOK(backend, tables, Unsent, wanted[c], <<c, sends'[c]>>)
      /\ \A d : Apart(backend, Unsent, d) /\ Apart(backend, d, Unsent)
  BY <1>2, UnsentUnique, UnsentIs
<1>4. /\ sends' \in [Clients -> Nat] /\ sends'[c] >= sends[c]
      /\ \A d \in Clients : d # c => sends'[d] = sends[d]
  BY <1>1, <1>2
<1>5. UNCHANGED <<backend, wanted, tables>>
  BY <1>1
<1> QED BY <1>1, <1>3, <1>4, <1>5, SubLocal

\* A request goes on without writing.
LEMMA AdvanceStep ==
  ASSUME SubInv, NEW c \in Clients, NEW place, NEW change,
         Advance(c, place, change), sub[c].pc # "idle",
         Shape(change), change.own = sub[c].own,
         \A w : /\ Shape(w) /\ w.pc = place /\ w.own = sub[c].own
                /\ w.source = change.source /\ w.job = change.job
                => FlightOK(backend, tables, w, wanted[c], <<c, sends[c]>>)
  PROVE  SubInv'
<1> DEFINE w == [change EXCEPT !.pc = place]
<1>1. /\ sub' = [sub EXCEPT ![c] = w]
      /\ UNCHANGED <<backend, wanted, tables, sends, answers>>
  BY DEF Advance
<1>2. /\ Shape(w) /\ w.pc = place /\ w.own = sub[c].own
      /\ w.source = change.source /\ w.job = change.job
  BY DEF Shape
<1> HIDE DEF w
<1>3. SeesUnique(backend, tables, w)
  BY <1>2 DEF SubInv, SeesUnique, Seen
<1>4. \A d \in Clients : d # c => Apart(backend, w, sub[d]) /\ Apart(backend, sub[d], w)
  BY <1>2 DEF SubInv, Apart
<1>5. /\ sends' \in [Clients -> Nat] /\ sends'[c] >= sends[c] /\ sends'[c] = sends[c]
      /\ \A d \in Clients : d # c => sends'[d] = sends[d]
      /\ UNCHANGED <<backend, wanted, tables>> /\ answers' = answers
  BY <1>1 DEF SubInv
<1>6. FlightOK(backend, tables, w, wanted[c], <<c, sends'[c]>>)
  BY <1>2, <1>5
<1> QED BY <1>1, <1>2, <1>3, <1>4, <1>5, <1>6, SubLocal

\* An INSERT that is not blocked and meets no row of its unique value.
LEMMA InsertStep ==
  ASSUME SubInv, NEW c \in Clients, NEW t \in Tables, NEW R, NEW place, NEW change,
         Insert(c, t, R, place, change), sub[c].pc # "idle",
         Shape(change), change.own = sub[c].own,
         \A a, r \in R : UniqueOf(backend, t, a) = UniqueOf(backend, t, r) => a = r,
         ~Clash(c, t, R) =>
           \A w : /\ Shape(w) /\ w.pc = place
                  /\ w.source = change.source /\ w.job = change.job
                  /\ \A u \in Tables : w.own[u] = IF u = t THEN sub[c].own[u] \cup R
                                                           ELSE sub[c].own[u]
                  => FlightOK(backend, tables, w, wanted[c], <<c, sends[c]>>)
  PROVE  SubInv'
<1>1. CASE Clash(c, t, R)
  <2>1. Refuse(c, IntegrityStatus(t)) /\ IntegrityStatus(t) # "accepted"
    BY <1>1 DEF Insert, IntegrityStatus
  <2> QED BY <2>1, RefuseStep
<1>2. CASE ~Clash(c, t, R)
  <2> DEFINE w == [[change EXCEPT !.own[t] = @ \cup R] EXCEPT !.pc = place]
  <2>1. /\ sub' = [sub EXCEPT ![c] = w]
        /\ UNCHANGED <<backend, wanted, tables, sends, answers>>
    BY <1>2 DEF Insert, Advance
  <2>2. DOMAIN change = {"pc", "own", "source", "job"} /\ DOMAIN change.own = Tables
    BY DEF Shape
  <2>3. /\ DOMAIN w = {"pc", "own", "source", "job"} /\ w.pc = place
        /\ w.source = change.source /\ w.job = change.job
        /\ w.own = [change.own EXCEPT ![t] = @ \cup R]
    BY <2>2
  <2> HIDE DEF w
  <2>4. /\ w.own = [u \in Tables |-> w.own[u]]
        /\ \A u \in Tables : w.own[u] = IF u = t THEN sub[c].own[u] \cup R
                                                 ELSE sub[c].own[u]
    BY <2>2, <2>3
  <2>5. Shape(w)
    BY <2>3, <2>4 DEF Shape
  <2>6. FlightOK(backend, tables, w, wanted[c], <<c, sends[c]>>)
    BY <1>2, <2>3, <2>4, <2>5
  <2>7. \A r \in R, o \in Seen(tables, sub[c], t) :
          UniqueOf(backend, t, o) # UniqueOf(backend, t, r)
    BY <1>2, KeysAre DEF Clash
  <2>8. ASSUME NEW u \in Keyed, NEW a \in Seen(tables, w, u), NEW r \in Seen(tables, w, u),
               UniqueOf(backend, u, a) = UniqueOf(backend, u, r)
        PROVE  a = r
    <3>1. u \in Tables
      BY DEF Keyed, Tables
    <3>2. CASE u # t
      <4>1. a \in Seen(tables, sub[c], u) /\ r \in Seen(tables, sub[c], u)
        BY <2>4, <3>1, <3>2 DEF Seen
      <4> QED BY <2>8, <4>1 DEF SubInv, SeesUnique
    <3>3. CASE u = t
      <4>1. /\ a \in Seen(tables, sub[c], t) \/ a \in R
            /\ r \in Seen(tables, sub[c], t) \/ r \in R
        BY <2>4, <3>3 DEF Seen
      <4> QED BY <2>7, <2>8, <3>3, <4>1 DEF SubInv, SeesUnique
    <3> QED BY <3>2, <3>3
  <2>9. SeesUnique(backend, tables, w)
    BY <2>8 DEF SeesUnique
  <2>10. ASSUME NEW d \in Clients, d # c
         PROVE  Apart(backend, w, sub[d]) /\ Apart(backend, sub[d], w)
    <3>1. /\ backend = "sqlite" => sub[d].own = NoWrites
          /\ backend # "sqlite" => \A r \in R, o \in sub[d].own[t] :
               UniqueOf(backend, t, o) # UniqueOf(backend, t, r)
      BY <2>10, KeysAre DEF Insert, Blocked
    <3>2. Apart(backend, sub[c], sub[d]) /\ Apart(backend, sub[d], sub[c])
      BY <2>10 DEF SubInv
    <3>3. ASSUME NEW u \in Keyed, NEW a \in w.own[u], NEW r \in sub[d].own[u]
          PROVE  UniqueOf(backend, u, a) # UniqueOf(backend, u, r)
      <4>1. u \in Tables
        BY DEF Keyed, Tables
      <4>2. CASE backend = "sqlite"
        BY <3>1, <3>3, <4>1, <4>2, NoWritesIs
      <4>3. CASE backend # "sqlite" /\ u = t
        BY <2>4, <3>1, <3>2, <3>3, <4>1, <4>3 DEF Apart
      <4>4. CASE u # t
        BY <2>4, <3>2, <3>3, <4>1, <4>4 DEF Apart
      <4> QED BY <4>2, <4>3, <4>4
    <3> QED BY <3>1, <3>3 DEF Apart
  <2>11. /\ sends' \in [Clients -> Nat] /\ sends'[c] >= sends[c] /\ sends'[c] = sends[c]
         /\ \A d \in Clients : d # c => sends'[d] = sends[d]
         /\ UNCHANGED <<backend, wanted, tables>> /\ answers' = answers
    BY <2>1 DEF SubInv
  <2>12. FlightOK(backend, tables, w, wanted[c], <<c, sends'[c]>>)
    BY <2>6, <2>11
  <2> QED BY <2>1, <2>5, <2>9, <2>10, <2>11, <2>12, SubLocal
<1> QED BY <1>1, <1>2

\* The reads of a request, and its start.
LEMMA SubReads ==
  ASSUME SubInv, NEW c \in Clients,
         Send(c) \/ SelectSource(c) \/ FindJob(c) \/ SelectJob(c)
  PROVE  SubInv'
<1>1. /\ Shape(sub[c]) /\ sends \in [Clients -> Nat] /\ sends[c] \in Nat
      /\ FlightOK(backend, tables, sub[c], wanted[c], <<c, sends[c]>>)
  BY DEF SubInv
<1>2. CASE Send(c)
  <2>1. /\ sub[c].pc = "idle"
        /\ sends' = [sends EXCEPT ![c] = sends[c] + 1]
        /\ UNCHANGED <<backend, wanted, tables>>
    BY <1>2 DEF Send
  <2>2. /\ sends' \in [Clients -> Nat] /\ sends'[c] = sends[c] + 1
        /\ sends'[c] > sends[c] /\ sends'[c] >= sends[c]
        /\ \A d \in Clients : d # c => sends'[d] = sends[d]
    BY <1>1, <2>1
  <2>3. ASSUME NEW w, Shape(w), w.own = sub[c].own, w.pc \in {"idle", "source"},
               sub' = [sub EXCEPT ![c] = w],
               \A a \in answers' : a \in answers \/ a.status # "accepted"
        PROVE  SubInv'
    <3>1. SeesUnique(backend, tables, w)
      BY <2>3 DEF SubInv, SeesUnique, Seen
    <3>2. \A d \in Clients : d # c => Apart(backend, w, sub[d]) /\ Apart(backend, sub[d], w)
      BY <2>3 DEF SubInv, Apart
    <3>3. FlightOK(backend, tables, w, wanted[c], <<c, sends'[c]>>)
      BY <1>1, <2>1, <2>3, NoWritesIs DEF FlightOK, Untouched, Found, Started
    <3> QED BY <2>1, <2>2, <2>3, <3>1, <3>2, <3>3, SubLocal
  <2>4. CASE wanted[c].allowed
    <3> DEFINE w == [sub[c] EXCEPT !.pc = "source"]
    <3>1. sub' = [sub EXCEPT ![c] = w] /\ answers' = answers
      BY <1>2, <2>4 DEF Send
    <3>2. Shape(w) /\ w.own = sub[c].own /\ w.pc = "source"
      BY <1>1 DEF Shape
    <3> HIDE DEF w
    <3> QED BY <2>3, <3>1, <3>2
  <2>5. CASE ~wanted[c].allowed
    <3>1. sub' = sub /\ \A a \in answers' : a \in answers \/ a.status # "accepted"
      BY <1>2, <2>5 DEF Send, Told
    <3>2. \A d \in Clients :
            FlightOK(backend', tables', sub'[d], wanted'[d], <<d, sends'[d]>>)
      <4>1. FlightOK(backend, tables, sub[c], wanted[c], <<c, sends'[c]>>)
        BY <1>1, <2>1 DEF FlightOK, Found, Started
      <4> QED BY <2>1, <2>2, <3>1, <4>1 DEF SubInv
    <3>3. ASSUME NEW j \in tables'.jobs PROVE IdOK(j.id, sub', sends')
      <4>1. IdOK(j.id, sub, sends)
        BY <2>1, <3>3 DEF SubInv
      <4>2. CASE j.id[1] = c
        BY <1>1, <2>1, <2>2, <3>1, <4>1, <4>2 DEF IdOK
      <4>3. CASE j.id[1] # c
        BY <2>2, <3>1, <4>1, <4>3 DEF IdOK
      <4> QED BY <4>2, <4>3
    <3> QED BY <2>1, <2>2, <3>1, <3>2, <3>3 DEF SubInv
  <2> QED BY <2>4, <2>5
<1>3. CASE SelectSource(c)
  <2> DEFINE found == {s \in Visible(c, "sources") : SourceKey(s) = SourceKey(wanted[c])}
  <2>1. sub[c].pc = "source" /\ sub[c].own = NoWrites /\ Untouched(sub[c])
    BY <1>1, <1>3 DEF SelectSource, FlightOK, Started
  <2>2. CASE Advance(c, "insert_source", sub[c])
    <3>1. ASSUME NEW w, w.pc = "insert_source", w.own = sub[c].own
          PROVE  FlightOK(backend, tables, w, wanted[c], <<c, sends[c]>>)
      BY <2>1, <3>1, NoWritesIs DEF FlightOK, Untouched, Found, Started
    <3> QED BY <1>1, <2>1, <2>2, <3>1, AdvanceStep
  <2>3. ASSUME NEW s \in found,
               IF s.uri # wanted[c].uri THEN Refuse(c, "idempotency_conflict")
               ELSE Advance(c, "find_job", [sub[c] EXCEPT !.source = s.id])
        PROVE  SubInv'
    <3>1. CASE s.uri # wanted[c].uri
      BY <2>3, <3>1, RefuseStep
    <3>2. CASE s.uri = wanted[c].uri
      <4> DEFINE v == [sub[c] EXCEPT !.source = s.id]
      <4>1. Advance(c, "find_job", v)
        BY <2>3, <3>2
      <4>2. Shape(v) /\ v.own = sub[c].own /\ v.source = s.id
        BY <1>1 DEF Shape
      <4>3. s \in Seen(tables, sub[c], "sources") /\ AnchorOf(backend, s) = AnchorOf(backend, wanted[c])
        BY <2>3, KeysAre DEF Tables
      <4>4. ASSUME NEW w, w.pc = "find_job", w.own = sub[c].own, w.source = s.id
            PROVE  FlightOK(backend, tables, w, wanted[c], <<c, sends[c]>>)
        <5>1. s \in Seen(tables, w, "sources")
          BY <4>3, <4>4 DEF Seen
        <5> QED BY <2>1, <4>3, <4>4, <5>1 DEF FlightOK, Untouched, Started
      <4> HIDE DEF v
      <4> QED BY <2>1, <4>1, <4>2, <4>4, AdvanceStep
    <3> QED BY <3>1, <3>2
  <2> QED BY <1>3, <2>2, <2>3 DEF SelectSource
<1>4. ASSUME sub[c].pc \in {"find_job", "select_job"}, NEW j \in JobsOfKey(c)
      PROVE  /\ Untouched(sub[c]) /\ j \in tables.jobs
             /\ j.key = KeyFor(wanted[c], sub[c].source)
             /\ \E s \in Seen(tables, sub[c], "sources") :
                  s.id = sub[c].source /\ AnchorOf(backend, s) = AnchorOf(backend, wanted[c])
  <2>1. /\ Untouched(sub[c])
        /\ \E s \in Seen(tables, sub[c], "sources") :
             s.id = sub[c].source /\ AnchorOf(backend, s) = AnchorOf(backend, wanted[c])
    BY <1>1, <1>4 DEF FlightOK, Found, Started
  <2>2. j \in Seen(tables, sub[c], "jobs") /\ j.key = KeyFor(wanted[c], sub[c].source)
    BY <1>4, KeysAre DEF JobsOfKey, Tables
  <2> QED BY <2>1, <2>2 DEF Seen, Untouched
<1>5. ASSUME sub[c].pc \in {"find_job", "select_job"}, NEW j \in JobsOfKey(c),
             NEW place \in {"commit", "insert_scales"},
             Advance(c, place, [sub[c] EXCEPT !.job = j.id])
      PROVE  SubInv'
  <2> DEFINE v == [sub[c] EXCEPT !.job = j.id]
  <2>1. Shape(v) /\ v.own = sub[c].own /\ v.source = sub[c].source /\ v.job = j.id
    BY <1>1 DEF Shape
  <2>2. ASSUME NEW w, w.pc = place, w.own = sub[c].own, w.source = sub[c].source,
               w.job = j.id
        PROVE  FlightOK(backend, tables, w, wanted[c], <<c, sends[c]>>)
    <3>1. Reuses(tables, w)
      BY <1>4, <1>5, <2>2 DEF Reuses, Untouched
    <3>2. \E s \in Seen(tables, w, "sources") :
            s.id = w.source /\ AnchorOf(backend, s) = AnchorOf(backend, wanted[c])
      BY <1>4, <1>5, <2>2 DEF Seen
    <3>3. j \in Seen(tables, w, "jobs") /\ j.id = w.job /\ j.key = KeyFor(wanted[c], w.source)
      BY <1>4, <1>5, <2>2 DEF Seen
    <3> QED BY <1>5, <2>2, <3>1, <3>2, <3>3 DEF FlightOK, Started
  <2> HIDE DEF v
  <2> QED BY <1>5, <2>1, <2>2, AdvanceStep DEF v
<1>6. ASSUME NEW place \in {"select_job", "insert_job"}, Advance(c, place, sub[c]),
             sub[c].pc \in {"find_job", "select_job"}
      PROVE  SubInv'
  <2>1. ASSUME NEW w, w.pc = place, w.own = sub[c].own, w.source = sub[c].source
        PROVE  FlightOK(backend, tables, w, wanted[c], <<c, sends[c]>>)
    <3>1. /\ Untouched(w)
          /\ \E s \in Seen(tables, w, "sources") :
               s.id = w.source /\ AnchorOf(backend, s) = AnchorOf(backend, wanted[c])
      BY <1>1, <1>6, <2>1 DEF FlightOK, Found, Started, Untouched, Seen
    <3> QED BY <1>6, <2>1, <3>1 DEF FlightOK, Started
  <2> QED BY <1>1, <1>6, <2>1, AdvanceStep
<1>7. CASE FindJob(c)
  BY <1>5, <1>6, <1>7 DEF FindJob
<1>8. CASE SelectJob(c)
  BY <1>5, <1>6, <1>8, RefuseStep DEF SelectJob
<1> QED BY <1>2, <1>3, <1>7, <1>8

\* The two INSERTs that make the source and the job.
LEMMA SubInsertsFirst ==
  ASSUME SubInv, NEW c \in Clients, InsertSource(c) \/ InsertJob(c)
  PROVE  SubInv'
<1>1. /\ Shape(sub[c]) /\ NewId(c) = <<c, sends[c]>>
      /\ FlightOK(backend, tables, sub[c], wanted[c], <<c, sends[c]>>)
  BY DEF SubInv, NewId
<1>2. CASE InsertSource(c)
  <2> DEFINE v == [sub[c] EXCEPT !.source = NewId(c)]
             R == {SourceRow(c)}
  <2>1. sub[c].pc = "insert_source" /\ Insert(c, "sources", R, "find_job", v)
    BY <1>2 DEF InsertSource
  <2>2. Shape(v) /\ v.own = sub[c].own /\ v.source = NewId(c)
    BY <1>1 DEF Shape
  <2>3. Untouched(sub[c])
    BY <1>1, <2>1 DEF FlightOK, Started
  <2>4. /\ SourceRow(c).id = NewId(c)
        /\ AnchorOf(backend, SourceRow(c)) = AnchorOf(backend, wanted[c])
    BY DEF SourceRow, AnchorOf
  <2>5. ASSUME NEW w, w.pc = "find_job", w.source = v.source,
               \A u \in Tables : w.own[u] = IF u = "sources" THEN sub[c].own[u] \cup R
                                                            ELSE sub[c].own[u]
        PROVE  FlightOK(backend, tables, w, wanted[c], <<c, sends[c]>>)
    <3>1. Untouched(w)
      BY <2>3, <2>5 DEF Untouched, Tables
    <3>2. SourceRow(c) \in Seen(tables, w, "sources")
      BY <2>5 DEF Seen, Tables
    <3> QED BY <2>2, <2>4, <2>5, <3>1, <3>2 DEF FlightOK, Started
  <2>6. \A a, r \in R : a = r
    OBVIOUS
  <2>7. "sources" \in Tables /\ sub[c].pc # "idle"
    BY <2>1 DEF Tables
  <2> HIDE DEF v, R
  <2> QED BY <2>1, <2>2, <2>5, <2>6, <2>7, InsertStep
<1>3. CASE InsertJob(c)
  <2> DEFINE v == [sub[c] EXCEPT !.job = NewId(c)]
             R == {JobRow(c)}
  <2>1. sub[c].pc = "insert_job" /\ Insert(c, "jobs", R, "insert_scales", v)
    BY <1>3 DEF InsertJob
  <2>2. Shape(v) /\ v.own = sub[c].own /\ v.source = sub[c].source /\ v.job = NewId(c)
    BY <1>1 DEF Shape
  <2>3. /\ Untouched(sub[c])
        /\ \E s \in Seen(tables, sub[c], "sources") :
             s.id = sub[c].source /\ AnchorOf(backend, s) = AnchorOf(backend, wanted[c])
    BY <1>1, <2>1 DEF FlightOK, Started, Found
  <2>4. JobRow(c) = [id |-> <<c, sends[c]>>, video |-> sub[c].source,
                     key |-> KeyFor(wanted[c], sub[c].source)]
    BY <1>1, KeysAre DEF JobRow
  <2>5. ASSUME NEW w, w.pc = "insert_scales", w.source = v.source, w.job = v.job,
               \A u \in Tables : w.own[u] = IF u = "jobs" THEN sub[c].own[u] \cup R
                                                          ELSE sub[c].own[u]
        PROVE  FlightOK(backend, tables, w, wanted[c], <<c, sends[c]>>)
    <3>1. w.own.jobs = R /\ w.own.scales = {} /\ w.own.tasks = {}
      BY <2>3, <2>5 DEF Untouched, Tables
    <3>2. Made(w, wanted[c], <<c, sends[c]>>)
      BY <1>1, <2>2, <2>4, <2>5, <3>1 DEF Made
    <3>3. \E s \in Seen(tables, w, "sources") :
            s.id = w.source /\ AnchorOf(backend, s) = AnchorOf(backend, wanted[c])
      BY <2>2, <2>3, <2>5 DEF Seen, Tables
    <3>4. /\ JobRow(c) \in Seen(tables, w, "jobs") /\ JobRow(c).id = w.job
          /\ JobRow(c).key = KeyFor(wanted[c], w.source)
      BY <1>1, <2>2, <2>4, <2>5, <3>1 DEF Seen
    <3> QED BY <2>5, <3>1, <3>2, <3>3, <3>4 DEF FlightOK, Started
  <2>6. \A a, r \in R : a = r
    OBVIOUS
  <2>7. "jobs" \in Tables /\ sub[c].pc # "idle"
    BY <2>1 DEF Tables
  <2> HIDE DEF v, R
  <2> QED BY <2>1, <2>2, <2>5, <2>6, <2>7, InsertStep
<1> QED BY <1>2, <1>3

\* A job that was taken over has its default_segment scale, which is refused.
LEMMA TakenOverClashes ==
  ASSUME SubInv, NEW c \in Clients, Reuses(tables, sub[c])
  PROVE  Clash(c, "scales", {ScaleRow(c, s) : s \in ScalesOf(wanted[c])})
<1>1. PICK j \in tables.jobs : j.id = sub[c].job
  BY DEF Reuses
<1>2. {s.scale : s \in {r \in tables.scales : r.job = j.id}} = ScalesOf(wanted[j.id[1]])
  BY DEF SubInv, TablesOK, Complete
<1>3. "default_segment" \in {s.scale : s \in {r \in tables.scales : r.job = j.id}}
  BY <1>2 DEF ScalesOf
<1>4. PICK r \in tables.scales : r.job = j.id /\ r.scale = "default_segment"
  BY <1>3
<1>5. /\ ScaleRow(c, "default_segment") \in {ScaleRow(c, s) : s \in ScalesOf(wanted[c])}
      /\ KeyOf("scales", r) = KeyOf("scales", ScaleRow(c, "default_segment"))
  BY <1>1, <1>4 DEF ScalesOf, KeyOf, ScaleRow
<1>6. r \in Visible(c, "scales")
  BY <1>4 DEF Visible
<1> QED BY <1>5, <1>6 DEF Clash

\* The INSERTs of the scale tasks and of the queue task.
LEMMA SubInsertsLast ==
  ASSUME SubInv, NEW c \in Clients, InsertScales(c) \/ EnqueueAnalysis(c)
  PROVE  SubInv'
<1> DEFINE id == <<c, sends[c]>>
<1>1. Shape(sub[c]) /\ NewId(c) = id /\ FlightOK(backend, tables, sub[c], wanted[c], id)
  BY DEF SubInv, NewId
<1>2. sub[c].pc \in {"insert_scales", "enqueue"} =>
        /\ \E s \in Seen(tables, sub[c], "sources") :
             s.id = sub[c].source /\ AnchorOf(backend, s) = AnchorOf(backend, wanted[c])
        /\ \E j \in Seen(tables, sub[c], "jobs") :
             j.id = sub[c].job /\ j.key = KeyFor(wanted[c], sub[c].source)
  BY <1>1 DEF FlightOK, Found, Started
<1>3. CASE InsertScales(c)
  <2> DEFINE R == {ScaleRow(c, s) : s \in ScalesOf(wanted[c])}
  <2>1. sub[c].pc = "insert_scales" /\ Insert(c, "scales", R, "enqueue", sub[c])
    BY <1>3 DEF InsertScales
  <2>2. ASSUME ~Clash(c, "scales", R),
               NEW w, w.pc = "enqueue", w.source = sub[c].source, w.job = sub[c].job,
               \A u \in Tables : w.own[u] = IF u = "scales" THEN sub[c].own[u] \cup R
                                                            ELSE sub[c].own[u]
        PROVE  FlightOK(backend, tables, w, wanted[c], id)
    <3>1. /\ Made(sub[c], wanted[c], id)
          /\ sub[c].own.scales = {} /\ sub[c].own.tasks = {}
      BY <1>1, <2>1, <2>2, TakenOverClashes DEF FlightOK
    <3>2. w.own.jobs = sub[c].own.jobs /\ w.own.scales = R /\ w.own.tasks = {}
      BY <2>2, <3>1 DEF Tables
    <3>3. R = {[job |-> id, scale |-> s] : s \in ScalesOf(wanted[c])}
      BY <3>1 DEF Made, ScaleRow
    <3>4. Made(w, wanted[c], id) /\ Scaled(w, wanted[c], id)
      BY <2>2, <3>1, <3>2, <3>3 DEF Made, Scaled
    <3>5. /\ \E s \in Seen(tables, w, "sources") :
               s.id = w.source /\ AnchorOf(backend, s) = AnchorOf(backend, wanted[c])
          /\ \E j \in Seen(tables, w, "jobs") :
               j.id = w.job /\ j.key = KeyFor(wanted[c], w.source)
      BY <1>2, <2>1, <2>2 DEF Seen, Tables
    <3> QED BY <2>2, <3>2, <3>4, <3>5 DEF FlightOK, Started
  <2>3. \A a, r \in R : UniqueOf(backend, "scales", a) = UniqueOf(backend, "scales", r) => a = r
    BY DEF UniqueOf, ScaleRow
  <2>4. "scales" \in Tables /\ sub[c].pc # "idle"
    BY <2>1 DEF Tables
  <2> HIDE DEF R
  <2> QED BY <1>1, <2>1, <2>2, <2>3, <2>4, InsertStep
<1>4. CASE EnqueueAnalysis(c)
  <2> DEFINE R == {TaskRow(c)}
  <2>1. sub[c].pc = "enqueue" /\ Insert(c, "tasks", R, "commit", sub[c])
    BY <1>4 DEF EnqueueAnalysis
  <2>2. ASSUME NEW w, w.pc = "commit", w.source = sub[c].source, w.job = sub[c].job,
               \A u \in Tables : w.own[u] = IF u = "tasks" THEN sub[c].own[u] \cup R
                                                           ELSE sub[c].own[u]
        PROVE  FlightOK(backend, tables, w, wanted[c], id)
    <3>1. /\ Made(sub[c], wanted[c], id) /\ Scaled(sub[c], wanted[c], id)
          /\ sub[c].own.tasks = {}
      BY <1>1, <2>1 DEF FlightOK
    <3>2. /\ w.own.jobs = sub[c].own.jobs /\ w.own.scales = sub[c].own.scales
          /\ w.own.tasks = R
      BY <2>2, <3>1 DEF Tables
    <3>3. R = {[job |-> id, video |-> sub[c].source, by |-> id]}
      BY <1>1, <3>1 DEF Made, TaskRow
    <3>4. Made(w, wanted[c], id) /\ Scaled(w, wanted[c], id) /\ Queued(w, id)
      BY <2>2, <3>1, <3>2, <3>3 DEF Made, Scaled, Queued
    <3>5. /\ \E s \in Seen(tables, w, "sources") :
               s.id = w.source /\ AnchorOf(backend, s) = AnchorOf(backend, wanted[c])
          /\ \E j \in Seen(tables, w, "jobs") :
               j.id = w.job /\ j.key = KeyFor(wanted[c], w.source)
      BY <1>2, <2>1, <2>2 DEF Seen, Tables
    <3> QED BY <2>2, <3>4, <3>5 DEF FlightOK, Started
  <2>3. \A a, r \in R : a = r
    OBVIOUS
  <2>4. "tasks" \in Tables /\ sub[c].pc # "idle"
    BY <2>1 DEF Tables
  <2> HIDE DEF R
  <2> QED BY <1>1, <2>1, <2>2, <2>3, <2>4, InsertStep
<1> QED BY <1>3, <1>4

\* What a commit leaves in the tables: the jobs there were stay complete, and
\* the one it adds, if it adds one, is complete.
LEMMA CommitTables ==
  ASSUME SubInv, NEW c \in Clients, sub[c].pc = "commit",
         NEW T, T = [t \in Tables |-> Seen(tables, sub[c], t)]
  PROVE  TablesOK(backend, T, wanted)
<1> DEFINE id == <<c, sends[c]>>
           v == sub[c]
<1>1. /\ T = [t \in Tables |-> T[t]]
      /\ \A t \in Tables : T[t] = tables[t] \cup v.own[t]
  BY DEF Seen
<1>2. /\ T.jobs = tables.jobs \cup v.own.jobs
      /\ T.scales = tables.scales \cup v.own.scales
      /\ T.tasks = tables.tasks \cup v.own.tasks
  BY <1>1 DEF Tables
<1>3. \A t \in Keyed : \A a, r \in T[t] : UniqueOf(backend, t, a) = UniqueOf(backend, t, r) => a = r
  <2>1. \A t \in Keyed : t \in Tables /\ T[t] = Seen(tables, v, t)
    BY DEF Keyed, Tables
  <2>2. SeesUnique(backend, tables, v)
    BY DEF SubInv
  <2> QED BY <2>1, <2>2 DEF SeesUnique
<1>4. /\ TablesOK(backend, tables, wanted)
      /\ \A j \in tables.jobs : j.id # id
  BY DEF SubInv, IdOK
<1>5. \/ Untouched(v)
      \/ Made(v, wanted[c], id) /\ Scaled(v, wanted[c], id) /\ Queued(v, id)
  BY DEF SubInv, FlightOK, Reuses
<1>6. CASE Untouched(v)
  <2>1. T.jobs = tables.jobs /\ T.scales = tables.scales /\ T.tasks = tables.tasks
    BY <1>2, <1>6 DEF Untouched
  <2>2. ASSUME NEW j \in T.jobs PROVE Complete(j, T, wanted)
    <3>1. Complete(j, tables, wanted)
      BY <1>4, <2>1 DEF TablesOK
    <3>2. /\ {r \in T.tasks : r.job = j.id} = {r \in tables.tasks : r.job = j.id}
          /\ {r \in T.scales : r.job = j.id} = {r \in tables.scales : r.job = j.id}
      BY <2>1
    <3> QED BY <2>1, <3>1, <3>2 DEF Complete
  <2>3. /\ \A s \in T.scales : \E j \in T.jobs : j.id = s.job
        /\ \A q \in T.tasks : \E j \in T.jobs : j.id = q.job
    BY <1>4, <2>1 DEF TablesOK
  <2> QED BY <1>1, <1>3, <2>2, <2>3 DEF TablesOK
<1>7. CASE Made(v, wanted[c], id) /\ Scaled(v, wanted[c], id) /\ Queued(v, id)
  <2> DEFINE new == [id |-> id, video |-> v.source, key |-> KeyFor(wanted[c], v.source)]
             tsk == [job |-> id, video |-> v.source, by |-> id]
  <2>1. /\ T.jobs = tables.jobs \cup {new}
        /\ T.scales = tables.scales \cup {[job |-> id, scale |-> s] : s \in ScalesOf(wanted[c])}
        /\ T.tasks = tables.tasks \cup {tsk}
    BY <1>2, <1>7 DEF Made, Scaled, Queued
  <2>2. /\ new.id = id /\ new.video = v.source /\ tsk.job = id /\ tsk.video = v.source
        /\ id[1] = c
    OBVIOUS
  <2>3. /\ \A s \in tables.scales : s.job # id
        /\ \A q \in tables.tasks : q.job # id
    BY <1>4 DEF TablesOK
  <2> HIDE DEF new, tsk, id
  <2>4. ASSUME NEW j \in tables.jobs PROVE Complete(j, T, wanted)
    <3>1. Complete(j, tables, wanted) /\ j.id # id
      BY <1>4 DEF TablesOK
    <3>2. {r \in T.tasks : r.job = j.id} = {r \in tables.tasks : r.job = j.id}
      BY <2>1, <2>2, <3>1
    <3>3. {r \in T.scales : r.job = j.id} = {r \in tables.scales : r.job = j.id}
      BY <2>1, <3>1
    <3> QED BY <2>1, <3>1, <3>2, <3>3 DEF Complete
  <2>5. Complete(new, T, wanted)
    <3>1. tsk \in T.tasks /\ {r \in T.tasks : r.job = new.id} = {tsk}
      BY <2>1, <2>2, <2>3
    <3>2. {r \in T.scales : r.job = new.id}
            = {[job |-> id, scale |-> s] : s \in ScalesOf(wanted[c])}
      BY <2>1, <2>2, <2>3
    <3>3. {s.scale : s \in {r \in T.scales : r.job = new.id}} = ScalesOf(wanted[c])
      <4>1. ASSUME NEW x \in ScalesOf(wanted[c])
            PROVE  \E s \in {r \in T.scales : r.job = new.id} : s.scale = x
        <5>1. [job |-> id, scale |-> x] \in {r \in T.scales : r.job = new.id}
          BY <3>2
        <5>2. [job |-> id, scale |-> x].scale = x
          OBVIOUS
        <5> QED BY <5>1, <5>2
      <4>2. \A s \in {r \in T.scales : r.job = new.id} : s.scale \in ScalesOf(wanted[c])
        BY <3>2
      <4> QED BY <4>1, <4>2
    <3> QED BY <2>2, <3>1, <3>3 DEF Complete
  <2>6. \A j \in T.jobs : Complete(j, T, wanted)
    BY <2>1, <2>4, <2>5
  <2>7. \A s \in T.scales : \E j \in T.jobs : j.id = s.job
    <3> SUFFICES ASSUME NEW s \in T.scales PROVE \E j \in T.jobs : j.id = s.job
      OBVIOUS
    <3>1. s \in tables.scales \/ s.job = id
      BY <2>1
    <3> QED BY <1>4, <2>1, <2>2, <3>1 DEF TablesOK
  <2>8. \A q \in T.tasks : \E j \in T.jobs : j.id = q.job
    BY <1>4, <2>1, <2>2 DEF TablesOK
  <2> QED BY <1>1, <1>3, <2>6, <2>7, <2>8 DEF TablesOK
<1> QED BY <1>5, <1>6, <1>7

\* session_scope commits.
LEMMA CommitStep ==
  ASSUME SubInv, NEW c \in Clients, CommitSubmission(c)
  PROVE  SubInv'
<1> DEFINE v == sub[c]
           id == <<c, sends[c]>>
<1>1. /\ v.pc = "commit" /\ sub' = [sub EXCEPT ![c] = Unsent]
      /\ answers' = answers \cup {Told(c, "accepted", v.source, v.job)}
      /\ UNCHANGED <<backend, wanted, sends>>
  BY DEF CommitSubmission
<1>2. tables' = [t \in Tables |-> Seen(tables, v, t)]
  <2>1. DOMAIN tables = Tables
    BY DEF SubInv, TablesOK
  <2> QED BY <2>1 DEF CommitSubmission, Seen
<1>3. /\ \A t \in Tables : tables'[t] = tables[t] \cup v.own[t]
      /\ tables'.sources = Seen(tables, v, "sources")
      /\ tables'.jobs = Seen(tables, v, "jobs")
      /\ tables.sources \subseteq tables'.sources /\ tables.jobs \subseteq tables'.jobs
  BY <1>2 DEF Seen, Tables
<1>4. /\ DOMAIN sub' = Clients /\ sub'[c] = Unsent
      /\ \A d \in Clients : d # c => sub'[d] = sub[d]
  BY <1>1 DEF SubInv
<1>5. TablesOK(backend, tables', wanted)
  BY <1>1, <1>2, CommitTables
<1>6. ASSUME NEW d \in Clients, d # c
      PROVE  /\ Shape(sub[d]) /\ SeesUnique(backend, tables', sub[d])
             /\ FlightOK(backend, tables', sub[d], wanted[d], <<d, sends[d]>>)
  <2>1. /\ Shape(sub[d]) /\ SeesUnique(backend, tables, sub[d])
        /\ SeesUnique(backend, tables, v)
        /\ FlightOK(backend, tables, sub[d], wanted[d], <<d, sends[d]>>)
        /\ Apart(backend, v, sub[d])
    BY <1>6 DEF SubInv
  <2>2. ASSUME NEW t \in Keyed, NEW a \in Seen(tables', sub[d], t),
               NEW r \in Seen(tables', sub[d], t), UniqueOf(backend, t, a) = UniqueOf(backend, t, r)
        PROVE  a = r
    <3>1. Seen(tables', sub[d], t) = Seen(tables, v, t) \cup sub[d].own[t]
      BY <1>3 DEF Seen, Keyed, Tables
    <3>2. CASE a \in Seen(tables, v, t) /\ r \in Seen(tables, v, t)
      BY <2>1, <2>2, <3>2 DEF SeesUnique
    <3>3. CASE a \in Seen(tables, sub[d], t) /\ r \in Seen(tables, sub[d], t)
      BY <2>1, <2>2, <3>3 DEF SeesUnique
    <3>4. CASE a \in v.own[t] /\ r \in sub[d].own[t]
      BY <2>1, <2>2, <3>4 DEF Apart
    <3>5. CASE r \in v.own[t] /\ a \in sub[d].own[t]
      BY <2>1, <2>2, <3>5 DEF Apart
    <3> QED BY <3>1, <3>2, <3>3, <3>4, <3>5 DEF Seen
  <2>3. SeesUnique(backend, tables', sub[d])
    BY <2>2 DEF SeesUnique
  <2>4. /\ Seen(tables, sub[d], "sources") \subseteq Seen(tables', sub[d], "sources")
        /\ Seen(tables, sub[d], "jobs") \subseteq Seen(tables', sub[d], "jobs")
        /\ Reuses(tables, sub[d]) => Reuses(tables', sub[d])
    BY <1>3 DEF Seen, Reuses
  <2>5. FlightOK(backend, tables', sub[d], wanted[d], <<d, sends[d]>>)
    BY <2>1, <2>4 DEF FlightOK
  <2> QED BY <2>1, <2>3, <2>5
<1>7. /\ Shape(Unsent) /\ SeesUnique(backend, tables', Unsent) /\ Unsent.pc = "idle"
      /\ FlightOK(backend, tables', Unsent, wanted[c], id)
      /\ \A w : Apart(backend, Unsent, w) /\ Apart(backend, w, Unsent)
  BY <1>5, UnsentIs, UnsentUnique
<1>8. \A d \in Clients :
        /\ Shape(sub'[d]) /\ SeesUnique(backend', tables', sub'[d])
        /\ FlightOK(backend', tables', sub'[d], wanted'[d], <<d, sends'[d]>>)
  BY <1>1, <1>4, <1>6, <1>7
<1>9. \A d, e \in Clients : d # e => Apart(backend', sub'[d], sub'[e])
  BY <1>1, <1>4, <1>7 DEF SubInv
<1>10. ASSUME NEW j \in tables'.jobs PROVE IdOK(j.id, sub', sends')
  <2>1. j \in tables.jobs \/ j.id = id
    <3>1. FlightOK(backend, tables, v, wanted[c], id)
      BY DEF SubInv
    <3>2. v.own.jobs = {} \/ \A r \in v.own.jobs : r.id = id
      BY <1>1, <3>1 DEF FlightOK, Reuses, Untouched, Made
    <3> QED BY <1>3, <3>2 DEF Seen
  <2>2. CASE j \in tables.jobs
    <3>1. IdOK(j.id, sub, sends)
      BY <2>2 DEF SubInv
    <3>2. CASE j.id[1] = c
      BY <1>1, <1>4, <1>7, <3>1, <3>2 DEF IdOK
    <3>3. CASE j.id[1] # c
      BY <1>1, <1>4, <3>1, <3>3 DEF IdOK
    <3> QED BY <3>2, <3>3
  <2>3. CASE j.id = id
    <3>1. sends[c] \in Nat
      BY DEF SubInv
    <3> QED BY <1>1, <1>4, <1>7, <2>3, <3>1 DEF IdOK
  <2> QED BY <2>1, <2>2, <2>3
<1>11. ASSUME NEW a \in answers', a.status = "accepted"
       PROVE  AnswerOK(backend', tables', a)
  <2>1. CASE a \in answers
    BY <1>1, <1>3, <1>11, <2>1 DEF SubInv, AnswerOK
  <2>2. CASE a = Told(c, "accepted", v.source, v.job)
    <3>1. a.request = wanted[c] /\ a.video = v.source /\ a.job = v.job
      BY <2>2 DEF Told
    <3>2. FlightOK(backend, tables, v, wanted[c], id)
      BY DEF SubInv
    <3>3. /\ \E s \in Seen(tables, v, "sources") :
               s.id = v.source /\ AnchorOf(backend, s) = AnchorOf(backend, wanted[c])
          /\ \E j \in Seen(tables, v, "jobs") :
               j.id = v.job /\ j.key = KeyFor(wanted[c], v.source)
      BY <1>1, <3>2 DEF FlightOK, Found, Started
    <3> QED BY <1>1, <1>3, <3>1, <3>3 DEF AnswerOK
  <2> QED BY <1>1, <2>1, <2>2
<1> QED BY <1>1, <1>4, <1>5, <1>8, <1>9, <1>10, <1>11 DEF SubInv

\* Every step keeps the invariant.
LEMMA SubStep ==
  ASSUME SubInv, [SubNext]_subVars
  PROVE  SubInv'
<1>1. CASE UNCHANGED subVars
  BY <1>1 DEF subVars, SubInv
<1>2. ASSUME NEW c \in Clients, AbortSubmission(c) PROVE SubInv'
  BY <1>2, RefuseStep DEF AbortSubmission
<1> QED BY <1>1, <1>2, SubReads, SubInsertsFirst, SubInsertsLast, CommitStep DEF SubNext

\* Submitting is idempotent and a submitted job complete, for any clients and
\* requests, any number of retries, and on either database.
THEOREM IdempotentSubmission == SubSpec => []SubmissionIsIdempotent
<1>1. SubInit => SubInv
  <2> SUFFICES ASSUME SubInit PROVE SubInv
    OBVIOUS
  <2>1. /\ tables = NoWrites /\ sub = [c \in Clients |-> Unsent]
        /\ sends = [c \in Clients |-> 0] /\ answers = {}
    BY DEF SubInit
  <2>2. tables = [t \in Tables |-> tables[t]] /\ \A t \in Tables : tables[t] = {}
    BY <2>1, NoWritesIs
  <2>3. TablesOK(backend, tables, wanted)
    BY <2>1, <2>2, NoWritesIs DEF TablesOK, Keyed, Tables
  <2>4. /\ Shape(Unsent) /\ SeesUnique(backend, tables, Unsent)
        /\ \A c \in Clients : FlightOK(backend, tables, Unsent, wanted[c], <<c, sends[c]>>)
        /\ \A w : Apart(backend, Unsent, w)
    BY <2>3, UnsentIs, UnsentUnique
  <2> QED BY <2>1, <2>3, <2>4, NoWritesIs DEF SubInv
<1>2. SubInv /\ [SubNext]_subVars => SubInv'
  BY SubStep
<1>3. SubInv => SubmissionIsIdempotent
  <2> SUFFICES ASSUME SubInv PROVE SubmissionIsIdempotent
    OBVIOUS
  <2>1. TablesOK(backend, tables, wanted)
    BY DEF SubInv
  <2>2. \A t \in Keyed : \A a, b \in tables[t] : KeyOf(t, a) = KeyOf(t, b) => a = b
    BY <2>1, KeysAre DEF TablesOK
  <2>3. ASSUME NEW a \in answers, a.status = "accepted" PROVE \E j \in tables.jobs : j.id = a.job
    BY <2>3 DEF SubInv, AnswerOK
  <2>4. ASSUME NEW a \in answers, a.status = "accepted", NEW b \in answers,
               b.status = "accepted", b.request = a.request
        PROVE  b.job = a.job
    <3>1. PICK s \in tables.sources, j \in tables.jobs :
            /\ s.id = a.video /\ AnchorOf(backend, s) = AnchorOf(backend, a.request)
            /\ j.id = a.job /\ j.key = KeyFor(a.request, a.video)
      BY <2>4 DEF SubInv, AnswerOK
    <3>2. PICK q \in tables.sources, k \in tables.jobs :
            /\ q.id = b.video /\ AnchorOf(backend, q) = AnchorOf(backend, b.request)
            /\ k.id = b.job /\ k.key = KeyFor(b.request, b.video)
      BY <2>4 DEF SubInv, AnswerOK
    <3>3. s = q
      <4>1. UniqueOf(backend, "sources", s) = UniqueOf(backend, "sources", q)
        BY <2>4, <3>1, <3>2 DEF UniqueOf
      <4> QED BY <2>1, <4>1 DEF TablesOK, Keyed
    <3>4. j = k
      <4>1. UniqueOf(backend, "jobs", j) = UniqueOf(backend, "jobs", k)
        BY <2>4, <3>1, <3>2, <3>3 DEF UniqueOf
      <4> QED BY <2>1, <4>1 DEF TablesOK, Keyed
    <3> QED BY <3>1, <3>2, <3>4
  <2>5. ASSUME NEW j \in tables.jobs
        PROVE  /\ \E q \in tables.tasks :
                    q.video = j.video /\ {r \in tables.tasks : r.job = j.id} = {q}
               /\ {s.scale : s \in {r \in tables.scales : r.job = j.id}}
                    = ScalesOf(wanted[j.id[1]])
    BY <2>1 DEF TablesOK, Complete
  <2> QED BY <2>2, <2>3, <2>4, <2>5 DEF SubmissionIsIdempotent, Keyed
<1> QED BY <1>1, <1>2, <1>3, PTL DEF SubSpec

-----------------------------------------------------------------------------
(* Frame files. *)

FramePlaces ==
  {"cold", "idle", "import", "boot", "decode", "write", "fallback", "ffmpeg", "clip",
   "gate", "vlm", "release", "done"}
RunFields == {"pc", "via", "kept", "todo", "media", "wrote", "tries", "end"}

\* A file of the unit's own, by its path.
OwnPath(u, p) == p.key = u /\ p.dir \in {"stem", "root"}

\* What a unit's media refer to: files it wrote, placeholders, or the video.
MediaOK(v, u) ==
  /\ v.media \in Seq(ToSet(v.media))
  /\ \A p \in v.wrote : OwnPath(u, p)
  /\ \A i \in DOMAIN v.media : v.media[i] = Source \/ OwnPath(u, v.media[i])
  /\ v.pc \in {"cold", "idle", "import", "boot", "decode", "clip"} => v.wrote = {}
  /\ v.pc \notin {"write", "ffmpeg", "gate", "vlm", "release", "done"} =>
       v.media = <<>>
  /\ v.pc \in {"write", "ffmpeg"} \/ (v.pc \in {"gate", "vlm"} /\ v.wrote # {}) =>
       \A i \in DOMAIN v.media : v.media[i] \in v.wrote
  /\ v.pc = "gate" => v.media # <<>>

\* How a run ends is known only at its end.
EndOK(v) ==
  /\ v.pc \notin {"release", "done"} => v.end = "none"
  /\ v.pc = "release" => v.end \in {"succeeded", "suppressed"}

\* The run has cleaned up.
CleanedUp(v) ==
  /\ v.pc = "done" /\ setting.cleanup /\ ~setting.debug
  /\ \/ v.end = "succeeded"
     \/ v.end = "suppressed" /\ setting.scale = "default_segment"

FilesInv ==
  /\ DOMAIN run = Units
  /\ \A u \in Units : /\ DOMAIN run[u] = RunFields /\ run[u].pc \in FramePlaces
                      /\ MediaOK(run[u], u) /\ EndOK(run[u])
  /\ \A p \in DOMAIN files :
       \/ p = Source /\ files[p] = "source"
       \/ files[p] \in Units /\ p \in run[files[p]].wrote
  /\ \A u \in Units :
       /\ run[u].pc # "done" => run[u].wrote \subseteq DOMAIN files
       /\ CleanedUp(run[u]) =>
            \A i \in DOMAIN run[u].media :
              run[u].media[i] \in run[u].wrote => run[u].media[i] \notin DOMAIN files

ImportInv ==
  /\ setting \in Cases
  /\ Imports =>
       /\ cv2 # "boot"
       /\ \A u \in Units :
            run[u].pc \notin {"import", "boot"} /\ run[u].end # "import_race"
       /\ setting.decode = "opencv" /\ (\E u \in Units : run[u].pc # "cold") => cv2 = "ready"

LogsInv ==
  /\ gateLogs \in Seq(ToSet(gateLogs))
  /\ OutageIsRecorded

FrameInv == FilesInv /\ ImportInv /\ LogsInv

\* A sequence is one of its own elements.
LEMMA SeqOfItsOwn ==
  ASSUME NEW S, NEW s \in Seq(S)
  PROVE  s \in Seq(ToSet(s))
<1>1. Len(s) \in Nat /\ s = [i \in 1..Len(s) |-> s[i]] /\ DOMAIN s = 1..Len(s)
  OBVIOUS
<1>2. \A i \in 1..Len(s) : s[i] \in ToSet(s)
  BY <1>1 DEF ToSet
<1>3. [i \in 1..Len(s) |-> s[i]] \in Seq(ToSet(s))
  BY <1>1, <1>2
<1> QED BY <1>1, <1>3

\* A step of one unit that writes no file and does not end in a cleanup.
LEMMA UnitMoves ==
  ASSUME FilesInv, NEW u \in Units, UNCHANGED <<setting, files>>,
         DOMAIN run' = Units, \A v \in Units : v # u => run'[v] = run[v],
         DOMAIN run'[u] = RunFields, run'[u].pc \in FramePlaces,
         MediaOK(run'[u], u), EndOK(run'[u]),
         run'[u].wrote = run[u].wrote, run[u].pc # "done",
         run'[u].pc = "done" => ~CleanedUp(run[u])'
  PROVE  FilesInv'
<1>1. ASSUME NEW v \in Units
      PROVE  /\ DOMAIN run'[v] = RunFields /\ run'[v].pc \in FramePlaces
             /\ MediaOK(run'[v], v) /\ EndOK(run'[v])
  BY DEF FilesInv
<1>2. ASSUME NEW p \in DOMAIN files
      PROVE  \/ p = Source /\ files[p] = "source"
             \/ files[p] \in Units /\ p \in run'[files[p]].wrote
  BY DEF FilesInv
<1>3. ASSUME NEW v \in Units
      PROVE  /\ run'[v].pc # "done" => run'[v].wrote \subseteq DOMAIN files
             /\ CleanedUp(run[v])' =>
                  \A i \in DOMAIN run'[v].media :
                    run'[v].media[i] \in run'[v].wrote => run'[v].media[i] \notin DOMAIN files
  <2>1. CASE v = u
    BY <2>1 DEF FilesInv, CleanedUp
  <2>2. CASE v # u
    <3>1. CleanedUp(run[v])' <=> CleanedUp(run[v])
      BY <2>2 DEF CleanedUp
    <3> QED BY <2>2, <3>1 DEF FilesInv
  <2> QED BY <2>1, <2>2
<1> QED BY <1>1, <1>2, <1>3 DEF FilesInv, RunFields, FramePlaces, CleanedUp, MediaOK, EndOK,
           OwnPath, Source

\* A step of one unit that writes a file of its own.
LEMMA UnitWrites ==
  ASSUME FilesInv, NEW u \in Units, NEW path, OwnPath(u, path), Write(path, u),
         setting' = setting,
         DOMAIN run' = Units, \A v \in Units : v # u => run'[v] = run[v],
         DOMAIN run'[u] = RunFields, run'[u].pc \in FramePlaces \ {"done"},
         MediaOK(run'[u], u), EndOK(run'[u]),
         run'[u].wrote = run[u].wrote \cup {path}, run[u].pc # "done"
  PROVE  FilesInv'
<1>0. /\ DOMAIN files' = DOMAIN files \cup {path} /\ files'[path] = u
      /\ \A p \in DOMAIN files : p # path => files'[p] = files[p]
      /\ path # Source /\ path.key = u
  BY DEF Write, OwnPath, Source
<1>1. ASSUME NEW v \in Units
      PROVE  /\ DOMAIN run'[v] = RunFields /\ run'[v].pc \in FramePlaces
             /\ MediaOK(run'[v], v) /\ EndOK(run'[v])
  BY DEF FilesInv
<1>2. ASSUME NEW p \in DOMAIN files'
      PROVE  \/ p = Source /\ files'[p] = "source"
             \/ files'[p] \in Units /\ p \in run'[files'[p]].wrote
  BY <1>0 DEF FilesInv
<1>3. ASSUME NEW v \in Units
      PROVE  /\ run'[v].pc # "done" => run'[v].wrote \subseteq DOMAIN files'
             /\ CleanedUp(run[v])' =>
                  \A i \in DOMAIN run'[v].media :
                    run'[v].media[i] \in run'[v].wrote => run'[v].media[i] \notin DOMAIN files'
  <2>1. CASE v = u
    BY <1>0, <2>1 DEF FilesInv, CleanedUp
  <2>2. CASE v # u
    <3>1. CleanedUp(run[v])' <=> CleanedUp(run[v])
      BY <2>2 DEF CleanedUp
    <3>2. \A p \in run[v].wrote : p # path
      BY <1>0, <2>2 DEF FilesInv, MediaOK, OwnPath
    <3> QED BY <1>0, <2>2, <3>1, <3>2 DEF FilesInv
  <2> QED BY <2>1, <2>2
<1> QED BY <1>1, <1>2, <1>3 DEF FilesInv, RunFields, FramePlaces, CleanedUp, MediaOK, EndOK,
           OwnPath, Source

\* cleanup_selected_frames removes files of the unit's own, or the video.
LEMMA ReleaseStep ==
  ASSUME FilesInv, NEW u \in Units, Release(u)
  PROVE  FilesInv'
<1>0. /\ DOMAIN run' = Units /\ \A v \in Units : v # u => run'[v] = run[v]
      /\ DOMAIN run'[u] = RunFields /\ run'[u].pc = "done" /\ run[u].pc = "release"
      /\ run'[u].wrote = run[u].wrote /\ run'[u].media = run[u].media
      /\ run'[u].end = run[u].end /\ setting' = setting
  BY DEF FilesInv, Release, At, RunFields
<1>1. /\ DOMAIN files' \subseteq DOMAIN files
      /\ \A p \in DOMAIN files' : files'[p] = files[p]
      /\ \A p \in DOMAIN files \ DOMAIN files' : p \in ToSet(run[u].media)
      /\ setting.cleanup /\ ~setting.debug =>
           \A i \in DOMAIN run[u].media : run[u].media[i] \notin DOMAIN files'
  BY DEF Release, ToSet
<1>2. ASSUME NEW v \in Units
      PROVE  /\ DOMAIN run'[v] = RunFields /\ run'[v].pc \in FramePlaces
             /\ MediaOK(run'[v], v) /\ EndOK(run'[v])
  BY <1>0 DEF FilesInv, MediaOK, EndOK, FramePlaces
<1>3. ASSUME NEW p \in DOMAIN files'
      PROVE  \/ p = Source /\ files'[p] = "source"
             \/ files'[p] \in Units /\ p \in run'[files'[p]].wrote
  BY <1>0, <1>1 DEF FilesInv
<1>4. ASSUME NEW v \in Units
      PROVE  /\ run'[v].pc # "done" => run'[v].wrote \subseteq DOMAIN files'
             /\ CleanedUp(run[v])' =>
                  \A i \in DOMAIN run'[v].media :
                    run'[v].media[i] \in run'[v].wrote => run'[v].media[i] \notin DOMAIN files'
  <2>1. CASE v = u
    BY <1>0, <1>1, <2>1 DEF CleanedUp
  <2>2. CASE v # u
    <3>1. CleanedUp(run[v])' <=> CleanedUp(run[v])
      BY <1>0, <2>2 DEF CleanedUp
    <3>2. \A p \in run[v].wrote : p \notin ToSet(run[u].media)
      <4> SUFFICES ASSUME NEW p \in run[v].wrote, NEW i \in DOMAIN run[u].media
                   PROVE  p # run[u].media[i]
        BY DEF ToSet
      <4>1. OwnPath(v, p) /\ (run[u].media[i] = Source \/ OwnPath(u, run[u].media[i]))
        BY DEF FilesInv, MediaOK
      <4> QED BY <2>2, <4>1 DEF OwnPath, Source
    <3> QED BY <1>0, <1>1, <2>2, <3>1, <3>2 DEF FilesInv
  <2> QED BY <2>1, <2>2
<1> QED BY <1>0, <1>2, <1>3, <1>4 DEF FilesInv, RunFields, FramePlaces, CleanedUp, MediaOK,
           EndOK, OwnPath, Source

\* The steps before extraction and the failures: media stay empty, or the run ends.
LEMMA EarlySteps ==
  ASSUME FilesInv, NEW u \in Units,
         \/ ImportBegins(u) \/ ImportEnds(u) \/ Decode(u) \/ OpenFails(u)
         \/ WriteFrameFails(u) \/ Fallback(u)
  PROVE  FilesInv'
<1>1. /\ DOMAIN run = Units /\ DOMAIN run[u] = RunFields /\ run[u].pc \in FramePlaces
      /\ MediaOK(run[u], u) /\ EndOK(run[u])
  BY DEF FilesInv
<1>2. /\ UNCHANGED <<setting, files>> /\ DOMAIN run' = Units
      /\ \A v \in Units : v # u => run'[v] = run[v]
      /\ DOMAIN run'[u] = RunFields /\ run'[u].wrote = run[u].wrote
      /\ run[u].pc \in {"import", "boot", "decode", "write", "fallback"}
      /\ run'[u].pc \in {"decode", "boot", "fallback", "done", "write", "ffmpeg"}
      /\ run'[u].media = run[u].media \/ run'[u].media = <<>>
      /\ run'[u].pc # "done" => run'[u].end = run[u].end
      /\ run'[u].pc = "done" => run'[u].end \in {"skipped", "frames_failed"}
      /\ run'[u].pc \in {"decode", "boot", "write"} => run[u].wrote = {}
      /\ run'[u].pc # "done" => run'[u].media = <<>>
  BY <1>1 DEF ImportBegins, ImportEnds, Decode, OpenFails, WriteFrameFails, Fallback,
     Leave, At, RunFields, MediaOK
<1>3. MediaOK(run'[u], u)
  <2>1. <<>> \in Seq(ToSet(<<>>)) /\ DOMAIN <<>> = {}
    BY DEF ToSet
  <2>2. run'[u].media \in Seq(ToSet(run'[u].media))
    BY <1>1, <1>2, <2>1 DEF MediaOK
  <2> QED BY <1>1, <1>2, <2>1, <2>2 DEF MediaOK
<1>4. EndOK(run'[u])
  BY <1>1, <1>2 DEF EndOK
<1>5. run'[u].pc = "done" => ~CleanedUp(run[u])'
  BY <1>2 DEF CleanedUp
<1> QED BY <1>2, <1>3, <1>4, <1>5, UnitMoves DEF FramePlaces

\* The next selected frame is written, by OpenCV or by ffmpeg.
LEMMA WriteSteps ==
  ASSUME FilesInv, NEW u \in Units, WriteFrame(u) \/ FfmpegFrame(u)
  PROVE  FilesInv'
<1>1. /\ DOMAIN run = Units /\ DOMAIN run[u] = RunFields /\ run[u].pc \in FramePlaces
      /\ MediaOK(run[u], u) /\ EndOK(run[u])
  BY DEF FilesInv
<1>2. CASE UNCHANGED files /\ FfmpegFrame(u) /\ Leave(u, "frames_failed")
  <2>1. /\ UNCHANGED <<setting, files>> /\ DOMAIN run' = Units
        /\ \A v \in Units : v # u => run'[v] = run[v]
        /\ DOMAIN run'[u] = RunFields /\ run'[u].wrote = run[u].wrote
        /\ run[u].pc = "ffmpeg" /\ run'[u].pc = "done" /\ run'[u].media = run[u].media
        /\ run'[u].end = "frames_failed"
    BY <1>1, <1>2 DEF FfmpegFrame, Leave, At, RunFields
  <2>2. MediaOK(run'[u], u) /\ EndOK(run'[u]) /\ ~CleanedUp(run[u])'
    BY <1>1, <2>1 DEF MediaOK, EndOK, CleanedUp
  <2> QED BY <2>1, <2>2, UnitMoves DEF FramePlaces
<1>3. ASSUME NEW path, OwnPath(u, path), Write(path, u), setting' = setting,
             run[u].pc \in {"write", "ffmpeg"},
             DOMAIN run' = Units, \A v \in Units : v # u => run'[v] = run[v],
             DOMAIN run'[u] = RunFields, run'[u].pc = run[u].pc,
             run'[u].wrote = run[u].wrote \cup {path}, run'[u].end = run[u].end,
             run'[u].media = Append(run[u].media, path)
      PROVE  FilesInv'
  <2> DEFINE old == run[u].media
             new == Append(old, path)
  <2>1. old \in Seq(ToSet(old)) /\ Len(old) \in Nat /\ DOMAIN old = 1..Len(old)
    BY <1>1 DEF MediaOK
  <2>2. old \in Seq(ToSet(old) \cup {path})
    BY <2>1
  <2>3. /\ new \in Seq(ToSet(old) \cup {path}) /\ DOMAIN new = 1..(Len(old) + 1)
        /\ \A i \in DOMAIN old : new[i] = old[i]
        /\ \A i \in DOMAIN new : i \in DOMAIN old \/ i = Len(old) + 1
        /\ new[Len(old) + 1] = path
    BY <2>1, <2>2
  <2>4. new \in Seq(ToSet(new))
    BY <2>3, SeqOfItsOwn
  <2>5. MediaOK(run'[u], u)
    BY <1>1, <1>3, <2>3, <2>4 DEF MediaOK
  <2>6. EndOK(run'[u])
    BY <1>1, <1>3 DEF EndOK
  <2> QED BY <1>3, <2>5, <2>6, UnitWrites DEF FramePlaces
<1>4. CASE WriteFrame(u)
  <2> DEFINE path == SegmentPath(u, Head(run[u].todo).at)
  <2>1. OwnPath(u, path)
    BY DEF OwnPath, SegmentPath
  <2>2. /\ Write(path, u) /\ setting' = setting /\ run[u].pc = "write"
        /\ DOMAIN run' = Units /\ \A v \in Units : v # u => run'[v] = run[v]
        /\ DOMAIN run'[u] = RunFields /\ run'[u].pc = run[u].pc
        /\ run'[u].wrote = run[u].wrote \cup {path} /\ run'[u].end = run[u].end
        /\ run'[u].media = Append(run[u].media, path)
    BY <1>1, <1>4 DEF WriteFrame, At, RunFields
  <2> QED BY <1>3, <2>1, <2>2
<1>5. CASE FfmpegFrame(u) /\ ~(UNCHANGED files /\ Leave(u, "frames_failed"))
  <2> DEFINE path == SubdirPath(u, Len(run[u].media) + 1)
  <2>1. OwnPath(u, path)
    BY DEF OwnPath, SubdirPath
  <2>2. /\ Write(path, u) /\ setting' = setting /\ run[u].pc = "ffmpeg"
        /\ DOMAIN run' = Units /\ \A v \in Units : v # u => run'[v] = run[v]
        /\ DOMAIN run'[u] = RunFields /\ run'[u].pc = run[u].pc
        /\ run'[u].wrote = run[u].wrote \cup {path} /\ run'[u].end = run[u].end
        /\ run'[u].media = Append(run[u].media, path)
    BY <1>1, <1>5 DEF FfmpegFrame, At, RunFields
  <2> QED BY <1>3, <2>1, <2>2
<1> QED BY <1>2, <1>4, <1>5

\* select_frames_for_unit begins, for every adapter.
LEMMA BeginStep ==
  ASSUME FilesInv, NEW u \in Units, Begin(u)
  PROVE  FilesInv'
<1>1. /\ DOMAIN run = Units /\ DOMAIN run[u] = RunFields /\ run[u].pc = "idle"
      /\ MediaOK(run[u], u) /\ EndOK(run[u])
  BY DEF FilesInv, Begin, At
<1>0. FrameCount \in Int /\ Start \in Int /\ End \in Int
  BY FrameAssumption
<1> DEFINE placeholders == [i \in 1..FrameCount |-> SubdirPath(u, i)]
<1>2. /\ UNCHANGED <<setting, files>> /\ DOMAIN run' = Units
      /\ \A v \in Units : v # u => run'[v] = run[v]
      /\ DOMAIN run'[u] = RunFields /\ run'[u].wrote = run[u].wrote
      /\ \/ /\ run'[u].pc = "done" /\ run'[u].end \in {"skipped", "import_race"}
            /\ run'[u].media = run[u].media
         \/ /\ run'[u].pc \in {"decode", "fallback", "import", "ffmpeg", "clip"}
            /\ run'[u].end = run[u].end /\ run'[u].media = run[u].media
         \/ /\ run'[u].pc = "gate" /\ run'[u].end = run[u].end
            /\ FrameCount > 0 /\ run'[u].media = placeholders
  <2>1. UNCHANGED <<setting, files>>
    BY DEF Begin
  <2>2. CASE Leave(u, "skipped") \/ Leave(u, "import_race")
    BY <1>1, <2>1, <2>2 DEF Leave, RunFields
  <2>3. CASE \E to \in {"decode", "fallback", "import", "ffmpeg", "clip"} :
               run' = [run EXCEPT ![u].pc = to]
    BY <1>1, <2>1, <2>3 DEF RunFields
  <2>4. CASE /\ FrameCount > 0
             /\ run' = [run EXCEPT ![u].pc = "gate", ![u].media = placeholders]
    <3> HIDE DEF placeholders
    <3> QED BY <1>1, <2>1, <2>4 DEF RunFields
  <2>5. CASE FrameCount <= 0 \/ End <= Start
    BY <2>2, <2>5 DEF Begin
  <2>6. CASE ~(FrameCount <= 0 \/ End <= Start)
    BY <1>0, <2>2, <2>3, <2>4, <2>6 DEF Begin
  <2> QED BY <2>5, <2>6
<1>3. ASSUME FrameCount > 0
      PROVE  /\ placeholders \in Seq(ToSet(placeholders)) /\ placeholders # <<>>
             /\ \A i \in DOMAIN placeholders : OwnPath(u, placeholders[i])
  <2>1. FrameCount \in Nat /\ DOMAIN placeholders = 1..FrameCount
    BY <1>3, FrameAssumption
  <2>2. \A i \in 1..FrameCount : placeholders[i] \in ToSet(placeholders)
    BY <2>1 DEF ToSet
  <2>3. placeholders \in Seq(ToSet(placeholders))
    BY <2>1, <2>2
  <2>4. placeholders # <<>>
    BY <1>3, <2>1
  <2>5. \A i \in 1..FrameCount : OwnPath(u, placeholders[i])
    BY DEF OwnPath, SubdirPath
  <2> QED BY <2>1, <2>3, <2>4, <2>5
<1>4. MediaOK(run'[u], u)
  <2>1. CASE run'[u].media = run[u].media /\ run'[u].pc # "gate"
    BY <1>1, <1>2, <2>1 DEF MediaOK
  <2>2. CASE FrameCount > 0 /\ run'[u].media = placeholders /\ run'[u].pc = "gate"
    <3>1. run[u].wrote = {}
      BY <1>1 DEF MediaOK
    <3> HIDE DEF placeholders
    <3> QED BY <1>2, <1>3, <2>2, <3>1 DEF MediaOK
  <2> QED BY <1>2, <2>1, <2>2
<1>5. EndOK(run'[u]) /\ (run'[u].pc = "done" => ~CleanedUp(run[u])')
  BY <1>1, <1>2 DEF EndOK, CleanedUp
<1> QED BY <1>1, <1>2, <1>4, <1>5, UnitMoves DEF FramePlaces

\* The whole clip is passed on, or a copy of it without the audio track.
LEMMA PassClipStep ==
  ASSUME FilesInv, NEW u \in Units, PassClip(u)
  PROVE  FilesInv'
<1>1. /\ DOMAIN run = Units /\ DOMAIN run[u] = RunFields /\ run[u].pc = "clip"
      /\ MediaOK(run[u], u) /\ EndOK(run[u]) /\ run[u].wrote = {} /\ run[u].media = <<>>
  BY DEF FilesInv, PassClip, At, MediaOK
<1>2. \A p : <<p>> \in Seq(ToSet(<<p>>)) /\ DOMAIN <<p>> = 1..1 /\ <<p>>[1] = p
             /\ <<p>> # <<>>
  BY DEF ToSet
<1>3. CASE files' = files
  <2>1. /\ setting' = setting /\ DOMAIN run' = Units
        /\ \A v \in Units : v # u => run'[v] = run[v]
        /\ DOMAIN run'[u] = RunFields
    BY <1>1, <1>3 DEF PassClip, Leave, At, RunFields
  <2>2. CASE run' = [run EXCEPT ![u].pc = "gate", ![u].media = <<Source>>]
    <3>1. /\ run'[u].pc = "gate" /\ run'[u].media = <<Source>> /\ run'[u].end = run[u].end
          /\ run'[u].wrote = {}
      BY <1>1, <2>2 DEF RunFields
    <3>2. MediaOK(run'[u], u) /\ EndOK(run'[u])
      BY <1>1, <1>2, <3>1 DEF MediaOK, EndOK
    <3> QED BY <1>1, <1>3, <2>1, <3>1, <3>2, UnitMoves DEF FramePlaces
  <2>3. CASE Leave(u, "frames_failed")
    <3>1. /\ run'[u].pc = "done" /\ run'[u].media = run[u].media
          /\ run'[u].end = "frames_failed" /\ run'[u].wrote = {}
      BY <1>1, <2>3 DEF RunFields, Leave
    <3>2. MediaOK(run'[u], u) /\ EndOK(run'[u]) /\ ~CleanedUp(run[u])'
      BY <1>1, <3>1 DEF MediaOK, EndOK, CleanedUp
    <3> QED BY <1>1, <1>3, <2>1, <3>1, <3>2, UnitMoves DEF FramePlaces
  <2>4. CASE /\ Write(SubdirPath(u, 0), u)
             /\ run' = [run EXCEPT ![u].pc = "gate", ![u].wrote = {SubdirPath(u, 0)},
                          ![u].media = <<SubdirPath(u, 0)>>]
    <3>1. /\ run'[u].pc = "gate" /\ run'[u].media = <<SubdirPath(u, 0)>>
          /\ run'[u].end = run[u].end /\ run'[u].wrote = {SubdirPath(u, 0)}
      BY <1>1, <2>4 DEF RunFields
    <3>2. OwnPath(u, SubdirPath(u, 0))
      BY DEF OwnPath, SubdirPath
    <3>3. MediaOK(run'[u], u) /\ EndOK(run'[u])
      BY <1>1, <1>2, <3>1, <3>2 DEF MediaOK, EndOK
    <3> QED BY <1>1, <2>1, <2>4, <3>1, <3>2, <3>3, UnitWrites DEF FramePlaces
  <2> QED BY <2>2, <2>3, <2>4 DEF PassClip
<1>4. CASE files' # files
  <2>1. /\ Write(SubdirPath(u, 0), u)
        /\ run' = [run EXCEPT ![u].pc = "gate", ![u].wrote = {SubdirPath(u, 0)},
                     ![u].media = <<SubdirPath(u, 0)>>]
        /\ setting' = setting
    BY <1>4 DEF PassClip
  <2>2. /\ run'[u].pc = "gate" /\ run'[u].media = <<SubdirPath(u, 0)>>
        /\ run'[u].end = run[u].end /\ run'[u].wrote = {SubdirPath(u, 0)}
        /\ DOMAIN run' = Units /\ \A v \in Units : v # u => run'[v] = run[v]
        /\ DOMAIN run'[u] = RunFields
    BY <1>1, <2>1 DEF RunFields
  <2>3. OwnPath(u, SubdirPath(u, 0))
    BY DEF OwnPath, SubdirPath
  <2>4. MediaOK(run'[u], u) /\ EndOK(run'[u])
    BY <1>1, <1>2, <2>2, <2>3 DEF MediaOK, EndOK
  <2> QED BY <1>1, <2>1, <2>2, <2>3, <2>4, UnitWrites DEF FramePlaces
<1> QED BY <1>3, <1>4

\* The steps of the readers, and the end of the extraction.
LEMMA LateSteps ==
  ASSUME FilesInv, NEW u \in Units,
         Extracted(u) \/ NoGate(u) \/ Gate(u) \/ GateRetries(u) \/ Analyze(u)
  PROVE  FilesInv'
<1>1. /\ DOMAIN run = Units /\ DOMAIN run[u] = RunFields /\ run[u].pc \in FramePlaces
      /\ MediaOK(run[u], u) /\ EndOK(run[u])
  BY DEF FilesInv
<1>2. ASSUME UNCHANGED <<setting, files>>,
             DOMAIN run' = Units, \A v \in Units : v # u => run'[v] = run[v],
             DOMAIN run'[u] = RunFields,
             run'[u].wrote = run[u].wrote, run'[u].media = run[u].media,
             \/ /\ run[u].pc \in {"write", "ffmpeg"} /\ run'[u].end = run[u].end
                /\ \/ run'[u].pc = "done"
                   \/ run'[u].pc = "gate" /\ run[u].media # <<>>
             \/ /\ run[u].pc = "gate" /\ run'[u].pc \in {"gate", "vlm"}
                /\ run'[u].end = "none"
             \/ /\ run[u].pc \in {"gate", "vlm"} /\ run'[u].pc = "release"
                /\ run'[u].end \in {"succeeded", "suppressed"}
             \/ /\ run[u].pc \in {"gate", "vlm"} /\ run'[u].pc = "done"
                /\ \/ run'[u].end \in {"gate_failed", "vlm_failed"}
                   \/ run'[u].end = "suppressed" /\ setting.scale # "default_segment"
      PROVE  FilesInv'
  <2>1. MediaOK(run'[u], u)
    BY <1>1, <1>2 DEF MediaOK
  <2>2. EndOK(run'[u])
    BY <1>1, <1>2 DEF EndOK
  <2>3. run'[u].pc = "done" => ~CleanedUp(run[u])'
    BY <1>1, <1>2 DEF CleanedUp, EndOK
  <2> QED BY <1>2, <2>1, <2>2, <2>3, UnitMoves DEF FramePlaces
<1>3. CASE Extracted(u)
  BY <1>1, <1>2, <1>3 DEF Extracted, At, RunFields
<1>4. CASE NoGate(u)
  BY <1>1, <1>2, <1>4 DEF NoGate, At, RunFields, EndOK
<1>5. CASE Gate(u)
  <2>1. PICK verdict :
          run' = [run EXCEPT ![u].pc =
                       IF verdict # "suppress_vlm" THEN "vlm"
                       ELSE IF setting.scale = "default_segment" THEN "release"
                       ELSE "done",
                     ![u].end = IF verdict = "suppress_vlm" THEN "suppressed"
                                ELSE "none"]
    BY <1>5 DEF Gate
  <2>2. UNCHANGED <<setting, files>> /\ run[u].pc = "gate"
    BY <1>5 DEF Gate, At
  <2>3. CASE verdict # "suppress_vlm"
    <3>1. run' = [run EXCEPT ![u].pc = "vlm", ![u].end = "none"]
      BY <2>1, <2>3
    <3> QED BY <1>1, <1>2, <2>2, <3>1 DEF RunFields
  <2>4. CASE verdict = "suppress_vlm" /\ setting.scale = "default_segment"
    BY <1>1, <1>2, <2>1, <2>2, <2>4 DEF RunFields
  <2>5. CASE verdict = "suppress_vlm" /\ setting.scale # "default_segment"
    BY <1>1, <1>2, <2>1, <2>2, <2>5 DEF RunFields
  <2> QED BY <2>3, <2>4, <2>5
<1>6. CASE GateRetries(u)
  BY <1>1, <1>2, <1>6 DEF GateRetries, Leave, At, RunFields, EndOK
<1>7. CASE Analyze(u)
  BY <1>1, <1>2, <1>7 DEF Analyze, Leave, At, RunFields
<1> QED BY <1>3, <1>4, <1>5, <1>6, <1>7

\* Initially, and after the warm-up, no unit has done anything.
LEMMA FreshFiles ==
  ASSUME NEW pc \in {"cold", "idle", "done"}
  PROVE  LET fresh == [Cold EXCEPT !.pc = pc]
         IN /\ DOMAIN fresh = RunFields /\ fresh.pc = pc /\ fresh.end = "none"
            /\ fresh.wrote = {} /\ fresh.media = <<>>
            /\ \A u : MediaOK(fresh, u)
            /\ EndOK(fresh)
<1> DEFINE fresh == [Cold EXCEPT !.pc = pc]
<1>1. /\ DOMAIN fresh = RunFields /\ fresh.pc = pc /\ fresh.end = "none"
      /\ fresh.wrote = {} /\ fresh.media = <<>>
  BY DEF Cold, RunFields
<1>2. <<>> \in Seq(ToSet(<<>>)) /\ DOMAIN <<>> = {}
  BY DEF ToSet
<1> HIDE DEF fresh
<1>3. \A u : MediaOK(fresh, u)
  BY <1>1, <1>2 DEF MediaOK
<1>4. EndOK(fresh)
  BY <1>1 DEF EndOK
<1> QED BY <1>1, <1>3, <1>4 DEF fresh

\* A node starts with the video and no working file (WorkerRuntime).
LEMMA FilesStart == FrameInit => FilesInv
<1> SUFFICES ASSUME FrameInit PROVE FilesInv
  OBVIOUS
<1>1. Cold = [Cold EXCEPT !.pc = "cold"]
  BY DEF Cold
<1>2. /\ DOMAIN run = Units
      /\ \A u \in Units : run[u] = Cold
      /\ DOMAIN files = {Source} /\ files[Source] = "source"
  BY DEF FrameInit
<1>3. /\ DOMAIN Cold = RunFields /\ Cold.pc = "cold" /\ Cold.wrote = {}
      /\ (\A u : MediaOK(Cold, u)) /\ EndOK(Cold)
  BY <1>1, FreshFiles
<1> QED BY <1>2, <1>3 DEF FilesInv, FramePlaces, CleanedUp

\* _warmup_decode_backend touches no file.
LEMMA WarmupStep ==
  ASSUME FilesInv, Warmup
  PROVE  FilesInv'
<1>1. PICK pc \in {"idle", "done"} : run' = [u \in Units |-> [Cold EXCEPT !.pc = pc]]
  BY DEF Warmup
<1> DEFINE fresh == [Cold EXCEPT !.pc = pc]
<1>2. /\ DOMAIN fresh = RunFields /\ fresh.pc = pc /\ fresh.end = "none"
      /\ fresh.wrote = {} /\ fresh.media = <<>> /\ EndOK(fresh)
      /\ \A u : MediaOK(fresh, u)
  BY <1>1, FreshFiles
<1>3. DOMAIN run' = Units /\ \A u \in Units : run'[u] = fresh
  BY <1>1
<1> HIDE DEF fresh
<1>4. UNCHANGED <<setting, files>> /\ \A u \in Units : run[u].wrote = {}
  BY DEF Warmup, FilesInv, MediaOK, At
<1>5. \A u \in Units : ~CleanedUp(run[u])'
  BY <1>2, <1>3 DEF CleanedUp
<1>6. \A p \in DOMAIN files' : p = Source /\ files'[p] = "source"
  BY <1>4 DEF FilesInv
<1> QED BY <1>2, <1>3, <1>4, <1>5, <1>6 DEF FilesInv, FramePlaces

\* Every step keeps the frame files in order.
LEMMA FilesStep == FilesInv /\ [FrameNext]_frameVars => FilesInv'
<1> SUFFICES ASSUME FilesInv, [FrameNext]_frameVars PROVE FilesInv'
  OBVIOUS
<1>1. CASE UNCHANGED frameVars
  BY <1>1 DEF frameVars, FilesInv, MediaOK, EndOK, CleanedUp, OwnPath, FramePlaces, RunFields,
     Source
<1>2. CASE Warmup
  BY <1>2, WarmupStep
<1>3. ASSUME NEW u \in Units,
             \/ Begin(u) \/ ImportBegins(u) \/ ImportEnds(u)
             \/ Decode(u) \/ OpenFails(u) \/ WriteFrame(u) \/ WriteFrameFails(u)
             \/ Fallback(u) \/ FfmpegFrame(u) \/ PassClip(u) \/ Extracted(u)
             \/ NoGate(u) \/ Gate(u) \/ GateRetries(u) \/ Analyze(u) \/ Release(u)
      PROVE  FilesInv'
  BY <1>3, BeginStep, EarlySteps, WriteSteps, PassClipStep, LateSteps, ReleaseStep
<1> QED BY <1>1, <1>2, <1>3 DEF FrameNext

\* With a working OpenCV the import is over before the first unit runs.
LEMMA ImportStep ==
  FilesInv /\ ImportInv /\ [FrameNext]_frameVars => ImportInv'
<1> SUFFICES ASSUME FilesInv, ImportInv, [FrameNext]_frameVars PROVE ImportInv'
  OBVIOUS
<1>1. setting' = setting
  BY ZenonT(60) DEF FrameNext, frameVars, Warmup, Begin, ImportBegins, ImportEnds, Decode, OpenFails,
     WriteFrame, WriteFrameFails, Fallback, FfmpegFrame, PassClip, Extracted, NoGate, Gate,
     GateRetries, Analyze, Release
<1> SUFFICES ASSUME Imports
             PROVE  /\ cv2' # "boot"
                    /\ \A u \in Units : /\ run'[u].pc \notin {"import", "boot"}
                                        /\ run'[u].end # "import_race"
                    /\ setting.decode = "opencv" /\ (\E u \in Units : run'[u].pc # "cold")
                         => cv2' = "ready"
  BY <1>1 DEF ImportInv, Imports
<1>2. CASE UNCHANGED frameVars
  BY <1>2 DEF frameVars, ImportInv
<1>3. CASE Warmup
  <2>1. PICK pc \in {"idle", "done"} : run' = [u \in Units |-> [Cold EXCEPT !.pc = pc]]
    BY <1>3 DEF Warmup
  <2>2. \A u \in Units : run'[u].pc = pc /\ run'[u].end = "none"
    BY <2>1 DEF Cold
  <2>3. cv2' = IF setting.decode = "opencv" THEN "ready" ELSE cv2
    BY <1>3 DEF Warmup, Imports
  <2> QED BY <2>2, <2>3 DEF ImportInv
<1>4. ASSUME NEW u \in Units,
             DOMAIN run' = Units, \A v \in Units : v # u => run'[v] = run[v],
             run'[u].pc \notin {"import", "boot"}, run'[u].end # "import_race",
             run[u].pc # "cold", cv2' = cv2
      PROVE  /\ cv2' # "boot"
             /\ \A v \in Units : /\ run'[v].pc \notin {"import", "boot"}
                                 /\ run'[v].end # "import_race"
             /\ setting.decode = "opencv" /\ (\E v \in Units : run'[v].pc # "cold")
                  => cv2' = "ready"
  BY <1>4 DEF ImportInv
<1>5. ASSUME NEW u \in Units
      PROVE  /\ DOMAIN run = Units /\ DOMAIN run[u] = RunFields
             /\ run[u].pc \notin {"import", "boot"} /\ run[u].end # "import_race"
             /\ setting.decode = "opencv" /\ run[u].pc # "cold" => cv2 = "ready"
             /\ cv2 # "boot"
  BY DEF FilesInv, ImportInv
<1>6. ASSUME NEW u \in Units, Begin(u)
      PROVE  /\ DOMAIN run' = Units /\ \A v \in Units : v # u => run'[v] = run[v]
             /\ run'[u].pc \notin {"import", "boot"} /\ run'[u].end # "import_race"
             /\ run[u].pc # "cold" /\ cv2' = cv2
  <2>1. Backend = "opencv" => setting.decode = "opencv"
    BY FrameAssumption DEF Backend, BackendOf, ImportInv
  <2>2. run[u].pc = "idle" /\ cv2' = cv2 /\ (Backend = "opencv" => cv2 = "ready")
    BY <1>5, <1>6, <2>1 DEF Begin, At
  <2> QED BY <1>5, <1>6, <2>2 DEF Begin, Leave, RunFields
<1>7. ASSUME NEW u \in Units,
             \/ Decode(u) \/ OpenFails(u) \/ WriteFrame(u) \/ WriteFrameFails(u)
             \/ Fallback(u) \/ FfmpegFrame(u) \/ PassClip(u) \/ Extracted(u)
             \/ NoGate(u) \/ GateRetries(u) \/ Analyze(u) \/ Release(u)
      PROVE  /\ DOMAIN run' = Units /\ \A v \in Units : v # u => run'[v] = run[v]
             /\ run'[u].pc \notin {"import", "boot"} /\ run'[u].end # "import_race"
             /\ run[u].pc # "cold" /\ cv2' = cv2
  <2>1. CASE Decode(u) \/ OpenFails(u) \/ WriteFrameFails(u) \/ Fallback(u)
    BY <1>5, <2>1 DEF Decode, OpenFails, WriteFrameFails, Fallback, Leave, At, RunFields
  <2>2. CASE WriteFrame(u) \/ FfmpegFrame(u) \/ PassClip(u)
    BY <1>5, <2>2 DEF WriteFrame, FfmpegFrame, PassClip, Leave, At, RunFields
  <2>3. CASE Extracted(u) \/ NoGate(u) \/ Analyze(u) \/ Release(u)
    BY <1>5, <2>3 DEF Extracted, NoGate, Analyze, Release, Leave, At, RunFields
  <2>4. CASE GateRetries(u)
    BY <1>5, <2>4 DEF GateRetries, Leave, At, RunFields
  <2> QED BY <1>7, <2>1, <2>2, <2>3, <2>4
<1>8. ASSUME NEW u \in Units, Gate(u)
      PROVE  /\ DOMAIN run' = Units /\ \A v \in Units : v # u => run'[v] = run[v]
             /\ run'[u].pc \notin {"import", "boot"} /\ run'[u].end # "import_race"
             /\ run[u].pc # "cold" /\ cv2' = cv2
  <2>1. PICK verdict :
          run' = [run EXCEPT ![u].pc =
                       IF verdict # "suppress_vlm" THEN "vlm"
                       ELSE IF setting.scale = "default_segment" THEN "release"
                       ELSE "done",
                     ![u].end = IF verdict = "suppress_vlm" THEN "suppressed"
                                ELSE "none"]
    BY <1>8 DEF Gate
  <2>2. run[u].pc = "gate" /\ cv2' = cv2
    BY <1>8 DEF Gate, At
  <2>3. PICK pc \in {"vlm", "release", "done"}, end \in {"suppressed", "none"} :
          run' = [run EXCEPT ![u].pc = pc, ![u].end = end]
    <3>1. CASE verdict # "suppress_vlm"
      BY <2>1, <3>1
    <3>2. CASE verdict = "suppress_vlm" /\ setting.scale = "default_segment"
      BY <2>1, <3>2
    <3>3. CASE verdict = "suppress_vlm" /\ setting.scale # "default_segment"
      BY <2>1, <3>3
    <3> QED BY <3>1, <3>2, <3>3
  <2> QED BY <1>5, <2>2, <2>3 DEF RunFields
<1>9. ASSUME NEW u \in Units
      PROVE  ~ImportBegins(u) /\ ~ImportEnds(u)
  BY <1>5 DEF ImportBegins, ImportEnds, At
<1>10. CASE \E u \in Units : Begin(u)
  BY <1>4, <1>6, <1>10
<1>11. CASE \E u \in Units : Gate(u)
  BY <1>4, <1>8, <1>11
<1>12. CASE \E u \in Units :
               \/ Decode(u) \/ OpenFails(u) \/ WriteFrame(u) \/ WriteFrameFails(u)
               \/ Fallback(u) \/ FfmpegFrame(u) \/ PassClip(u) \/ Extracted(u)
               \/ NoGate(u) \/ GateRetries(u) \/ Analyze(u) \/ Release(u)
  BY <1>4, <1>7, <1>12
<1> QED BY <1>2, <1>3, <1>9, <1>10, <1>11, <1>12 DEF FrameNext

\* What the detector made of the images of one batch.
LEMMA SignalTells ==
  ASSUME NEW n \in Nat, n > 0, NEW reply,
         reply.images \in Seq(ToSet(reply.images)),
         reply.kind = "transport" \/ ShapeIsValid(n, reply)
  PROVE  Signal(Detect(n, reply)).status = "failed" <=>
           \/ reply.kind = "transport"
           \/ \E k \in DOMAIN reply.images : reply.images[k].failed
<1> DEFINE results == Detect(n, reply)
<1>1. Signal(results).status = "failed" <=>
        \E i \in DOMAIN results : results[i].status = "failed"
  BY DEF Signal
<1>2. CASE reply.kind = "transport"
  <2>1. DOMAIN results = 1..n /\ \A i \in 1..n : results[i].status = "failed"
    BY <1>2 DEF Detect, FailedBatch
  <2>2. 1 \in 1..n
    OBVIOUS
  <2> QED BY <1>1, <1>2, <2>1, <2>2
<1>3. CASE reply.kind # "transport"
  <2>1. Len(reply.images) = n /\ DOMAIN reply.images = 1..n
    BY <1>3 DEF ShapeIsValid
  <2>2. DOMAIN results = 1..n /\ \A i \in 1..n : results[i] = ImageResult(reply.images[i])
    BY <1>3 DEF Detect
  <2>3. \A i \in 1..n : results[i].status = "failed" <=> reply.images[i].failed
    BY <2>2 DEF ImageResult
  <2>4. (\E i \in DOMAIN results : results[i].status = "failed") <=>
          \E k \in DOMAIN reply.images : reply.images[k].failed
    <3> HIDE DEF results
    <3> QED BY <2>1, <2>2, <2>3, Zenon
  <2> QED BY <1>1, <1>3, <2>4
<1> QED BY <1>2, <1>3

\* The log of a gate grows by rows that tell an outage.
LEMMA LogGrows ==
  ASSUME LogsInv, NEW log, gateLogs' = Append(gateLogs, log),
         log.verdict # "none" =>
           (log.signal = "failed" <=>
              \/ log.reply.kind = "transport"
              \/ \E k \in DOMAIN log.reply.images : log.reply.images[k].failed)
  PROVE  LogsInv'
<1>1. gateLogs \in Seq(ToSet(gateLogs) \cup {log})
  BY DEF LogsInv
<1>2. /\ Append(gateLogs, log) \in Seq(ToSet(gateLogs) \cup {log})
      /\ Len(gateLogs) \in Nat
      /\ \A i \in DOMAIN Append(gateLogs, log) :
           IF i = Len(gateLogs) + 1 THEN Append(gateLogs, log)[i] = log
           ELSE i \in DOMAIN gateLogs /\ Append(gateLogs, log)[i] = gateLogs[i]
  BY <1>1
<1>3. gateLogs' \in Seq(ToSet(gateLogs'))
  BY <1>2, SeqOfItsOwn
<1>4. ASSUME NEW i \in DOMAIN gateLogs'
      PROVE  gateLogs'[i].verdict # "none" =>
               (gateLogs'[i].signal = "failed" <=>
                  \/ gateLogs'[i].reply.kind = "transport"
                  \/ \E k \in DOMAIN gateLogs'[i].reply.images :
                       gateLogs'[i].reply.images[k].failed)
  <2>1. CASE i = Len(gateLogs) + 1
    <3>1. gateLogs'[i] = log
      BY <1>2, <2>1
    <3> QED BY <3>1
  <2>2. CASE i # Len(gateLogs) + 1
    <3>1. i \in DOMAIN gateLogs /\ gateLogs'[i] = gateLogs[i]
      BY <1>2, <2>2
    <3> QED BY <3>1 DEF LogsInv, OutageIsRecorded
  <2> QED BY <2>1, <2>2
<1> QED BY <1>3, <1>4 DEF LogsInv, OutageIsRecorded

\* Only the gate writes the log.
LEMMA LogsStep ==
  FilesInv /\ LogsInv /\ [FrameNext]_frameVars => LogsInv'
<1> SUFFICES ASSUME FilesInv, LogsInv, [FrameNext]_frameVars PROVE LogsInv'
  OBVIOUS
<1>1. CASE gateLogs' = gateLogs
  BY <1>1 DEF LogsInv, OutageIsRecorded
<1>2. ASSUME NEW u \in Units, Gate(u) PROVE LogsInv'
  <2> DEFINE n == Len(run[u].media)
             Shaped(reply) == [reply EXCEPT !.images = SubSeq(@, 1, Min({n, Len(@)}))]
  <2>1. PICK reply \in Replies, reason \in {"motion_spike", "other"} :
          /\ reply.kind = "transport" \/ ShapeIsValid(n, Shaped(reply))
          /\ gateLogs' = Append(gateLogs,
               GateLog(u, Shaped(reply), Signal(Detect(n, Shaped(reply))),
                       Verdict(Signal(Detect(n, Shaped(reply))), Rules, reason,
                               setting.forced)))
    BY <1>2 DEF Gate
  <2>2. n \in Nat /\ n > 0
    <3>1. run[u].media \in Seq(ToSet(run[u].media)) /\ run[u].media # <<>>
      BY <1>2 DEF FilesInv, MediaOK, Gate, At
    <3> QED BY <3>1
  <2>3. /\ DOMAIN reply = {"kind", "images"} /\ reply.images \in Seq(ToSet(reply.images))
        /\ Len(reply.images) \in Nat
    BY FrameAssumption
  <2> HIDE DEF n
  <2>4. /\ Min({n, Len(reply.images)}) \in Nat
        /\ Min({n, Len(reply.images)}) <= Len(reply.images)
    BY <2>2, <2>3 DEF Min
  <2>5. /\ Shaped(reply).kind = reply.kind
        /\ Shaped(reply).images = SubSeq(reply.images, 1, Min({n, Len(reply.images)}))
    BY <2>3
  <2>6. SubSeq(reply.images, 1, Min({n, Len(reply.images)})) \in Seq(ToSet(reply.images))
    <3> DEFINE m == Min({n, Len(reply.images)})
               T == ToSet(reply.images)
    <3>1. reply.images \in Seq(T) /\ m \in Nat /\ m <= Len(reply.images)
      BY <2>3, <2>4
    <3> HIDE DEF m, T
    <3>2. \A i \in 1..m : reply.images[i] \in T
      BY <2>3, <3>1
    <3>3. SubSeq(reply.images, 1, m) \in Seq(T)
      BY <3>1, <3>2, SubSeqProperties
    <3> QED BY <3>3 DEF m, T
  <2> DEFINE shaped == Shaped(reply)
             signal == Signal(Detect(n, shaped))
             verdict == Verdict(signal, Rules, reason, setting.forced)
             log == GateLog(u, shaped, signal, verdict)
  <2>7. shaped.images \in Seq(ToSet(shaped.images))
    BY <2>5, <2>6, SeqOfItsOwn
  <2>8. shaped.kind = "transport" \/ ShapeIsValid(n, shaped)
    BY <2>1, <2>5
  <2> HIDE DEF Shaped, shaped
  <2>9. signal.status = "failed" <=>
          \/ shaped.kind = "transport"
          \/ \E k \in DOMAIN shaped.images : shaped.images[k].failed
    BY <2>2, <2>7, <2>8, SignalTells
  <2> HIDE DEF signal, verdict
  <2>10. log.signal = signal.status /\ log.reply = shaped
    BY DEF GateLog
  <2>11. gateLogs' = Append(gateLogs, log)
    BY <2>1 DEF shaped, signal, verdict
  <2> HIDE DEF log
  <2> QED BY <2>9, <2>10, <2>11, LogGrows
<1>3. ASSUME NEW u \in Units, GateRetries(u) PROVE LogsInv'
  <2>1. CASE gateLogs' = Append(gateLogs, SchemaFailureLog(u))
    <3>1. SchemaFailureLog(u).verdict = "none"
      BY DEF SchemaFailureLog
    <3> QED BY <2>1, <3>1, LogGrows
  <2> QED BY <1>1, <1>3, <2>1 DEF GateRetries
<1>4. CASE \A u \in Units : ~Gate(u) /\ ~GateRetries(u)
  <2>1. gateLogs' = gateLogs
    BY <1>4 DEF FrameNext, frameVars, Warmup, Begin, ImportBegins, ImportEnds, Decode,
       OpenFails, WriteFrame, WriteFrameFails, Fallback, FfmpegFrame, PassClip, Extracted,
       NoGate, Analyze, Release
  <2> QED BY <1>1, <2>1
<1> QED BY <1>2, <1>3, <1>4

\* The invariant of the frame store.
THEOREM FrameInvHolds == FrameSpec => []FrameInv
<1>1. FrameInit => FrameInv
  <2> SUFFICES ASSUME FrameInit PROVE FrameInv
    OBVIOUS
  <2>1. ImportInv
    BY DEF FrameInit, ImportInv, Cold
  <2>2. LogsInv
    <3>1. gateLogs = <<>> /\ DOMAIN <<>> = {} /\ <<>> \in Seq({})
      BY DEF FrameInit
    <3>2. ToSet(<<>>) = {}
      BY DEF ToSet
    <3> QED BY <3>1, <3>2 DEF LogsInv, OutageIsRecorded
  <2> QED BY <2>1, <2>2, FilesStart DEF FrameInv
<1>2. FrameInv /\ [FrameNext]_frameVars => FrameInv'
  BY FilesStep, ImportStep, LogsStep DEF FrameInv
<1> QED BY <1>1, <1>2, PTL DEF FrameSpec

\* Whatever the other units extract, replace or delete, the gate and the VLM read
\* the files this very unit wrote, and a published unit leaves none of its own
\* behind (_segment_dir, _segment_subdir, cleanup_selected_frames).
THEOREM FilesAreOwn == FrameSpec => []WorkingFilesAreOwn
<1>1. FrameInv => WorkingFilesAreOwn
  <2> SUFFICES ASSUME FilesInv PROVE WorkingFilesAreOwn
    BY DEF FrameInv
  <2>1. ASSUME NEW u \in Units, NEW p \in run[u].wrote, p \in DOMAIN files
        PROVE  files[p] = u
    <3>1. OwnPath(u, p) /\ p # Source
      BY DEF FilesInv, MediaOK, OwnPath, Source
    <3>2. files[p] \in Units /\ p \in run[files[p]].wrote
      BY <2>1, <3>1 DEF FilesInv
    <3>3. OwnPath(files[p], p)
      BY <3>2 DEF FilesInv, MediaOK
    <3> QED BY <3>1, <3>3 DEF OwnPath
  <2>2. ASSUME NEW u \in Units, run[u].pc \in {"gate", "vlm"}, run[u].wrote # {},
               NEW i \in DOMAIN run[u].media
        PROVE  run[u].media[i] \in DOMAIN files /\ files[run[u].media[i]] = u
    <3>1. run[u].media[i] \in run[u].wrote /\ run[u].wrote \subseteq DOMAIN files
      BY <2>2 DEF FilesInv, MediaOK
    <3> QED BY <2>1, <3>1
  <2>3. ASSUME NEW u \in Units, CleanedUp(run[u]), run[u].wrote \subseteq ToSet(run[u].media),
               NEW p \in DOMAIN files
        PROVE  files[p] # u
    <3> SUFFICES ASSUME files[p] = u PROVE FALSE
      OBVIOUS
    <3>1. p \in run[u].wrote
      BY FrameAssumption DEF FilesInv
    <3>2. PICK i \in DOMAIN run[u].media : p = run[u].media[i]
      BY <2>3, <3>1 DEF ToSet
    <3> QED BY <2>3, <3>1, <3>2 DEF FilesInv
  <2> QED BY <2>2, <2>3 DEF WorkingFilesAreOwn, CleanedUp, At
<1> QED BY <1>1, FrameInvHolds, PTL

\* No unit meets a half imported cv2 when OpenCV works
\* (_warmup_decode_backend, import_cv2, cv2_available).
THEOREM ImportsAreOver == FrameSpec => []NoImportRace
<1>1. FrameInv => NoImportRace
  BY DEF FrameInv, ImportInv, NoImportRace
<1> QED BY <1>1, FrameInvHolds, PTL

\* The log row of a decision tells an outage of the detector from a quiet scene
\* (_object_detection_signal, decide_pre_vlm_gate).
THEOREM OutagesAreRecorded == FrameSpec => []OutageIsRecorded
<1>1. FrameInv => OutageIsRecorded
  BY DEF FrameInv, LogsInv
<1> QED BY <1>1, FrameInvHolds, PTL

-----------------------------------------------------------------------------
(* The timeline and its export. *)

ScaleOf(u) == IF u \in DefaultUnits THEN "default_segment" ELSE "high_freq_event"

\* The key x of a curve belongs to unit u.
Belongs(c, x, u) ==
  \E k \in 0..rerun[u] :
    IF c = "units" THEN x = u
    ELSE IF c = "pre_vlm" THEN \E s \in StageNames : x = <<<<u, k>>, s>>
    ELSE x = <<u, k>>

\* What the export keeps, whatever the units do: the curve of all events is the
\* union of the curves of the scales, and each key is of a unit of its scale.
SeriesOK(c, g) ==
  /\ IsFiniteSet(curves[c][g].active)
  /\ curves[c][g].peak \in Nat
  /\ Cardinality(curves[c][g].active) <= curves[c][g].peak
  /\ \A x \in curves[c][g].active :
       \E u \in TimelineUnits : g \in {"all", ScaleOf(u)} /\ Belongs(c, x, u)
ScalesOK(c) ==
  /\ curves[c]["all"].active =
       curves[c]["default_segment"].active \cup curves[c]["high_freq_event"].active
  /\ \A g \in Scales : curves[c][g].peak <= curves[c]["all"].peak
  /\ curves[c]["all"].peak <=
       curves[c]["default_segment"].peak + curves[c]["high_freq_event"].peak
ExportInv == \A c \in CurveNames : ScalesOK(c) /\ \A g \in Groups : SeriesOK(c, g)

UnitPlaces ==
  {"new", "before_frame_select", "before_media_refs_built", "before_detector_gate",
   "frame_select", "media_refs_built", "detector_gate", "attempt", "waiting", "admitted",
   "paced", "calling", "answered", "refused", "publishing", "ending", "escaped", "done"}

\* What a curve shows of the run under way is where that run is.
Shown(u, g) ==
  /\ <<u, rerun[u]>> \in curves["waiters"][g].active => at[u] \in {"waiting", "admitted"}
  /\ <<u, rerun[u]>> \in curves["outbound"][g].active => at[u] = "calling"
  /\ \A s \in StageNames : <<<<u, rerun[u]>>, s>> \in curves["pre_vlm"][g].active => at[u] = s
  /\ u \in curves["units"][g].active /\ at[u] = "done" => u \in silent
RunsInv ==
  /\ at \in [TimelineUnits -> UnitPlaces]
  /\ rerun \in [TimelineUnits -> Nat]
  /\ \A u \in TimelineUnits : \A k \in 0..(rerun[u] - 1) : <<u, k>> \in blurred
  /\ \A u \in TimelineUnits : <<u, rerun[u]>> \notin blurred => \A g \in Groups : Shown(u, g)

Inside == {u \in TimelineUnits :
             at[u] \in {"admitted", "paced", "calling", "answered", "refused"}}
PermitsInv ==
  /\ free \in Nat
  /\ free + Cardinality(Inside) = Permits
  /\ free = 0 /\ Permits > 0 => saturated
  /\ saturated \in BOOLEAN
  /\ IsFiniteSet(blurred)

OutboundInv ==
  /\ curves["outbound"]["all"].peak <= Permits + Cardinality(blurred)
  /\ curves["outbound"]["all"].peak >= Permits /\ Permits > 0 /\ blurred = {} => saturated

TimelineInv == ExportInv /\ RunsInv /\ PermitsInv /\ OutboundInv

\* The stages by name.
LEMMA StagesAre == StageNames = {"frame_select", "media_refs_built", "detector_gate"}
<1>1. DOMAIN Stages = 1..3 /\ Stages[1] = "frame_select" /\ Stages[2] = "media_refs_built"
      /\ Stages[3] = "detector_gate"
  BY DEF Stages
<1>2. 1..3 = {1, 2, 3}
  OBVIOUS
<1> QED BY <1>1, <1>2 DEF StageNames

\* What _series_for_active_keys and _stage_series look at in an event.
LEMMA Effects ==
  ASSUME NEW e
  PROVE  /\ Opens("units", e) <=> e.name = "unit_running"
         /\ Opens("pre_vlm", e) <=> e.name \in StageNames /\ e.phase = "start"
         /\ Opens("waiters", e) <=> e.name = "vlm_scheduler_wait" /\ e.phase = "start"
         /\ Opens("outbound", e) <=> e.name = "vlm_provider_call" /\ e.phase = "start"
         /\ Closes("units", e) <=> e.name = "unit_finished"
         /\ Closes("pre_vlm", e) <=> e.name \in StageNames /\ e.phase \in {"finish", "fail"}
         /\ Closes("waiters", e) <=>
              e.name = "vlm_scheduler_wait" /\ e.phase \in {"finish", "fail"}
         /\ Closes("outbound", e) <=>
              e.name = "vlm_provider_call" /\ e.phase \in {"finish", "fail"}
         /\ SeriesKey("units", e) = e.unit
         /\ SeriesKey("pre_vlm", e) = <<e.call, e.name>>
         /\ SeriesKey("waiters", e) = e.call
         /\ SeriesKey("outbound", e) = e.call
<1>1. Opens("units", e) <=> e.name = "unit_running"
  BY DEF Opens
<1>2. Opens("pre_vlm", e) <=> e.name \in StageNames /\ e.phase = "start"
  BY DEF Opens
<1>3. Opens("waiters", e) <=> e.name = "vlm_scheduler_wait" /\ e.phase = "start"
  BY DEF Opens
<1>4. Opens("outbound", e) <=> e.name = "vlm_provider_call" /\ e.phase = "start"
  BY DEF Opens
<1>5. Closes("units", e) <=> e.name = "unit_finished"
  BY DEF Closes
<1>6. Closes("pre_vlm", e) <=> e.name \in StageNames /\ e.phase \in {"finish", "fail"}
  BY DEF Closes
<1>7. Closes("waiters", e) <=> e.name = "vlm_scheduler_wait" /\ e.phase \in {"finish", "fail"}
  BY DEF Closes
<1>8. Closes("outbound", e) <=> e.name = "vlm_provider_call" /\ e.phase \in {"finish", "fail"}
  BY DEF Closes
<1>9. /\ SeriesKey("units", e) = e.unit
      /\ SeriesKey("pre_vlm", e) = <<e.call, e.name>>
      /\ SeriesKey("waiters", e) = e.call
      /\ SeriesKey("outbound", e) = e.call
  BY DEF SeriesKey
<1> QED BY <1>1, <1>2, <1>3, <1>4, <1>5, <1>6, <1>7, <1>8, <1>9

\* What an event of a unit carries.
LEMMA EventFields ==
  ASSUME NEW u, NEW name, NEW phase
  PROVE  LET e == EventOf(u, name, phase)
         IN /\ e.name = name /\ e.phase = phase /\ e.unit = u
            /\ e.call = <<u, rerun[u]>> /\ e.scale = ScaleOf(u)
BY DEF EventOf, DefaultEvent, HfEvent, ScaleOf

\* The larger of two numbers.
LEMMA MaxOfTwo ==
  ASSUME NEW a \in Nat, NEW b \in Nat
  PROVE  /\ Max({a, b}) \in Nat /\ Max({a, b}) >= a /\ Max({a, b}) >= b
         /\ Max({a, b}) = a \/ Max({a, b}) = b
BY DEF Max

\* The set of open keys after an event.
Applied(S, c, e) ==
  IF Opens(c, e) THEN S \cup {SeriesKey(c, e)}
  ELSE IF Closes(c, e) THEN S \ {SeriesKey(c, e)} ELSE S

\* One event further.
LEMMA FoldStep ==
  ASSUME NEW e, curves' = Fold(curves, e), NEW c \in CurveNames, NEW g \in Groups
  PROVE  /\ g \notin {"all", e.scale} => curves'[c][g] = curves[c][g]
         /\ g \in {"all", e.scale} =>
              /\ curves'[c][g].active = Applied(curves[c][g].active, c, e)
              /\ curves'[c][g].peak =
                   Max({curves[c][g].peak, Cardinality(Applied(curves[c][g].active, c, e))})
BY DEF Fold, SeriesStep, Applied

\* A key belongs to one unit.
LEMMA OneOwner ==
  ASSUME NEW c, NEW x, NEW u, NEW v, Belongs(c, x, u), Belongs(c, x, v)
  PROVE  u = v
BY DEF Belongs

\* The key of an event that a curve looks at belongs to the unit of the event.
LEMMA KeyOfUnit ==
  ASSUME NEW c \in CurveNames, NEW u, rerun[u] \in Nat, NEW name, NEW phase,
         LET e == EventOf(u, name, phase) IN Opens(c, e) \/ Closes(c, e)
  PROVE  Belongs(c, SeriesKey(c, EventOf(u, name, phase)), u)
<1> DEFINE e == EventOf(u, name, phase)
<1>1. e.name = name /\ e.unit = u /\ e.call = <<u, rerun[u]>>
  BY EventFields
<1>2. rerun[u] \in 0..rerun[u]
  OBVIOUS
<1> HIDE DEF e
<1>3. Opens(c, e) \/ Closes(c, e)
  BY DEF e
<1>4. c = "pre_vlm" => e.name \in StageNames
  BY <1>3, Effects
<1>5. Belongs(c, SeriesKey(c, e), u)
  <2>1. CASE c = "units"
    BY <1>1, <1>2, <2>1, Effects DEF Belongs
  <2>2. CASE c = "pre_vlm"
    BY <1>1, <1>2, <1>4, <2>2, Effects DEF Belongs
  <2>3. CASE c \in {"waiters", "outbound"}
    BY <1>1, <1>2, <2>3, Effects DEF Belongs
  <2> QED BY <2>1, <2>2, <2>3 DEF CurveNames
<1> QED BY <1>5 DEF e

\* An event that is stored leaves the export in order.
LEMMA ExportStep ==
  ASSUME ExportInv, NEW u \in TimelineUnits, rerun[u] \in Nat, NEW name, NEW phase,
         curves' = Fold(curves, EventOf(u, name, phase)), rerun' = rerun
  PROVE  ExportInv'
<1> DEFINE e == EventOf(u, name, phase)
<1>1. e.scale = ScaleOf(u) /\ ScaleOf(u) \in Scales
  BY EventFields DEF ScaleOf, Scales
<1>2. \A c \in CurveNames : Opens(c, e) \/ Closes(c, e) => Belongs(c, SeriesKey(c, e), u)
  BY KeyOfUnit
<1>f. curves' = Fold(curves, e)
  OBVIOUS
<1> HIDE DEF e
<1>3. ASSUME NEW c \in CurveNames, NEW g \in Groups PROVE SeriesOK(c, g)'
  <2>1. SeriesOK(c, g)
    BY DEF ExportInv
  <2>2. \A x, v : Belongs(c, x, v)' <=> Belongs(c, x, v)
    BY DEF Belongs
  <2>3. CASE g \notin {"all", e.scale}
    <3>1. curves'[c][g] = curves[c][g]
      BY <1>f, <2>3, FoldStep
    <3> QED BY <2>1, <2>2, <3>1 DEF SeriesOK, ScaleOf
  <2>4. CASE g \in {"all", e.scale}
    <3> DEFINE S == curves[c][g].active
               T == Applied(S, c, e)
    <3>1. curves'[c][g].active = T /\ curves'[c][g].peak = Max({curves[c][g].peak, Cardinality(T)})
      BY <1>f, <2>4, FoldStep
    <3>2. IsFiniteSet(T)
      BY <2>1, FS_AddElement, FS_RemoveElement DEF Applied, SeriesOK
    <3>3. Cardinality(T) \in Nat /\ curves[c][g].peak \in Nat
      BY <2>1, <3>2, FS_CardinalityType DEF SeriesOK
    <3>4. \A x \in T : \E v \in TimelineUnits : g \in {"all", ScaleOf(v)} /\ Belongs(c, x, v)
      <4> SUFFICES ASSUME NEW x \in T
                   PROVE \E v \in TimelineUnits : g \in {"all", ScaleOf(v)} /\ Belongs(c, x, v)
        OBVIOUS
      <4>1. x \in S \/ (Opens(c, e) /\ x = SeriesKey(c, e))
        BY DEF Applied
      <4>2. CASE x \in S
        BY <2>1, <4>2 DEF SeriesOK
      <4>3. CASE Opens(c, e) /\ x = SeriesKey(c, e)
        BY <1>1, <1>2, <2>4, <4>3
      <4> QED BY <4>1, <4>2, <4>3
    <3> HIDE DEF T
    <3>5. Max({curves[c][g].peak, Cardinality(T)}) \in Nat
          /\ Cardinality(T) <= Max({curves[c][g].peak, Cardinality(T)})
      BY <3>3, MaxOfTwo
    <3> QED BY <2>2, <3>1, <3>2, <3>4, <3>5 DEF SeriesOK, ScaleOf
  <2> QED BY <2>3, <2>4
<1>4. ASSUME NEW c \in CurveNames PROVE ScalesOK(c)'
  <2> DEFINE d == "default_segment"
             h == "high_freq_event"
             A(g) == curves[c][g].active
             B(g) == curves'[c][g].active
             P(g) == curves[c][g].peak
             Q(g) == curves'[c][g].peak
  <2>1. /\ "all" \in Groups /\ d \in Groups /\ h \in Groups /\ Scales = {d, h}
        /\ \A g \in Scales : g # "all"
    BY DEF Groups, Scales
  <2>2. A("all") = A(d) \cup A(h) /\ P(d) <= P("all") /\ P(h) <= P("all")
        /\ P("all") <= P(d) + P(h)
    BY <2>1 DEF ExportInv, ScalesOK
  <2>3. \A g \in Groups : IsFiniteSet(A(g)) /\ P(g) \in Nat /\ Cardinality(A(g)) <= P(g)
    BY DEF ExportInv, SeriesOK
  <2>4. \A g \in Groups : /\ IsFiniteSet(B(g)) /\ Q(g) \in Nat /\ Cardinality(B(g)) <= Q(g)
                          /\ Cardinality(B(g)) \in Nat
    BY <1>3, FS_CardinalityType DEF SeriesOK
  <2>f. \A g \in Groups :
          /\ g \notin {"all", e.scale} => B(g) = A(g) /\ Q(g) = P(g)
          /\ g \in {"all", e.scale} =>
               B(g) = Applied(A(g), c, e) /\ Q(g) = Max({P(g), Cardinality(B(g))})
    <3> SUFFICES ASSUME NEW g \in Groups
                 PROVE /\ g \notin {"all", e.scale} => B(g) = A(g) /\ Q(g) = P(g)
                       /\ g \in {"all", e.scale} =>
                            /\ B(g) = Applied(A(g), c, e)
                            /\ Q(g) = Max({P(g), Cardinality(B(g))})
      OBVIOUS
    <3> HIDE DEF A, B, P, Q
    <3>1. /\ g \notin {"all", e.scale} => curves'[c][g] = curves[c][g]
          /\ g \in {"all", e.scale} =>
              /\ curves'[c][g].active = Applied(curves[c][g].active, c, e)
              /\ curves'[c][g].peak =
                   Max({curves[c][g].peak, Cardinality(Applied(curves[c][g].active, c, e))})
      BY <1>f, FoldStep
    <3>2. CASE g \notin {"all", e.scale}
      BY <3>1, <3>2 DEF A, B, P, Q
    <3>3. CASE g \in {"all", e.scale}
      <4>1. B(g) = Applied(A(g), c, e)
        BY <3>1, <3>3 DEF A, B
      <4>2. Q(g) = Max({P(g), Cardinality(Applied(A(g), c, e))})
        BY <3>1, <3>3 DEF A, P, Q
      <4> QED BY <3>3, <4>1, <4>2
    <3> QED BY <3>2, <3>3
  <2> HIDE DEF A, B, P, Q
  <2>5. /\ B("all") = Applied(A("all"), c, e)
        /\ Q("all") = Max({P("all"), Cardinality(B("all"))})
    BY <2>1, <2>f
  <2>6. \A g \in Scales : g = e.scale =>
          B(g) = Applied(A(g), c, e) /\ Q(g) = Max({P(g), Cardinality(B(g))})
    BY <2>1, <2>f DEF Groups
  <2>7. \A g \in Scales : g # e.scale => B(g) = A(g) /\ Q(g) = P(g)
    BY <2>1, <2>f DEF Groups
  <2>8. \A g \in Scales : g # e.scale /\ (Opens(c, e) \/ Closes(c, e)) =>
          SeriesKey(c, e) \notin A(g)
    <3> SUFFICES ASSUME NEW g \in Scales, g # e.scale, Opens(c, e) \/ Closes(c, e),
                        SeriesKey(c, e) \in A(g)
                 PROVE  FALSE
      OBVIOUS
    <3>1. PICK v \in TimelineUnits :
            g \in {"all", ScaleOf(v)} /\ Belongs(c, SeriesKey(c, e), v)
      BY <2>1 DEF ExportInv, SeriesOK, A, Groups
    <3>2. v = u
      BY <1>2, <3>1, OneOwner
    <3> QED BY <1>1, <2>1, <3>1, <3>2
  <2>9. B("all") = B(d) \cup B(h)
    <3>1. CASE e.scale = d
      BY <2>1, <2>2, <2>5, <2>6, <2>7, <2>8, <3>1 DEF Applied
    <3>2. CASE e.scale = h
      BY <2>1, <2>2, <2>5, <2>6, <2>7, <2>8, <3>2 DEF Applied
    <3> QED BY <1>1, <2>1, <3>1, <3>2
  <2>10. Cardinality(B("all")) <= Cardinality(B(d)) + Cardinality(B(h))
    <3>1. IsFiniteSet(B(d)) /\ IsFiniteSet(B(h)) /\ IsFiniteSet(B(d) \cap B(h))
      BY <2>1, <2>4, FS_Intersection
    <3>2. Cardinality(B(d) \cup B(h)) =
            Cardinality(B(d)) + Cardinality(B(h)) - Cardinality(B(d) \cap B(h))
      BY <3>1, FS_Union
    <3>3. Cardinality(B(d) \cap B(h)) \in Nat
      BY <3>1, FS_CardinalityType
    <3>4. Cardinality(B(d)) \in Nat /\ Cardinality(B(h)) \in Nat
      BY <2>1, <2>4
    <3>5. Cardinality(B(d) \cup B(h)) <= Cardinality(B(d)) + Cardinality(B(h))
      BY <3>2, <3>3, <3>4
    <3> QED BY <2>9, <3>5
  <2>11. /\ Cardinality(B(d)) <= Cardinality(B("all"))
         /\ Cardinality(B(h)) <= Cardinality(B("all"))
    BY <2>1, <2>4, <2>9, FS_Subset
  <2>12. Q("all") >= P("all") /\ Q("all") >= Cardinality(B("all"))
         /\ (Q("all") = P("all") \/ Q("all") = Cardinality(B("all")))
    BY <2>1, <2>3, <2>4, <2>5, MaxOfTwo
  <2>13. \A g \in Scales : /\ Q(g) >= P(g)
                           /\ Q(g) = P(g) \/ Q(g) = Cardinality(B(g))
    <3> SUFFICES ASSUME NEW g \in Scales
                 PROVE  Q(g) >= P(g) /\ (Q(g) = P(g) \/ Q(g) = Cardinality(B(g)))
      OBVIOUS
    <3>1. g \in Groups /\ P(g) \in Nat /\ Cardinality(B(g)) \in Nat
      BY <2>1, <2>3, <2>4
    <3>2. CASE g = e.scale
      BY <2>6, <3>1, <3>2, MaxOfTwo, ZenonT(60)
    <3>3. CASE g # e.scale
      BY <2>7, <3>1, <3>3
    <3> QED BY <3>2, <3>3
  <2>14. Q(d) <= Q("all") /\ Q(h) <= Q("all")
    BY <2>1, <2>2, <2>3, <2>4, <2>11, <2>12, <2>13
  <2>15. Q("all") <= Q(d) + Q(h)
    BY <2>1, <2>2, <2>3, <2>4, <2>10, <2>12, <2>13
  <2> QED BY <2>1, <2>9, <2>14, <2>15 DEF ScalesOK, B, Q, Scales
<1> QED BY <1>3, <1>4 DEF ExportInv

\* An event of one unit does not touch what the curves show of another.
LEMMA OthersSeen ==
  ASSUME NEW u, NEW v, u # v, NEW name, NEW phase, NEW g \in Groups,
         curves' = Fold(curves, EventOf(u, name, phase)), NEW k
  PROVE  /\ \A c \in {"waiters", "outbound"} :
              <<v, k>> \in curves'[c][g].active <=> <<v, k>> \in curves[c][g].active
         /\ \A s : <<<<v, k>>, s>> \in curves'["pre_vlm"][g].active <=>
                     <<<<v, k>>, s>> \in curves["pre_vlm"][g].active
         /\ v \in curves'["units"][g].active <=> v \in curves["units"][g].active
<1> DEFINE e == EventOf(u, name, phase)
<1>1. e.unit = u /\ e.call = <<u, rerun[u]>>
  BY EventFields
<1>2. curves' = Fold(curves, e)
  OBVIOUS
<1> HIDE DEF e
<1>3. ASSUME NEW c \in CurveNames, NEW x, x # SeriesKey(c, e)
      PROVE  x \in curves'[c][g].active <=> x \in curves[c][g].active
  <2>1. CASE g \notin {"all", e.scale}
    BY <1>2, <2>1, FoldStep
  <2>2. CASE g \in {"all", e.scale}
    <3>1. curves'[c][g].active = Applied(curves[c][g].active, c, e)
      BY <1>2, <2>2, FoldStep
    <3> QED BY <1>3, <3>1 DEF Applied
  <2> QED BY <2>1, <2>2
<1>4. "units" \in CurveNames /\ "pre_vlm" \in CurveNames /\ "waiters" \in CurveNames
      /\ "outbound" \in CurveNames
  BY DEF CurveNames
<1>5. /\ SeriesKey("waiters", e) = <<u, rerun[u]>> /\ SeriesKey("outbound", e) = <<u, rerun[u]>>
      /\ SeriesKey("pre_vlm", e) = <<<<u, rerun[u]>>, e.name>> /\ SeriesKey("units", e) = u
  BY <1>1, Effects
<1>6. <<v, k>> # <<u, rerun[u]>> /\ \A s : <<<<v, k>>, s>> # <<<<u, rerun[u]>>, e.name>>
  OBVIOUS
<1> QED BY <1>3, <1>4, <1>5, <1>6

\* What the curves show of the unit after its own event.
LEMMA OwnSeen ==
  ASSUME ExportInv, NEW u \in TimelineUnits, NEW name, NEW phase, NEW g \in Groups,
         curves' = Fold(curves, EventOf(u, name, phase))
  PROVE  LET call == <<u, rerun[u]>>
         IN /\ call \in curves'["waiters"][g].active =>
                 \/ name = "vlm_scheduler_wait" /\ phase = "start"
                 \/ /\ call \in curves["waiters"][g].active
                    /\ ~(name = "vlm_scheduler_wait" /\ phase \in {"finish", "fail"})
            /\ call \in curves'["outbound"][g].active =>
                 \/ name = "vlm_provider_call" /\ phase = "start"
                 \/ /\ call \in curves["outbound"][g].active
                    /\ ~(name = "vlm_provider_call" /\ phase \in {"finish", "fail"})
            /\ \A s \in StageNames : <<call, s>> \in curves'["pre_vlm"][g].active =>
                 \/ name = s /\ phase = "start"
                 \/ /\ <<call, s>> \in curves["pre_vlm"][g].active
                    /\ ~(name = s /\ phase \in {"finish", "fail"})
            /\ u \in curves'["units"][g].active =>
                 \/ name = "unit_running"
                 \/ u \in curves["units"][g].active /\ name # "unit_finished"
<1> DEFINE e == EventOf(u, name, phase)
           call == <<u, rerun[u]>>
<1>1. /\ e.name = name /\ e.phase = phase /\ e.unit = u /\ e.call = call
      /\ e.scale = ScaleOf(u)
  BY EventFields
<1>2. curves' = Fold(curves, e)
  OBVIOUS
<1>3. /\ SeriesKey("waiters", e) = call /\ SeriesKey("outbound", e) = call
      /\ SeriesKey("pre_vlm", e) = <<call, name>> /\ SeriesKey("units", e) = u
  BY <1>1, Effects
<1> HIDE DEF e
<1>4. ASSUME NEW c \in CurveNames, NEW x, x \in curves'[c][g].active,
             \A v \in TimelineUnits : Belongs(c, x, v) => v = u
      PROVE  \/ x = SeriesKey(c, e) /\ Opens(c, e)
             \/ x \in curves[c][g].active /\ ~(x = SeriesKey(c, e) /\ Closes(c, e))
  <2>1. CASE g \notin {"all", e.scale}
    <3>1. x \in curves[c][g].active
      BY <1>2, <1>4, <2>1, FoldStep
    <3>2. PICK v \in TimelineUnits : g \in {"all", ScaleOf(v)} /\ Belongs(c, x, v)
      BY <3>1 DEF ExportInv, SeriesOK
    <3> QED BY <1>1, <1>4, <2>1, <3>2
  <2>2. CASE g \in {"all", e.scale}
    <3>1. curves'[c][g].active = Applied(curves[c][g].active, c, e)
      BY <1>2, <2>2, FoldStep
    <3> QED BY <1>4, <3>1 DEF Applied
  <2> QED BY <2>1, <2>2
<1>5. \A v \in TimelineUnits :
        /\ Belongs("waiters", call, v) => v = u
        /\ Belongs("outbound", call, v) => v = u
        /\ Belongs("units", u, v) => v = u
        /\ \A s : Belongs("pre_vlm", <<call, s>>, v) => v = u
  BY DEF Belongs
<1>6. "units" \in CurveNames /\ "pre_vlm" \in CurveNames /\ "waiters" \in CurveNames
      /\ "outbound" \in CurveNames
  BY DEF CurveNames
<1>7. call \in curves'["waiters"][g].active =>
        \/ name = "vlm_scheduler_wait" /\ phase = "start"
        \/ /\ call \in curves["waiters"][g].active
           /\ ~(name = "vlm_scheduler_wait" /\ phase \in {"finish", "fail"})
  <2>1. call \in curves'["waiters"][g].active =>
          Opens("waiters", e) \/ (call \in curves["waiters"][g].active /\ ~Closes("waiters", e))
    BY <1>3, <1>4, <1>5, <1>6
  <2> QED BY <1>1, <2>1, Effects
<1>8. call \in curves'["outbound"][g].active =>
        \/ name = "vlm_provider_call" /\ phase = "start"
        \/ /\ call \in curves["outbound"][g].active
           /\ ~(name = "vlm_provider_call" /\ phase \in {"finish", "fail"})
  <2>1. call \in curves'["outbound"][g].active =>
          \/ Opens("outbound", e)
          \/ call \in curves["outbound"][g].active /\ ~Closes("outbound", e)
    BY <1>3, <1>4, <1>5, <1>6
  <2> QED BY <1>1, <2>1, Effects
<1>9. ASSUME NEW s \in StageNames, <<call, s>> \in curves'["pre_vlm"][g].active
      PROVE  \/ name = s /\ phase = "start"
             \/ /\ <<call, s>> \in curves["pre_vlm"][g].active
                /\ ~(name = s /\ phase \in {"finish", "fail"})
  <2>1. \/ <<call, s>> = <<call, name>> /\ Opens("pre_vlm", e)
        \/ /\ <<call, s>> \in curves["pre_vlm"][g].active
           /\ ~(<<call, s>> = <<call, name>> /\ Closes("pre_vlm", e))
    BY <1>3, <1>4, <1>5, <1>6, <1>9
  <2>2. /\ Opens("pre_vlm", e) <=> name \in StageNames /\ phase = "start"
        /\ Closes("pre_vlm", e) <=> name \in StageNames /\ phase \in {"finish", "fail"}
    BY <1>1, Effects
  <2>3. <<call, s>> = <<call, name>> <=> s = name
    OBVIOUS
  <2> HIDE DEF call
  <2> QED BY <2>1, <2>2, <2>3
<1>10. u \in curves'["units"][g].active =>
         name = "unit_running" \/ (u \in curves["units"][g].active /\ name # "unit_finished")
  <2>1. u \in curves'["units"][g].active =>
          Opens("units", e) \/ (u \in curves["units"][g].active /\ ~Closes("units", e))
    BY <1>3, <1>4, <1>5, <1>6
  <2> QED BY <1>1, <2>1, Effects
<1> QED BY <1>7, <1>8, <1>9, <1>10

\* A step of one unit, for the others and itself.
LEMMA RunsStep ==
  ASSUME RunsInv, NEW u \in TimelineUnits, NEW place \in UnitPlaces, Go(u, place),
         rerun' = rerun, blurred \subseteq blurred',
         \A v \in TimelineUnits : v # u => (v \in silent' <=> v \in silent),
         \/ curves' = curves
         \/ \E name, phase : curves' = Fold(curves, EventOf(u, name, phase)),
         <<u, rerun[u]>> \notin blurred' => \A g \in Groups : Shown(u, g)'
  PROVE  RunsInv'
<1>1. /\ at' \in [TimelineUnits -> UnitPlaces] /\ at'[u] = place
      /\ \A v \in TimelineUnits : v # u => at'[v] = at[v]
  BY DEF RunsInv, Go
<1>2. ASSUME NEW v \in TimelineUnits, v # u, <<v, rerun[v]>> \notin blurred', NEW g \in Groups
      PROVE  Shown(v, g)'
  <2>1. Shown(v, g)
    BY <1>2 DEF RunsInv
  <2>2. /\ \A c \in {"waiters", "outbound"} :
             <<v, rerun[v]>> \in curves'[c][g].active <=> <<v, rerun[v]>> \in curves[c][g].active
        /\ \A s : <<<<v, rerun[v]>>, s>> \in curves'["pre_vlm"][g].active <=>
                    <<<<v, rerun[v]>>, s>> \in curves["pre_vlm"][g].active
        /\ v \in curves'["units"][g].active <=> v \in curves["units"][g].active
    BY <1>2, OthersSeen
  <2> QED BY <1>1, <1>2, <2>1, <2>2 DEF Shown
<1>3. \A v \in TimelineUnits : \A k \in 0..(rerun'[v] - 1) : <<v, k>> \in blurred'
  BY DEF RunsInv
<1>4. rerun' \in [TimelineUnits -> Nat]
  BY DEF RunsInv
<1>5. \A v \in TimelineUnits : <<v, rerun'[v]>> \notin blurred' => \A g \in Groups : Shown(v, g)'
  BY <1>2
<1> QED BY <1>1, <1>3, <1>4, <1>5 DEF RunsInv

\* A step that records an event goes where the curves then say the unit is.
LEMMA EmitStep ==
  ASSUME ExportInv, RunsInv, NEW u \in TimelineUnits, NEW place \in UnitPlaces,
         NEW name, NEW phase, Emit(u, name, phase), Go(u, place), rerun' = rerun,
         \A v \in TimelineUnits : v # u => (v \in silent' <=> v \in silent),
         name = "vlm_scheduler_wait" /\ phase = "start" => place = "waiting",
         at[u] \in {"waiting", "admitted"} =>
           name = "vlm_scheduler_wait" /\ phase \in {"finish", "fail"},
         name = "vlm_provider_call" /\ phase = "start" => place = "calling",
         at[u] = "calling" => name = "vlm_provider_call" /\ phase \in {"finish", "fail"},
         name \in StageNames /\ phase = "start" => place = name,
         at[u] \in StageNames => name = at[u] /\ phase \in {"finish", "fail"},
         place = "done" => name = "unit_finished"
  PROVE  ExportInv' /\ RunsInv'
<1>1. rerun[u] \in Nat /\ EventOf(u, name, phase).call = <<u, rerun[u]>>
  BY EventFields DEF RunsInv
<1>2. CASE Stored(EventOf(u, name, phase))
  <2>1. curves' = Fold(curves, EventOf(u, name, phase)) /\ blurred' = blurred
    BY <1>2 DEF Stored
  <2>2. ExportInv'
    BY <1>1, <2>1, ExportStep
  <2>3. ASSUME <<u, rerun[u]>> \notin blurred', NEW g \in Groups
        PROVE  Shown(u, g)'
    <3>1. Shown(u, g)
      BY <2>1, <2>3 DEF RunsInv
    <3>2. at'[u] = place
      BY DEF Go, RunsInv
    <3> DEFINE call == <<u, rerun[u]>>
    <3>3. call \in curves'["waiters"][g].active => place \in {"waiting", "admitted"}
      <4>1. call \in curves'["waiters"][g].active =>
                 \/ name = "vlm_scheduler_wait" /\ phase = "start"
                 \/ /\ call \in curves["waiters"][g].active
                    /\ ~(name = "vlm_scheduler_wait" /\ phase \in {"finish", "fail"})
        BY <2>1, OwnSeen
      <4> QED BY <3>1, <4>1 DEF Shown
    <3>4. call \in curves'["outbound"][g].active => place = "calling"
      <4>1. call \in curves'["outbound"][g].active =>
                 \/ name = "vlm_provider_call" /\ phase = "start"
                 \/ /\ call \in curves["outbound"][g].active
                    /\ ~(name = "vlm_provider_call" /\ phase \in {"finish", "fail"})
        BY <2>1, OwnSeen
      <4> QED BY <3>1, <4>1 DEF Shown
    <3>5. \A s \in StageNames : <<call, s>> \in curves'["pre_vlm"][g].active => place = s
      <4> SUFFICES ASSUME NEW s \in StageNames, <<call, s>> \in curves'["pre_vlm"][g].active
                   PROVE  place = s
        OBVIOUS
      <4>1. \/ name = s /\ phase = "start"
            \/ /\ <<call, s>> \in curves["pre_vlm"][g].active
               /\ ~(name = s /\ phase \in {"finish", "fail"})
        BY <2>1, OwnSeen
      <4>2. CASE name = s /\ phase = "start"
        BY <4>2
      <4>3. CASE /\ <<call, s>> \in curves["pre_vlm"][g].active
                 /\ ~(name = s /\ phase \in {"finish", "fail"})
        <5>1. at[u] = s
          BY <3>1, <4>3 DEF Shown
        <5> QED BY <4>3, <5>1
      <4> QED BY <4>1, <4>2, <4>3
    <3>6. u \in curves'["units"][g].active => place # "done"
      <4>1. u \in curves'["units"][g].active => name # "unit_finished"
        <5>1. u \in curves'["units"][g].active =>
                 \/ name = "unit_running"
                 \/ u \in curves["units"][g].active /\ name # "unit_finished"
          BY <2>1, OwnSeen
        <5> QED BY <5>1
      <4> QED BY <4>1
    <3> QED BY <3>2, <3>3, <3>4, <3>5, <3>6 DEF Shown
  <2> QED BY <2>1, <2>2, <2>3, RunsStep
<1>3. CASE Lost(EventOf(u, name, phase))
  <2>1. curves' = curves /\ blurred' = blurred \cup {<<u, rerun[u]>>}
    BY <1>1, <1>3 DEF Lost
  <2>2. ExportInv'
    BY <2>1 DEF ExportInv, SeriesOK, ScalesOK, Belongs, ScaleOf
  <2>3. RunsInv'
    BY <2>1, RunsStep
  <2> QED BY <2>2, <2>3
<1> QED BY <1>2, <1>3 DEF Emit

\* A step that records nothing.
LEMMA QuietStep ==
  ASSUME ExportInv, RunsInv, NEW u \in TimelineUnits, NEW place \in UnitPlaces,
         Go(u, place), UNCHANGED <<curves, blurred, rerun>>,
         \A v \in TimelineUnits : v # u => (v \in silent' <=> v \in silent),
         at[u] # "calling" /\ at[u] \notin StageNames,
         at[u] \in {"waiting", "admitted"} => place \in {"waiting", "admitted"},
         place = "done" => u \in silent'
  PROVE  ExportInv' /\ RunsInv'
<1>1. ExportInv'
  BY DEF ExportInv, SeriesOK, ScalesOK, Belongs, ScaleOf
<1>2. ASSUME <<u, rerun[u]>> \notin blurred', NEW g \in Groups
      PROVE  Shown(u, g)'
  <2>1. Shown(u, g) /\ at'[u] = place
    BY <1>2 DEF RunsInv, Go
  <2> QED BY <2>1 DEF Shown
<1> QED BY <1>1, <1>2, RunsStep

\* The steps of the stages.
LEMMA SpanSteps ==
  ASSUME ExportInv, RunsInv, NEW u \in TimelineUnits, NEW stage \in StageNames,
         \/ SpanStarts(u, stage) \/ SpanFails(u, stage)
         \/ \E next \in {"before_media_refs_built", "before_detector_gate", "attempt",
                         "publishing", "ending"} : SpanFinishes(u, stage, next)
  PROVE  ExportInv' /\ RunsInv'
<1>1. stage \in {"frame_select", "media_refs_built", "detector_gate"}
  BY StagesAre
<1>2. CASE SpanStarts(u, stage)
  <2>1. at[u] \in {"before_frame_select", "before_media_refs_built", "before_detector_gate"}
    BY <1>1, <1>2 DEF SpanStarts, Before
  <2>2. Emit(u, stage, "start") /\ Go(u, stage) /\ UNCHANGED <<rerun, silent>>
    BY <1>2 DEF SpanStarts
  <2> QED BY <1>1, <2>1, <2>2, EmitStep, StagesAre DEF UnitPlaces
<1>3. CASE SpanFails(u, stage)
  <2>1. PICK place \in {"escaped", "ending"} : Go(u, place)
    BY <1>3 DEF SpanFails
  <2>2. at[u] = stage /\ Emit(u, stage, "fail") /\ UNCHANGED <<rerun, silent>>
    BY <1>3 DEF SpanFails
  <2> QED BY <1>1, <2>1, <2>2, EmitStep DEF UnitPlaces
<1>4. ASSUME NEW next \in {"before_media_refs_built", "before_detector_gate", "attempt",
                           "publishing", "ending"},
             SpanFinishes(u, stage, next)
      PROVE  ExportInv' /\ RunsInv'
  <2>1. /\ at[u] = stage /\ Emit(u, stage, "finish") /\ Go(u, next)
        /\ UNCHANGED <<rerun, silent>>
    BY <1>4 DEF SpanFinishes
  <2> QED BY <1>1, <2>1, EmitStep DEF UnitPlaces
<1> QED BY <1>2, <1>3, <1>4

\* The steps of a VLM call, and the first and the last step of a unit.
LEMMA CallSteps ==
  ASSUME ExportInv, RunsInv, NEW u \in TimelineUnits,
         \/ UnitBegins(u) \/ WaitStarts(u) \/ WaitFinishes(u) \/ CallStarts(u)
         \/ CallFinishes(u) \/ CallFails(u) \/ Publishes(u) \/ UnitFinishes(u)
  PROVE  ExportInv' /\ RunsInv'
<1> USE StagesAre
<1>1. CASE UnitBegins(u)
  BY <1>1, EmitStep DEF UnitBegins, UnitPlaces
<1>2. CASE WaitStarts(u)
  <2>1. Emit(u, "vlm_scheduler_wait", "start")
    BY <1>2 DEF WaitStarts, EmitCall, OnEvent
  <2> QED BY <1>2, <2>1, EmitStep DEF WaitStarts, UnitPlaces
<1>3. CASE WaitFinishes(u)
  <2>1. Emit(u, "vlm_scheduler_wait", "finish")
    BY <1>3 DEF WaitFinishes, EmitCall, OnEvent
  <2> QED BY <1>3, <2>1, EmitStep DEF WaitFinishes, UnitPlaces
<1>4. CASE CallStarts(u)
  <2>1. Emit(u, "vlm_provider_call", "start")
    BY <1>4 DEF CallStarts, EmitCall, OnEvent
  <2> QED BY <1>4, <2>1, EmitStep DEF CallStarts, UnitPlaces
<1>5. CASE CallFinishes(u)
  <2>1. Emit(u, "vlm_provider_call", "finish")
    BY <1>5 DEF CallFinishes, EmitCall, OnEvent
  <2> QED BY <1>5, <2>1, EmitStep DEF CallFinishes, UnitPlaces
<1>6. CASE CallFails(u)
  <2>1. Emit(u, "vlm_provider_call", "fail")
    BY <1>6 DEF CallFails, EmitCall, OnEvent
  <2> QED BY <1>6, <2>1, EmitStep DEF CallFails, UnitPlaces
<1>7. CASE Publishes(u)
  BY <1>7, EmitStep DEF Publishes, UnitPlaces
<1>8. CASE UnitFinishes(u)
  BY <1>8, EmitStep DEF UnitFinishes, UnitPlaces
<1> QED BY <1>1, <1>2, <1>3, <1>4, <1>5, <1>6, <1>7, <1>8

\* The steps that record nothing.
LEMMA QuietSteps ==
  ASSUME ExportInv, RunsInv, NEW u \in TimelineUnits,
         \/ Admitted(u) \/ EndsSilently(u)
         \/ \E next \in {"publishing", "ending", "attempt"} : FreePermit(u, next)
  PROVE  ExportInv' /\ RunsInv'
<1> USE StagesAre
<1>1. CASE Admitted(u)
  BY <1>1, QuietStep DEF Admitted, UnitPlaces
<1>2. CASE EndsSilently(u)
  BY <1>2, QuietStep DEF EndsSilently, UnitPlaces
<1>3. ASSUME NEW next \in {"publishing", "ending", "attempt"}, FreePermit(u, next)
      PROVE  ExportInv' /\ RunsInv'
  BY <1>3, QuietStep DEF FreePermit, UnitPlaces
<1> QED BY <1>1, <1>2, <1>3

\* The process dies: what it ran is marked, and the next run is one the curves
\* have not seen.
LEMMA CrashStep ==
  ASSUME ExportInv, RunsInv, Crash
  PROVE  ExportInv' /\ RunsInv'
<1> DEFINE hit == {u \in TimelineUnits : at[u] \notin {"new", "done"}}
<1>1. /\ blurred' = blurred \cup {<<u, rerun[u]>> : u \in hit}
      /\ at' = [u \in TimelineUnits |-> IF u \in hit THEN "new" ELSE at[u]]
      /\ rerun' = [u \in TimelineUnits |-> IF u \in hit THEN rerun[u] + 1 ELSE rerun[u]]
      /\ UNCHANGED <<curves, silent>>
  BY DEF Crash
<1>2. rerun \in [TimelineUnits -> Nat] /\ at \in [TimelineUnits -> UnitPlaces]
  BY DEF RunsInv
<1>3. \A u \in TimelineUnits : rerun'[u] \in Nat /\ rerun[u] <= rerun'[u]
  BY <1>1, <1>2
<1>4. ExportInv'
  <2>1. \A c, x : \A u \in TimelineUnits : Belongs(c, x, u) => Belongs(c, x, u)'
    <3> SUFFICES ASSUME NEW c, NEW x, NEW u \in TimelineUnits, Belongs(c, x, u)
                 PROVE  Belongs(c, x, u)'
      OBVIOUS
    <3>1. 0..rerun[u] \subseteq 0..rerun'[u]
      BY <1>2, <1>3
    <3> QED BY <3>1 DEF Belongs
  <2>2. ASSUME NEW c \in CurveNames, NEW g \in Groups PROVE SeriesOK(c, g)'
    <3>1. SeriesOK(c, g)
      BY DEF ExportInv
    <3> QED BY <1>1, <2>1, <3>1 DEF SeriesOK, ScaleOf
  <2>3. ASSUME NEW c \in CurveNames PROVE ScalesOK(c)'
    BY <1>1 DEF ExportInv, ScalesOK
  <2> QED BY <2>2, <2>3 DEF ExportInv
<1>5. at' \in [TimelineUnits -> UnitPlaces] /\ rerun' \in [TimelineUnits -> Nat]
  BY <1>1, <1>2 DEF UnitPlaces
<1>6. ASSUME NEW u \in TimelineUnits, NEW k \in 0..(rerun'[u] - 1)
      PROVE  <<u, k>> \in blurred'
  <2>1. CASE k \in 0..(rerun[u] - 1)
    BY <1>1, <2>1 DEF RunsInv
  <2>2. CASE k \notin 0..(rerun[u] - 1)
    <3>1. u \in hit /\ k = rerun[u]
      BY <1>1, <1>2, <2>2
    <3> QED BY <1>1, <3>1
  <2> QED BY <2>1, <2>2
<1>7. ASSUME NEW u \in TimelineUnits, <<u, rerun'[u]>> \notin blurred', NEW g \in Groups
      PROVE  Shown(u, g)'
  <2>1. CASE u \in hit
    <3>1. rerun'[u] = rerun[u] + 1 /\ at'[u] = "new" /\ rerun[u] \in Nat
      BY <1>1, <1>2, <2>1
    <3>2. ASSUME NEW c \in CurveNames, NEW x \in curves[c][g].active
          PROVE  \E v \in TimelineUnits : Belongs(c, x, v)
      BY DEF ExportInv, SeriesOK
    <3>3. ASSUME NEW v \in TimelineUnits
          PROVE  /\ ~Belongs("waiters", <<u, rerun'[u]>>, v)
                 /\ ~Belongs("outbound", <<u, rerun'[u]>>, v)
                 /\ \A s : ~Belongs("pre_vlm", <<<<u, rerun'[u]>>, s>>, v)
      <4>1. rerun'[u] \notin 0..rerun[u]
        BY <3>1
      <4> QED BY <4>1 DEF Belongs
    <3>4. "pre_vlm" \in CurveNames /\ "waiters" \in CurveNames /\ "outbound" \in CurveNames
      BY DEF CurveNames
    <3>5. /\ <<u, rerun'[u]>> \notin curves["waiters"][g].active
          /\ <<u, rerun'[u]>> \notin curves["outbound"][g].active
          /\ \A s : <<<<u, rerun'[u]>>, s>> \notin curves["pre_vlm"][g].active
      BY <3>2, <3>3, <3>4
    <3> QED BY <1>1, <3>1, <3>5 DEF Shown
  <2>2. CASE u \notin hit
    <3>1. rerun'[u] = rerun[u] /\ at'[u] = at[u]
      BY <1>1, <1>2, <2>2
    <3>2. Shown(u, g)
      BY <1>1, <1>7, <3>1 DEF RunsInv
    <3> QED BY <1>1, <3>1, <3>2 DEF Shown
  <2> QED BY <2>1, <2>2
<1> QED BY <1>4, <1>5, <1>6, <1>7 DEF RunsInv

\* Every step keeps the export and the runs in step with each other.
LEMMA CurvesStep ==
  ExportInv /\ RunsInv /\ [TimelineNext]_timelineVars => ExportInv' /\ RunsInv'
<1> SUFFICES ASSUME ExportInv, RunsInv, [TimelineNext]_timelineVars
             PROVE  ExportInv' /\ RunsInv'
  OBVIOUS
<1>1. CASE UNCHANGED timelineVars
  BY <1>1 DEF timelineVars, ExportInv, SeriesOK, ScalesOK, Belongs, ScaleOf, RunsInv, Shown
<1>2. CASE Crash
  BY <1>2, CrashStep
<1>3. ASSUME NEW u \in TimelineUnits, UnitStep(u) PROVE ExportInv' /\ RunsInv'
  BY <1>3, SpanSteps, CallSteps, QuietSteps DEF UnitStep
<1> QED BY <1>1, <1>2, <1>3 DEF TimelineNext

\* As many calls as units that make them.
LEMMA CountCalls ==
  ASSUME NEW S, IsFiniteSet(S)
  PROVE  /\ IsFiniteSet({<<u, rerun[u]>> : u \in S})
         /\ Cardinality({<<u, rerun[u]>> : u \in S}) <= Cardinality(S)
<1> DEFINE T == {<<u, rerun[u]>> : u \in S}
           f == [u \in S |-> <<u, rerun[u]>>]
<1>1. f \in Surjection(S, T)
  BY DEF Surjection
<1> HIDE DEF T, f
<1>2. IsFiniteSet(T) /\ Cardinality(T) <= Cardinality(S)
  BY <1>1, FS_Surjection
<1> QED BY <1>2 DEF T

\* A step at which a unit keeps its permit, or keeps having none.
LEMMA SamePermits ==
  ASSUME PermitsInv, NEW u \in TimelineUnits, at \in [TimelineUnits -> UnitPlaces],
         NEW place, Go(u, place), UNCHANGED <<free, saturated>>, IsFiniteSet(blurred'),
         LET inside == {"admitted", "paced", "calling", "answered", "refused"}
         IN at[u] \in inside <=> place \in inside
  PROVE  PermitsInv'
<1>1. Inside' = Inside
  BY DEF Inside, Go
<1> QED BY <1>1 DEF PermitsInv

\* Semaphore of VlmScheduler: permits out are the units inside.
LEMMA PermitsStep ==
  RunsInv /\ PermitsInv /\ [TimelineNext]_timelineVars => PermitsInv'
<1> SUFFICES ASSUME RunsInv, PermitsInv, [TimelineNext]_timelineVars PROVE PermitsInv'
  OBVIOUS
<1>1. /\ at \in [TimelineUnits -> UnitPlaces] /\ IsFiniteSet(Inside) /\ IsFiniteSet(blurred)
      /\ Cardinality(Inside) \in Nat /\ Permits \in Nat /\ free \in Nat
      /\ free + Cardinality(Inside) = Permits
  <2>1. Inside \subseteq TimelineUnits
    BY DEF Inside
  <2> QED BY <2>1, TimelineAssumption, FS_Subset, FS_CardinalityType DEF RunsInv, PermitsInv
<1>2. ASSUME NEW u, NEW name, NEW phase, Emit(u, name, phase) PROVE IsFiniteSet(blurred')
  <2>1. CASE blurred' = blurred
    BY <1>1, <2>1
  <2>2. CASE \E x : blurred' = blurred \cup {x}
    <3>1. PICK x : blurred' = blurred \cup {x}
      BY <2>2
    <3>2. IsFiniteSet(blurred \cup {x})
      BY <1>1, FS_AddElement
    <3> QED BY <3>1, <3>2
  <2> QED BY <1>2, <2>1, <2>2 DEF Emit, Stored, Lost
<1>3. CASE UNCHANGED timelineVars
  BY <1>3 DEF timelineVars, PermitsInv, Inside
<1>4. CASE Crash
  <2> DEFINE hit == {u \in TimelineUnits : at[u] \notin {"new", "done"}}
             marked == {<<u, rerun[u]>> : u \in hit}
  <2>1. /\ free' = Permits /\ saturated' = saturated
        /\ blurred' = blurred \cup marked
        /\ at' = [u \in TimelineUnits |-> IF u \in hit THEN "new" ELSE at[u]]
    BY <1>4 DEF Crash
  <2>2. \A u \in TimelineUnits : at'[u] \in {"new", "done"}
    BY <2>1
  <2>3. Inside' = {}
    BY <2>2 DEF Inside
  <2>4. IsFiniteSet(hit)
    BY TimelineAssumption, FS_Subset
  <2> HIDE DEF hit
  <2>5. IsFiniteSet(marked)
    BY <2>4, CountCalls
  <2> HIDE DEF marked
  <2>6. IsFiniteSet(blurred')
    BY <1>1, <2>1, <2>5, FS_Union
  <2> QED BY <1>1, <2>1, <2>3, <2>6, FS_EmptySet DEF PermitsInv
<1>5. ASSUME NEW u \in TimelineUnits, Admitted(u) PROVE PermitsInv'
  <2>1. Inside' = Inside \cup {u} /\ u \notin Inside
    BY <1>1, <1>5 DEF Admitted, Go, Inside
  <2>2. Cardinality(Inside') = Cardinality(Inside) + 1
    BY <1>1, <2>1, FS_AddElement
  <2>3. /\ free > 0 /\ free' = free - 1 /\ saturated' = (saturated \/ free = 1)
        /\ blurred' = blurred
    BY <1>5 DEF Admitted
  <2>4. free' \in Nat /\ free' + Cardinality(Inside') = Permits
    BY <1>1, <2>2, <2>3
  <2>5. free' = 0 => saturated'
    <3>1. free' = 0 => free = 1
      BY <1>1, <2>3
    <3> QED BY <2>3, <3>1
  <2>6. saturated' \in BOOLEAN
    BY <2>3 DEF PermitsInv
  <2> QED BY <1>1, <2>3, <2>4, <2>5, <2>6 DEF PermitsInv
<1>6. ASSUME NEW u \in TimelineUnits, NEW next \in {"publishing", "ending", "attempt"},
             FreePermit(u, next)
      PROVE  PermitsInv'
  <2>1. Inside' = Inside \ {u} /\ u \in Inside
    BY <1>1, <1>6 DEF FreePermit, Go, Inside
  <2>2. Cardinality(Inside') = Cardinality(Inside) - 1
    BY <1>1, <2>1, FS_RemoveElement
  <2>3. free' = free + 1 /\ UNCHANGED <<saturated, blurred>>
    BY <1>6 DEF FreePermit
  <2>4. free' \in Nat /\ free' + Cardinality(Inside') = Permits /\ free' # 0
    BY <1>1, <2>2, <2>3
  <2> QED BY <1>1, <2>3, <2>4 DEF PermitsInv
<1>7. ASSUME NEW u \in TimelineUnits, EndsSilently(u) PROVE PermitsInv'
  BY <1>1, <1>7, SamePermits DEF EndsSilently
<1>8. ASSUME NEW u \in TimelineUnits, NEW stage \in StageNames,
             \/ SpanStarts(u, stage) \/ SpanFails(u, stage)
             \/ \E next \in {"before_media_refs_built", "before_detector_gate", "attempt",
                             "publishing", "ending"} : SpanFinishes(u, stage, next)
      PROVE  PermitsInv'
  <2>1. stage \in {"frame_select", "media_refs_built", "detector_gate"}
    BY StagesAre
  <2>2. /\ IsFiniteSet(blurred') /\ UNCHANGED <<free, saturated>>
        /\ at[u] \notin {"admitted", "paced", "calling", "answered", "refused"}
    BY <1>2, <1>8, <2>1 DEF SpanStarts, SpanFails, SpanFinishes, Before
  <2>3. PICK place \in {"frame_select", "media_refs_built", "detector_gate", "escaped",
                        "ending", "before_media_refs_built", "before_detector_gate",
                        "attempt", "publishing"} : Go(u, place)
    <3>1. CASE SpanStarts(u, stage)
      BY <2>1, <3>1 DEF SpanStarts
    <3>2. CASE SpanFails(u, stage)
      BY <3>2 DEF SpanFails
    <3>3. CASE \E next \in {"before_media_refs_built", "before_detector_gate", "attempt",
                            "publishing", "ending"} : SpanFinishes(u, stage, next)
      BY <3>3 DEF SpanFinishes
    <3> QED BY <1>8, <3>1, <3>2, <3>3
  <2> QED BY <1>1, <2>2, <2>3, SamePermits
<1>9. ASSUME NEW u \in TimelineUnits,
             \/ UnitBegins(u) \/ WaitStarts(u) \/ WaitFinishes(u) \/ CallStarts(u)
             \/ CallFinishes(u) \/ CallFails(u) \/ Publishes(u) \/ UnitFinishes(u)
      PROVE  PermitsInv'
  <2>1. IsFiniteSet(blurred') /\ UNCHANGED <<free, saturated>>
    BY <1>2, <1>9 DEF UnitBegins, WaitStarts, WaitFinishes, CallStarts, CallFinishes,
       CallFails, Publishes, UnitFinishes, EmitCall
  <2>2. PICK place : /\ Go(u, place)
                     /\ LET inside == {"admitted", "paced", "calling", "answered", "refused"}
                        IN at[u] \in inside <=> place \in inside
    BY <1>9 DEF UnitBegins, WaitStarts, WaitFinishes, CallStarts, CallFinishes, CallFails,
       Publishes, UnitFinishes
  <2> QED BY <1>1, <2>1, <2>2, SamePermits
<1> QED BY <1>3, <1>4, <1>5, <1>6, <1>7, <1>8, <1>9 DEF TimelineNext, UnitStep

\* Calls shown as outbound are under way, or of a run with incomplete events.
OutboundBound ==
  LET active == curves["outbound"]["all"].active
  IN /\ Cardinality(active) <= Permits + Cardinality(blurred)
     /\ Cardinality(active) >= Permits /\ Permits > 0 /\ blurred = {} => saturated

\* There are no more of them than permits and such runs.
LEMMA OutboundIsBounded == ExportInv /\ RunsInv /\ PermitsInv => OutboundBound
<1> SUFFICES ASSUME ExportInv, RunsInv, PermitsInv PROVE OutboundBound
  OBVIOUS
<1> DEFINE active == curves["outbound"]["all"].active
           calling == {u \in TimelineUnits : at[u] = "calling"}
           K == {<<u, rerun[u]>> : u \in calling}
<1>0. "outbound" \in CurveNames /\ "all" \in Groups
  BY DEF CurveNames, Groups
<1>1. /\ IsFiniteSet(Inside) /\ Cardinality(Inside) \in Nat /\ free \in Nat /\ Permits \in Nat
      /\ free + Cardinality(Inside) = Permits /\ IsFiniteSet(blurred)
      /\ Cardinality(blurred) \in Nat
  <2>1. Inside \subseteq TimelineUnits
    BY DEF Inside
  <2> QED BY <2>1, TimelineAssumption, FS_Subset, FS_CardinalityType DEF PermitsInv
<1>2. calling \subseteq Inside
  BY DEF Inside
<1>3. active \subseteq K \cup blurred
  <2> SUFFICES ASSUME NEW x \in active, x \notin blurred PROVE x \in K
    OBVIOUS
  <2>1. PICK u \in TimelineUnits : Belongs("outbound", x, u)
    BY <1>0 DEF ExportInv, SeriesOK
  <2>2. PICK k \in 0..rerun[u] : x = <<u, k>>
    BY <2>1 DEF Belongs
  <2>3. rerun[u] \in Nat /\ k \notin 0..(rerun[u] - 1)
    BY <2>2 DEF RunsInv
  <2>4. k = rerun[u]
    BY <2>3
  <2>5. at[u] = "calling"
    BY <1>0, <2>2, <2>4 DEF RunsInv, Shown
  <2> QED BY <2>2, <2>4, <2>5
<1>4. IsFiniteSet(calling) /\ Cardinality(calling) <= Cardinality(Inside)
  BY <1>1, <1>2, FS_Subset
<1> HIDE DEF calling
<1>5. IsFiniteSet(K) /\ Cardinality(K) <= Cardinality(calling)
  BY <1>4, CountCalls
<1> HIDE DEF K, active
<1>6. /\ Cardinality(K) \in Nat /\ Cardinality(calling) \in Nat
      /\ Cardinality(K) <= Permits - free
  <2>1. Cardinality(K) \in Nat /\ Cardinality(calling) \in Nat
    BY <1>4, <1>5, FS_CardinalityType
  <2> QED BY <1>1, <1>4, <1>5, <2>1
<1>7. /\ IsFiniteSet(K \cup blurred)
      /\ Cardinality(K \cup blurred) <= Cardinality(K) + Cardinality(blurred)
  <2>1. IsFiniteSet(K \cap blurred)
    BY <1>5, FS_Intersection
  <2>2. Cardinality(K \cap blurred) \in Nat
    BY <2>1, FS_CardinalityType
  <2>3. /\ IsFiniteSet(K \cup blurred)
        /\ Cardinality(K \cup blurred) =
             Cardinality(K) + Cardinality(blurred) - Cardinality(K \cap blurred)
    BY <1>1, <1>5, FS_Union
  <2> QED BY <1>1, <1>6, <2>2, <2>3
<1>8. IsFiniteSet(active) /\ Cardinality(active) <= Cardinality(K \cup blurred)
  BY <1>3, <1>7, FS_Subset
<1>9. Cardinality(active) \in Nat /\ Cardinality(K \cup blurred) \in Nat
  BY <1>7, <1>8, FS_CardinalityType
<1>10. Cardinality(active) <= Permits + Cardinality(blurred)
  BY <1>1, <1>6, <1>7, <1>8, <1>9
<1>11. Cardinality(active) >= Permits /\ Permits > 0 /\ blurred = {} => saturated
  <2> SUFFICES ASSUME Cardinality(active) >= Permits, Permits > 0, blurred = {}
               PROVE  saturated
    OBVIOUS
  <2>1. K \cup blurred = K
    OBVIOUS
  <2>2. free = 0
    BY <1>1, <1>6, <1>8, <1>9, <2>1
  <2> QED BY <2>2 DEF PermitsInv
<1> QED BY <1>10, <1>11 DEF OutboundBound, active

\* The peak of outbound calls moves only to what is under way.
LEMMA PeakStep ==
  /\ ExportInv /\ ExportInv' /\ PermitsInv /\ PermitsInv'
  /\ OutboundInv /\ OutboundBound' /\ [TimelineNext]_timelineVars
  => OutboundInv'
<1> SUFFICES ASSUME ExportInv, ExportInv', PermitsInv, PermitsInv', OutboundInv,
                    OutboundBound', [TimelineNext]_timelineVars
             PROVE  OutboundInv'
  OBVIOUS
<1>0. "outbound" \in CurveNames /\ "all" \in Groups
  BY DEF CurveNames, Groups
<1>m. \A u, name, phase : Emit(u, name, phase) =>
        /\ blurred \subseteq blurred'
        /\ curves' = curves \/ \E e : curves' = Fold(curves, e)
  BY DEF Emit, Stored, Lost
<1>1. blurred \subseteq blurred' /\ (saturated => saturated')
      /\ (curves' = curves \/ \E e : curves' = Fold(curves, e))
  <2>1. CASE UNCHANGED timelineVars
    BY <2>1 DEF timelineVars
  <2>2. CASE Crash
    BY <2>2 DEF Crash
  <2>3. ASSUME NEW u, Admitted(u) \/ EndsSilently(u) \/ \E next : FreePermit(u, next)
        PROVE  blurred \subseteq blurred' /\ (saturated => saturated') /\ curves' = curves
    <3>1. CASE Admitted(u)
      <4>1. blurred' = blurred /\ curves' = curves /\ saturated' = (saturated \/ free = 1)
        BY <3>1 DEF Admitted
      <4> QED BY <4>1, Zenon
    <3>2. CASE EndsSilently(u) \/ \E next : FreePermit(u, next)
      BY <3>2 DEF EndsSilently, FreePermit
    <3> QED BY <2>3, <3>1, <3>2
  <2>4. ASSUME NEW u,
               \/ UnitBegins(u) \/ WaitStarts(u) \/ WaitFinishes(u) \/ CallStarts(u)
               \/ CallFinishes(u) \/ CallFails(u) \/ Publishes(u) \/ UnitFinishes(u)
               \/ \E stage : \/ SpanStarts(u, stage) \/ SpanFails(u, stage)
                             \/ \E next : SpanFinishes(u, stage, next)
        PROVE  saturated' = saturated /\ \E name, phase : Emit(u, name, phase)
    BY <2>4 DEF UnitBegins, WaitStarts, WaitFinishes, CallStarts, CallFinishes, CallFails,
       Publishes, UnitFinishes, SpanStarts, SpanFails, SpanFinishes, EmitCall
  <2>5. ASSUME NEW u \in TimelineUnits, UnitStep(u)
        PROVE  /\ blurred \subseteq blurred' /\ (saturated => saturated')
               /\ curves' = curves \/ \E e : curves' = Fold(curves, e)
    BY <1>m, <2>3, <2>4, <2>5 DEF UnitStep
  <2> QED BY <2>1, <2>2, <2>5 DEF TimelineNext
<1> DEFINE p == curves["outbound"]["all"].peak
           q == curves'["outbound"]["all"].peak
           n == Cardinality(curves'["outbound"]["all"].active)
           b == Cardinality(blurred)
           bb == Cardinality(blurred')
<1>3. /\ p \in Nat /\ q \in Nat /\ n \in Nat /\ b \in Nat /\ bb \in Nat /\ b <= bb
      /\ Permits \in Nat
  <2>1. p \in Nat /\ q \in Nat /\ IsFiniteSet(curves'["outbound"]["all"].active)
    BY <1>0 DEF ExportInv, SeriesOK
  <2>2. IsFiniteSet(blurred) /\ IsFiniteSet(blurred')
    BY DEF PermitsInv
  <2> QED BY <1>1, <2>1, <2>2, FS_Subset, FS_CardinalityType, TimelineAssumption
<1>4. q = p \/ q = n
  <2>1. CASE curves' = curves
    BY <2>1
  <2>2. ASSUME NEW e, curves' = Fold(curves, e) PROVE q = p \/ q = n
    <3>1. q = Max({p, n})
      BY <1>0, <2>2, FoldStep
    <3> HIDE DEF p, q, n
    <3> QED BY <1>3, <3>1, MaxOfTwo
  <2> QED BY <1>1, <2>1, <2>2
<1>5. /\ p <= Permits + b /\ n <= Permits + bb
      /\ p >= Permits /\ Permits > 0 /\ blurred = {} => saturated
      /\ n >= Permits /\ Permits > 0 /\ blurred' = {} => saturated'
  BY DEF OutboundInv, OutboundBound
<1>6. blurred' = {} => blurred = {}
  BY <1>1
<1> HIDE DEF p, q, n, b, bb
<1>7. q <= Permits + bb
  BY <1>3, <1>4, <1>5
<1>8. q >= Permits /\ Permits > 0 /\ blurred' = {} => saturated'
  BY <1>1, <1>4, <1>5, <1>6
<1> QED BY <1>7, <1>8 DEF OutboundInv, q, bb

\* The timeline starts empty.
LEMMA TimelineStart == TimelineInit => TimelineInv
<1> SUFFICES ASSUME TimelineInit PROVE TimelineInv
  OBVIOUS
<1>1. \A c \in CurveNames, g \in Groups : curves[c][g].active = {} /\ curves[c][g].peak = 0
  BY DEF TimelineInit
<1>2. ExportInv
  <2>1. ASSUME NEW c \in CurveNames, NEW g \in Groups PROVE SeriesOK(c, g)
    <3>1. curves[c][g].active = {} /\ curves[c][g].peak = 0
      BY <1>1
    <3>2. Cardinality(curves[c][g].active) = 0 /\ IsFiniteSet(curves[c][g].active)
      BY <3>1, FS_EmptySet
    <3> QED BY <3>1, <3>2 DEF SeriesOK
  <2>2. ASSUME NEW c \in CurveNames PROVE ScalesOK(c)
    <3>1. \A g \in Groups : curves[c][g].active = {} /\ curves[c][g].peak = 0
      BY <1>1
    <3>2. "all" \in Groups /\ "default_segment" \in Groups /\ "high_freq_event" \in Groups
          /\ Scales \subseteq Groups
      BY DEF Groups, Scales
    <3> QED BY <3>1, <3>2 DEF ScalesOK
  <2> QED BY <2>1, <2>2 DEF ExportInv
<1>3. RunsInv
  BY <1>1 DEF TimelineInit, RunsInv, Shown, UnitPlaces, CurveNames
<1>4. Inside = {}
  BY DEF TimelineInit, Inside
<1>5. PermitsInv
  <2>1. free = Permits /\ Permits \in Nat /\ Cardinality(Inside) = 0 /\ saturated = FALSE
        /\ IsFiniteSet(blurred)
    BY <1>4, FS_EmptySet, TimelineAssumption DEF TimelineInit
  <2>2. free \in Nat /\ free + Cardinality(Inside) = Permits /\ ~(free = 0 /\ Permits > 0)
    BY <2>1
  <2>3. saturated \in BOOLEAN
    BY <2>1
  <2> QED BY <2>1, <2>2, <2>3 DEF PermitsInv
<1>6. OutboundInv
  BY <1>1, FS_EmptySet, TimelineAssumption DEF TimelineInit, OutboundInv, CurveNames, Groups
<1> QED BY <1>2, <1>3, <1>5, <1>6 DEF TimelineInv

\* The invariant of the timeline and its export.
THEOREM TimelineInvHolds == TimelineSpec => []TimelineInv
<1>1. ExportInv /\ RunsInv /\ PermitsInv /\ [TimelineNext]_timelineVars
      => (ExportInv /\ RunsInv /\ PermitsInv)'
  BY CurvesStep, PermitsStep
<1>2. TimelineInit => ExportInv /\ RunsInv /\ PermitsInv /\ OutboundInv
  BY TimelineStart DEF TimelineInv
<1>3. TimelineSpec => [](ExportInv /\ RunsInv /\ PermitsInv)
  BY <1>1, <1>2, PTL DEF TimelineSpec
<1>4. TimelineSpec => []OutboundBound
  BY <1>3, OutboundIsBounded, PTL
<1>5. TimelineSpec => []OutboundInv
  BY <1>2, <1>3, <1>4, PeakStep, PTL DEF TimelineSpec
<1>6. ExportInv /\ RunsInv /\ PermitsInv /\ OutboundInv => TimelineInv
  BY DEF TimelineInv
<1> QED BY <1>3, <1>5, <1>6, PTL

\* A unit that has ended is gone from every curve of the export, whatever the
\* order of the events, for any number of units, retries, lost events and deaths
\* (TimelineRecorder.event, _series_for_active_keys, _stage_series).
THEOREM EndedUnits == TimelineSpec => []EndedUnitsAreClosed
<1>1. TimelineInv => EndedUnitsAreClosed
  <2> SUFFICES ASSUME RunsInv PROVE EndedUnitsAreClosed
    BY DEF TimelineInv
  <2> SUFFICES ASSUME NEW u \in TimelineUnits, at[u] = "done", <<u, rerun[u]>> \notin blurred,
                      NEW g \in Groups
               PROVE  /\ u \notin silent => u \notin curves["units"][g].active
                      /\ \A c \in {"waiters", "outbound"} :
                           <<u, rerun[u]>> \notin curves[c][g].active
                      /\ \A s \in StageNames :
                           <<<<u, rerun[u]>>, s>> \notin curves["pre_vlm"][g].active
    BY DEF EndedUnitsAreClosed
  <2>1. Shown(u, g)
    BY DEF RunsInv
  <2>2. "done" \notin StageNames
    BY StagesAre
  <2> QED BY <2>1, <2>2 DEF Shown
<1> QED BY <1>1, TimelineInvHolds, PTL

\* The exported peak of outbound calls exceeds the cap at most by the runs whose
\* events are incomplete, the saturation hint is true, and peaks and scales agree
\* (_aggregate_summary, _group_summary, _bottleneck_hints).
THEOREM Peaks == TimelineSpec => []PeaksAreReal
<1>1. TimelineInv => PeaksAreReal
  <2> SUFFICES ASSUME ExportInv, OutboundInv PROVE PeaksAreReal
    BY DEF TimelineInv
  <2>1. curves["outbound"]["all"].peak <= Permits + Cardinality(blurred)
    BY DEF OutboundInv
  <2>2. "saturated" \in Hints(Permits) =>
          Permits > 0 /\ curves["outbound"]["all"].peak >= Permits
    BY DEF Hints, Peak
  <2>3. "saturated" \in Hints(Permits) /\ blurred = {} => saturated
    BY <2>2 DEF OutboundInv
  <2>4. \A c \in CurveNames : ScalesOK(c)
    BY DEF ExportInv
  <2> QED BY <2>1, <2>3, <2>4 DEF PeaksAreReal, ScalesOK, Peak
<1> QED BY <1>1, TimelineInvHolds, PTL

-----------------------------------------------------------------------------
(* The vector index. *)

\* A vector that was computed from the text of its own record and channel.
Faithful(v) ==
  /\ v \in [rec : Nat, channel : Channels, model : Int, text : Nat \X Channels]
  /\ v.text = <<v.rec, v.channel>>

HasRow(store, r, c, m) ==
  \E v \in store : v.rec = r /\ v.channel = c /\ v.model = m

\* What is committed.  The pairs of the last successful reindex are stored under
\* its model as long as their records live; SQLite has one row for each pair.
StoreInv ==
  /\ backend \in Backends /\ model \in Int
  /\ issued \in Nat /\ alive \subseteq 1..issued
  /\ IsFiniteSet(vectors) /\ \A v \in vectors : Faithful(v)
  /\ backend = "sqlite" =>
       \A v, w \in vectors : v.rec = w.rec /\ v.channel = w.channel => v = w
  /\ covered.model \in Int /\ covered.records \subseteq 1..issued
  /\ \A r \in covered.records \cap alive, c \in Channels :
       HasRow(vectors, r, c, covered.model)

\* A listed record that lives has the pair in what the session sees, ...
PairSeen(i, c) ==
  reindex.pool[i] \in alive =>
    HasRow(Upserted(vectors, reindex.own), reindex.pool[i], c, model)

\* ... once its batch is over, and is else among the pairs of the batch under way.
SessionInv ==
  /\ DOMAIN reindex = {"pc", "force", "pool", "at", "own", "pending", "tries"}
  /\ reindex.pc \in {"batch", "embed", "write"}
  /\ reindex.pool \in Seq(1..issued) /\ reindex.at \in Nat
  /\ IsFiniteSet(reindex.own)
  /\ \A v \in reindex.own : Faithful(v) /\ v.model = model
  /\ \A i \in 1..Len(reindex.pool), c \in Channels : i <= reindex.at => PairSeen(i, c)
  /\ reindex.pc = "embed" =>
       /\ reindex.pending \in Seq(Nat \X Channels)
       /\ \A i \in 1..Len(reindex.pool), c \in Channels :
            i <= reindex.at + BatchSize =>
              \/ PairSeen(i, c)
              \/ \E j \in 1..Len(reindex.pending) :
                   reindex.pending[j] = <<reindex.pool[i], c>>
  /\ reindex.pc = "write" =>
       /\ DOMAIN reindex.pending = 1..Len(reindex.pending)
       /\ Len(reindex.pending) \in Nat
       /\ \A j \in 1..Len(reindex.pending) :
            Faithful(reindex.pending[j]) /\ reindex.pending[j].model = model
       /\ \A i \in 1..Len(reindex.pool), c \in Channels :
            i <= reindex.at + BatchSize =>
              \/ PairSeen(i, c)
              \/ \E j \in 1..Len(reindex.pending) :
                   /\ reindex.pending[j].rec = reindex.pool[i]
                   /\ reindex.pending[j].channel = c

VectorInv == StoreInv /\ (Running => SessionInv)

\* The elements below one of a finite total order.
Down(S, R, k) == {j \in S : <<j, k>> \in R}

\* Numbering the elements of a finite totally ordered set by how many are not
\* above them uses every number once.
LEMMA Ranks ==
  ASSUME NEW S, IsFiniteSet(S), NEW R,
         \A a \in S : <<a, a>> \in R,
         \A a, b \in S : <<a, b>> \in R \/ <<b, a>> \in R,
         \A a, b \in S : <<a, b>> \in R /\ <<b, a>> \in R => a = b,
         \A a, b, c \in S : <<a, b>> \in R /\ <<b, c>> \in R => <<a, c>> \in R
  PROVE  /\ Cardinality(S) \in Nat
         /\ \A k \in S : Cardinality(Down(S, R, k)) \in 1..Cardinality(S)
         /\ \A i \in 1..Cardinality(S) :
              \E k \in S : Cardinality(Down(S, R, k)) = i
         /\ \A j, k \in S :
              Cardinality(Down(S, R, j)) = Cardinality(Down(S, R, k)) => j = k
<1> DEFINE n == Cardinality(S)
           f == [k \in S |-> Cardinality(Down(S, R, k))]
<1>1. n \in Nat
  BY FS_CardinalityType
<1>2. \A k \in S : /\ IsFiniteSet(Down(S, R, k))
                   /\ Cardinality(Down(S, R, k)) \in Nat
                   /\ Cardinality(Down(S, R, k)) <= n
  <2> TAKE k \in S
  <2>1. Down(S, R, k) \in SUBSET S
    BY DEF Down
  <2>2. IsFiniteSet(Down(S, R, k)) /\ Cardinality(Down(S, R, k)) <= n
    BY <2>1, FS_Subset
  <2> QED BY <2>2, FS_CardinalityType
<1>3. \A k \in S : Cardinality(Down(S, R, k)) # 0
  <2> TAKE k \in S
  <2>1. k \in Down(S, R, k)
    BY DEF Down
  <2> QED BY <1>2, <2>1, FS_EmptySet
<1>4. \A k \in S : f[k] \in 1..n
  BY <1>1, <1>2, <1>3
<1>5. \A a, b \in S : <<a, b>> \in R /\ a # b => f[a] # f[b]
  <2> SUFFICES ASSUME NEW a \in S, NEW b \in S, <<a, b>> \in R, a # b, f[a] = f[b]
               PROVE  FALSE
    OBVIOUS
  <2>1. Down(S, R, a) \in SUBSET Down(S, R, b)
    BY DEF Down
  <2>2. Cardinality(Down(S, R, b)) = Cardinality(Down(S, R, a))
    OBVIOUS
  <2>3. Down(S, R, b) = Down(S, R, a)
    BY <1>2, <2>1, <2>2, FS_Subset
  <2>4. b \in Down(S, R, b) /\ b \notin Down(S, R, a)
    BY DEF Down
  <2> QED BY <2>3, <2>4
<1>6. \A a, b \in S : f[a] = f[b] => a = b
  <2> SUFFICES ASSUME NEW a \in S, NEW b \in S, f[a] = f[b], a # b
               PROVE  FALSE
    OBVIOUS
  <2>1. CASE <<a, b>> \in R
    BY <1>5, <2>1
  <2>2. CASE <<b, a>> \in R
    BY <1>5, <2>2
  <2> QED BY <2>1, <2>2
<1>7. f \in [S -> 1..n]
  BY <1>4
<1>8. f \in Injection(S, 1..n)
  BY <1>6, <1>7 DEF Injection, IsInjective
<1>9. IsFiniteSet(1..n) /\ Cardinality(1..n) = n
  BY <1>1, FS_Interval
<1>10. f \in Surjection(S, 1..n)
  BY <1>8, <1>9, FS_Injection
<1>11. \A i \in 1..n : \E k \in S : f[k] = i
  BY <1>10 DEF Surjection
<1> QED BY <1>1, <1>4, <1>6, <1>11

\* The position of an answer in the provider's list does not matter.
LEMMA ParsedInInputOrder ==
  ASSUME NEW n \in Nat, NEW a \in Answers(n), NEW i \in 1..n
  PROVE  ParseResponse(a)[i] = i
<1>1. /\ DOMAIN a = 1..n
      /\ \A p \in 1..n : a[p].index \in 1..n /\ a[p].input = a[p].index
      /\ \E p \in 1..n : a[p].index = i
  <2>1. CASE a = [j \in 1..n |-> [index |-> j, input |-> j]]
    BY <2>1
  <2>2. CASE a = [j \in 1..n |-> [index |-> n + 1 - j, input |-> n + 1 - j]]
    <3>1. DOMAIN a = 1..n
      BY <2>2
    <3>2. \A p \in 1..n : n + 1 - p \in 1..n
      OBVIOUS
    <3>3. \A p \in 1..n : a[p].index = n + 1 - p /\ a[p].input = n + 1 - p
      BY <2>2
    <3>4. n + 1 - (n + 1 - i) = i
      OBVIOUS
    <3> QED BY <3>1, <3>2, <3>3, <3>4
  <2> QED BY <2>1, <2>2 DEF Answers
<1> DEFINE p == CHOOSE q \in DOMAIN a : a[q].index = i
<1>2. p \in 1..n /\ a[p].index = i
  BY <1>1
<1>3. ParseResponse(a)[i] = a[p].input
  BY <1>1 DEF ParseResponse
<1> QED BY <1>1, <1>2, <1>3

\* The candidate pool lists records that live, the oldest ones each in one place.
LEMMA PoolLists ==
  ASSUME StoreInv
  PROVE  /\ Pool \in Seq(alive)
         /\ \A r \in alive : Cardinality({s \in alive : s <= r}) <= PoolLimit =>
              \E i \in 1..Len(Pool) : Pool[i] = r
<1> DEFINE oldest == {r \in alive : Cardinality({s \in alive : s <= r}) <= PoolLimit}
           R == {p \in oldest \X oldest : p[1] <= p[2]}
<1>1. issued \in Nat /\ alive \subseteq 1..issued
  BY DEF StoreInv
<1>2. oldest \subseteq alive
  OBVIOUS
<1>3. oldest \subseteq Nat /\ IsFiniteSet(oldest)
  <2> HIDE DEF oldest
  <2>1. oldest \in SUBSET (1..issued)
    BY <1>1, <1>2
  <2>2. IsFiniteSet(1..issued)
    BY <1>1, FS_Interval
  <2>3. IsFiniteSet(oldest)
    BY <2>1, <2>2, FS_Subset
  <2>4. oldest \subseteq Nat
    BY <1>1, <2>1
  <2> QED BY <2>3, <2>4
<1>4. \A k \in oldest : Down(oldest, R, k) = {s \in oldest : s <= k}
  BY DEF Down
<1>5. Pool = [i \in 1..Cardinality(oldest) |->
                CHOOSE r \in oldest : Cardinality({s \in oldest : s <= r}) = i]
  BY DEF Pool
<1>6. /\ \A a \in oldest : <<a, a>> \in R
      /\ \A a, b \in oldest : <<a, b>> \in R \/ <<b, a>> \in R
      /\ \A a, b \in oldest : <<a, b>> \in R /\ <<b, a>> \in R => a = b
      /\ \A a, b, c \in oldest : <<a, b>> \in R /\ <<b, c>> \in R => <<a, c>> \in R
  <2>1. \A a, b \in oldest : <<a, b>> \in R <=> a <= b
    OBVIOUS
  <2>2. \A a, b, c \in Nat : /\ a <= a /\ (a <= b \/ b <= a)
                             /\ (a <= b /\ b <= a => a = b)
                             /\ (a <= b /\ b <= c => a <= c)
    OBVIOUS
  <2> HIDE DEF R, oldest
  <2> QED BY <1>3, <2>1, <2>2
<1> HIDE DEF R, oldest
<1>7. /\ Cardinality(oldest) \in Nat
      /\ \A k \in oldest : Cardinality(Down(oldest, R, k)) \in 1..Cardinality(oldest)
      /\ \A i \in 1..Cardinality(oldest) :
           \E k \in oldest : Cardinality(Down(oldest, R, k)) = i
      /\ \A j, k \in oldest :
           Cardinality(Down(oldest, R, j)) = Cardinality(Down(oldest, R, k)) => j = k
  BY <1>3, <1>6, Ranks
<1>8. \A i \in 1..Cardinality(oldest) :
        Pool[i] \in oldest /\ Cardinality({s \in oldest : s <= Pool[i]}) = i
  <2> SUFFICES ASSUME NEW i \in 1..Cardinality(oldest)
               PROVE  Pool[i] \in oldest /\ Cardinality({s \in oldest : s <= Pool[i]}) = i
    OBVIOUS
  <2>1. \E k \in oldest : Cardinality({s \in oldest : s <= k}) = i
    BY <1>4, <1>7
  <2>2. Pool[i] = CHOOSE r \in oldest : Cardinality({s \in oldest : s <= r}) = i
    BY <1>5
  <2> HIDE DEF Pool
  <2> QED BY <2>1, <2>2
<1>9. Pool \in Seq(alive) /\ Len(Pool) = Cardinality(oldest)
  <2>1. Pool \in [1..Cardinality(oldest) -> alive]
    BY <1>2, <1>5, <1>8
  <2> QED BY <1>7, <2>1
<1>10. \A r \in oldest : \E i \in 1..Len(Pool) : Pool[i] = r
  <2> SUFFICES ASSUME NEW r \in oldest
               PROVE  \E i \in 1..Len(Pool) : Pool[i] = r
    OBVIOUS
  <2> DEFINE i == Cardinality(Down(oldest, R, r))
  <2>1. i \in 1..Cardinality(oldest)
    BY <1>7
  <2>2. Pool[i] \in oldest /\ Cardinality(Down(oldest, R, Pool[i])) = i
    BY <1>4, <1>8, <2>1
  <2>3. Pool[i] = r
    BY <1>7, <2>2
  <2> QED BY <1>9, <2>1, <2>3
<1> QED BY <1>9, <1>10 DEF oldest

\* The order of the pairs of a batch: records by id, static before dynamic.
PairBefore(a, b) == a[1] < b[1] \/ (a[1] = b[1] /\ (a = b \/ a[2] = "static"))

\* It is total on pairs of records and channels.
LEMMA PairsOrdered ==
  /\ \A a \in Nat \X Channels : PairBefore(a, a)
  /\ \A a, b \in Nat \X Channels : PairBefore(a, b) \/ PairBefore(b, a)
  /\ \A a, b \in Nat \X Channels : PairBefore(a, b) /\ PairBefore(b, a) => a = b
  /\ \A a, b, c \in Nat \X Channels :
       PairBefore(a, b) /\ PairBefore(b, c) => PairBefore(a, c)
<1>1. \A a \in Nat \X Channels :
        a[1] \in Nat /\ a[2] \in {"static", "dynamic"} /\ a = <<a[1], a[2]>>
  BY DEF Channels
<1>2. \A a, b \in Nat \X Channels : a[1] = b[1] /\ a[2] = b[2] => a = b
  BY <1>1
<1>3. \A a \in Nat \X Channels : PairBefore(a, a)
  BY DEF PairBefore
<1>4. \A a, b \in Nat \X Channels : PairBefore(a, b) \/ PairBefore(b, a)
  BY <1>1, <1>2 DEF PairBefore
<1>5. \A a, b \in Nat \X Channels : PairBefore(a, b) /\ PairBefore(b, a) => a = b
  BY <1>1, <1>2 DEF PairBefore
<1>6. \A a, b, c \in Nat \X Channels :
        PairBefore(a, b) /\ PairBefore(b, c) => PairBefore(a, c)
  BY <1>1, <1>2 DEF PairBefore
<1> QED BY <1>3, <1>4, <1>5, <1>6

\* A batch embeds every pair of its records that the session does not see under
\* the current model.
LEMMA PendingLists ==
  ASSUME StoreInv, Running, SessionInv
  PROVE  /\ PendingKeys \in Seq(Nat \X Channels)
         /\ \A i \in 1..Len(reindex.pool), c \in Channels :
              i <= reindex.at + BatchSize =>
                \/ PairSeen(i, c)
                \/ \E j \in 1..Len(PendingKeys) : PendingKeys[j] = <<reindex.pool[i], c>>
<1> DEFINE there == {<<v.rec, v.channel>> :
                         v \in {w \in StoredFor(BatchRecords) : w.model = model}}
           missing == {k \in BatchRecords \X Channels : reindex.force \/ k \notin there}
           R == {p \in missing \X missing : PairBefore(p[1], p[2])}
<1>1. /\ issued \in Nat /\ BatchSize \in Nat /\ reindex.at \in Nat
      /\ reindex.pool \in Seq(1..issued) /\ Len(reindex.pool) \in Nat
      /\ \A i \in 1..Len(reindex.pool) : reindex.pool[i] \in 1..issued
  BY VectorAssumption DEF StoreInv, SessionInv
<1>2. /\ BatchRecords \subseteq 1..issued
      /\ \A i \in 1..Len(reindex.pool) :
           reindex.at < i /\ i <= reindex.at + BatchSize => reindex.pool[i] \in BatchRecords
  <2> DEFINE ends == {reindex.at + BatchSize, Len(reindex.pool)}
             last == Min(ends)
  <2>1. last \in ends /\ \A e \in ends : last <= e
    <3>1. \E x \in ends : \A y \in ends : x <= y
      <4>1. CASE reindex.at + BatchSize <= Len(reindex.pool)
        BY <1>1, <4>1
      <4>2. CASE ~(reindex.at + BatchSize <= Len(reindex.pool))
        BY <1>1, <4>2
      <4> QED BY <4>1, <4>2
    <3> QED BY <3>1 DEF Min
  <2>2. BatchRecords = {reindex.pool[i] : i \in reindex.at + 1 .. last}
    BY DEF BatchRecords
  <2>3. last \in Nat /\ last <= Len(reindex.pool) /\ last <= reindex.at + BatchSize
    BY <1>1, <2>1
  <2>4. \A i \in 1..Len(reindex.pool) :
          reindex.at < i /\ i <= reindex.at + BatchSize => i \in reindex.at + 1 .. last
    BY <1>1, <2>1, <2>3
  <2>5. \A i \in reindex.at + 1 .. last : i \in 1..Len(reindex.pool)
    BY <1>1, <2>3
  <2> HIDE DEF last
  <2> QED BY <1>1, <2>2, <2>4, <2>5
<1>3. IsFiniteSet(missing) /\ missing \subseteq Nat \X Channels
  <2>1. IsFiniteSet(1..issued)
    <3>1. 1 \in Int /\ issued \in Int
      BY <1>1
    <3> QED BY ONLY <3>1, FS_Interval
  <2>2. IsFiniteSet(Channels)
    <3>1. IsFiniteSet({} \cup {"static"})
      BY FS_EmptySet, FS_AddElement
    <3>2. IsFiniteSet(({} \cup {"static"}) \cup {"dynamic"})
      BY <3>1, FS_AddElement
    <3>3. Channels = ({} \cup {"static"}) \cup {"dynamic"}
      BY DEF Channels
    <3> QED BY <3>2, <3>3
  <2>3. IsFiniteSet((1..issued) \X Channels)
    BY <2>1, <2>2, FS_Product
  <2>4. missing \in SUBSET ((1..issued) \X Channels)
    BY <1>2
  <2> QED BY <2>3, <2>4, FS_Subset
<1>4. PendingKeys = [i \in 1..Cardinality(missing) |->
        CHOOSE k \in missing : Cardinality({j \in missing : PairBefore(j, k)}) = i]
  BY DEF PendingKeys, PairBefore
<1>5. \A k \in missing : Down(missing, R, k) = {j \in missing : PairBefore(j, k)}
  BY DEF Down
<1>6. \A r \in BatchRecords, c \in Channels :
        <<r, c>> \notin missing =>
          HasRow(Upserted(vectors, reindex.own), r, c, model)
  <2> SUFFICES ASSUME NEW r \in BatchRecords, NEW c \in Channels, <<r, c>> \notin missing
               PROVE  HasRow(Upserted(vectors, reindex.own), r, c, model)
    OBVIOUS
  <2>1. <<r, c>> \in there
    OBVIOUS
  <2>2. PICK v \in StoredFor(BatchRecords) :
          v.model = model /\ <<r, c>> = <<v.rec, v.channel>>
    BY <2>1
  <2>3. v \in Upserted(vectors, reindex.own)
    BY DEF StoredFor
  <2> QED BY <2>2, <2>3 DEF HasRow
<1>7. \A a, b \in missing : <<a, b>> \in R <=> PairBefore(a, b)
  OBVIOUS
<1> HIDE DEF R, missing
<1>8. /\ \A a \in missing : <<a, a>> \in R
      /\ \A a, b \in missing : <<a, b>> \in R \/ <<b, a>> \in R
      /\ \A a, b \in missing : <<a, b>> \in R /\ <<b, a>> \in R => a = b
      /\ \A a, b, c \in missing : <<a, b>> \in R /\ <<b, c>> \in R => <<a, c>> \in R
  <2>1. \A a \in missing : a \in Nat \X Channels
    BY <1>3
  <2> QED BY <1>7, <2>1, PairsOrdered
<1>9. /\ Cardinality(missing) \in Nat
      /\ \A k \in missing : Cardinality(Down(missing, R, k)) \in 1..Cardinality(missing)
      /\ \A i \in 1..Cardinality(missing) :
           \E k \in missing : Cardinality(Down(missing, R, k)) = i
      /\ \A j, k \in missing :
           Cardinality(Down(missing, R, j)) = Cardinality(Down(missing, R, k)) => j = k
  BY <1>3, <1>8, Ranks
<1>10. \A i \in 1..Cardinality(missing) :
         PendingKeys[i] \in missing /\ Cardinality(Down(missing, R, PendingKeys[i])) = i
  BY <1>4, <1>5, <1>9
<1>11. PendingKeys \in Seq(Nat \X Channels) /\ Len(PendingKeys) = Cardinality(missing)
  <2>1. PendingKeys \in [1..Cardinality(missing) -> Nat \X Channels]
    BY <1>3, <1>4, <1>10
  <2> QED BY <1>9, <2>1
<1>12. \A k \in missing : \E j \in 1..Len(PendingKeys) : PendingKeys[j] = k
  <2> SUFFICES ASSUME NEW k \in missing
               PROVE  \E j \in 1..Len(PendingKeys) : PendingKeys[j] = k
    OBVIOUS
  <2> DEFINE j == Cardinality(Down(missing, R, k))
  <2>1. j \in 1..Cardinality(missing)
    BY <1>9
  <2>2. PendingKeys[j] \in missing /\ Cardinality(Down(missing, R, PendingKeys[j])) = j
    BY <1>10, <2>1
  <2>3. PendingKeys[j] = k
    BY <1>9, <2>2
  <2> QED BY <1>11, <2>1, <2>3
<1>13. \A i \in 1..Len(reindex.pool), c \in Channels :
         i <= reindex.at + BatchSize =>
           \/ PairSeen(i, c)
           \/ \E j \in 1..Len(PendingKeys) : PendingKeys[j] = <<reindex.pool[i], c>>
  <2> SUFFICES ASSUME NEW i \in 1..Len(reindex.pool), NEW c \in Channels,
                      i <= reindex.at + BatchSize, ~PairSeen(i, c)
               PROVE  \E j \in 1..Len(PendingKeys) : PendingKeys[j] = <<reindex.pool[i], c>>
    OBVIOUS
  <2>1. reindex.at < i
    <3>1. ~(i <= reindex.at)
      BY DEF SessionInv
    <3> QED BY <1>1, <3>1
  <2>2. reindex.pool[i] \in BatchRecords
    BY <1>2, <2>1
  <2>3. <<reindex.pool[i], c>> \in missing
    BY <1>6, <2>2 DEF PairSeen
  <2> QED BY <1>12, <2>3
<1> QED BY <1>11, <1>13

-----------------------------------------------------------------------------

\* A store with one row for a pair keeps that when rows that have it are written.
LEMMA UpsertedRows ==
  ASSUME NEW old, NEW new, IsFiniteSet(old), IsFiniteSet(new),
         \A v \in old \cup new : Faithful(v)
  PROVE  /\ IsFiniteSet(Upserted(old, new))
         /\ \A v \in Upserted(old, new) : Faithful(v) /\ (v \in old \/ v \in new)
         /\ (/\ backend = "sqlite"
             /\ \A v, w \in old : v.rec = w.rec /\ v.channel = w.channel => v = w
             /\ \A v, w \in new : v.rec = w.rec /\ v.channel = w.channel => v = w)
              => \A v, w \in Upserted(old, new) :
                   v.rec = w.rec /\ v.channel = w.channel => v = w
<1> DEFINE kept == {v \in old : \A w \in new : ~SameRow(v, w)}
<1>1. Upserted(old, new) = kept \cup new
  BY DEF Upserted
<1>2. IsFiniteSet(kept) /\ kept \subseteq old
  <2>1. kept \in SUBSET old
    OBVIOUS
  <2> QED BY <2>1, FS_Subset
<1>3. IsFiniteSet(kept \cup new)
  BY <1>2, FS_Union
<1>4. \A v \in Upserted(old, new) : Faithful(v) /\ (v \in old \/ v \in new)
  BY <1>1, <1>2
<1>5. ASSUME backend = "sqlite",
             \A v, w \in old : v.rec = w.rec /\ v.channel = w.channel => v = w,
             \A v, w \in new : v.rec = w.rec /\ v.channel = w.channel => v = w,
             NEW v \in Upserted(old, new), NEW w \in Upserted(old, new),
             v.rec = w.rec, v.channel = w.channel
      PROVE  v = w
  <2>1. SameRow(v, w) /\ SameRow(w, v)
    BY <1>5 DEF SameRow, SqliteKey
  <2>2. CASE v \in kept /\ w \in kept
    BY <1>2, <1>5, <2>2
  <2>3. CASE v \in new /\ w \in new
    BY <1>5, <2>3
  <2>4. CASE v \in kept /\ w \in new
    BY <2>1, <2>4
  <2>5. CASE v \in new /\ w \in kept
    BY <2>1, <2>5
  <2> QED BY <1>1, <2>2, <2>3, <2>4, <2>5
<1> QED BY <1>1, <1>3, <1>4, <1>5

\* What the session saw of a model it still sees after a batch of that model,
\* and it sees the batch.
LEMMA UpsertedTwice ==
  ASSUME NEW store, NEW own, NEW new, NEW m, NEW r, NEW c,
         \A v \in own \cup new : v.model = m,
         \/ HasRow(Upserted(store, own), r, c, m)
         \/ HasRow(new, r, c, m)
  PROVE  HasRow(Upserted(store, Upserted(own, new)), r, c, m)
<1> DEFINE both == Upserted(own, new)
<1>1. /\ new \subseteq both
      /\ \A v \in both : v.model = m
      /\ \A v \in own : v \in both \/ \E w \in new : SameRow(v, w)
      /\ both \subseteq Upserted(store, both)
      /\ \A v \in store : v \in Upserted(store, both) \/ \E w \in both : SameRow(v, w)
  BY DEF Upserted
<1>2. \A v, w : SameRow(v, w) => w.rec = v.rec /\ w.channel = v.channel
  BY DEF SameRow, SqliteKey, PostgresKey
<1> SUFFICES HasRow(Upserted(store, both), r, c, m)
  OBVIOUS
<1> HIDE DEF both
<1>3. CASE HasRow(new, r, c, m)
  BY <1>1, <1>3 DEF HasRow
<1>4. CASE HasRow(Upserted(store, own), r, c, m)
  <2>1. PICK v \in Upserted(store, own) : v.rec = r /\ v.channel = c /\ v.model = m
    BY <1>4 DEF HasRow
  <2>2. CASE v \in own
    <3>1. CASE v \in both
      BY <1>1, <2>1, <3>1 DEF HasRow
    <3>2. CASE \E w \in new : SameRow(v, w)
      BY <1>1, <1>2, <2>1, <3>2 DEF HasRow
    <3> QED BY <1>1, <2>2, <3>1, <3>2
  <2>3. CASE v \in store
    <3>1. CASE v \in Upserted(store, both)
      BY <2>1, <3>1 DEF HasRow
    <3>2. CASE \E w \in both : SameRow(v, w)
      BY <1>1, <1>2, <2>1, <3>2 DEF HasRow
    <3> QED BY <1>1, <2>3, <3>1, <3>2
  <2>4. v \in own \/ v \in store
    BY DEF Upserted
  <2> QED BY <2>2, <2>3, <2>4
<1> QED BY <1>3, <1>4

\* The row a search uses is the last one by model id.
LEMMA LastRow ==
  ASSUME NEW store, IsFiniteSet(store), store # {}, \A v \in store : v.model \in Int,
         \A v, w \in store : v.model = w.model => v = w
  PROVE  \E v \in store : \A w \in store : w.model <= v.model
<1> DEFINE R == {p \in store \X store : p[1].model <= p[2].model}
           n == Cardinality(store)
<1>1. \A a, b \in store : <<a, b>> \in R <=> a.model <= b.model
  OBVIOUS
<1> HIDE DEF R
<1>2. /\ \A a \in store : <<a, a>> \in R
      /\ \A a, b \in store : <<a, b>> \in R \/ <<b, a>> \in R
      /\ \A a, b \in store : <<a, b>> \in R /\ <<b, a>> \in R => a = b
      /\ \A a, b, c \in store : <<a, b>> \in R /\ <<b, c>> \in R => <<a, c>> \in R
  <2>1. \A x, y, z \in Int : /\ x <= x /\ (x <= y \/ y <= x)
                             /\ (x <= y /\ y <= x => x = y)
                             /\ (x <= y /\ y <= z => x <= z)
    OBVIOUS
  <2> QED BY <1>1, <2>1
<1>3. n \in Nat /\ \A i \in 1..n : \E k \in store : Cardinality(Down(store, R, k)) = i
  <2>1. IsFiniteSet(store)
    OBVIOUS
  <2> QED BY ONLY <1>2, <2>1, Ranks
<1>4. n \in 1..n
  BY <1>3, FS_EmptySet
<1>5. PICK k \in store : Cardinality(Down(store, R, k)) = n
  BY <1>3, <1>4
<1>6. Down(store, R, k) \in SUBSET store
  BY DEF Down
<1>7. store = Down(store, R, k)
  BY <1>5, <1>6, FS_Subset
<1>8. \A w \in store : <<w, k>> \in R
  BY <1>7 DEF Down
<1> QED BY <1>1, <1>8

\* The invariant is what the property says of the store.
LEMMA StoreIsEffective ==
  ASSUME StoreInv
  PROVE  ReindexIsEffective
<1>1. \A v \in vectors : v.text = <<v.rec, v.channel>>
  BY DEF StoreInv, Faithful
<1>2. ASSUME NEW r \in covered.records \cap alive, NEW c \in Channels
      PROVE  /\ HasRow(vectors, r, c, covered.model)
             /\ \/ UsedVector(r, c).model = covered.model
                \/ backend = "postgres" /\ UsedVector(r, c).model > covered.model
  <2> DEFINE store == {v \in vectors : v.rec = r /\ v.channel = c}
             used == CHOOSE v \in store : \A w \in store : w.model <= v.model
  <2>1. HasRow(vectors, r, c, covered.model)
    BY DEF StoreInv
  <2>2. PICK v \in vectors : v.rec = r /\ v.channel = c /\ v.model = covered.model
    BY <2>1 DEF HasRow
  <2>3. IsFiniteSet(store)
    <3>1. store \in SUBSET vectors
      OBVIOUS
    <3> QED BY <3>1, FS_Subset DEF StoreInv
  <2>4. \A w \in store : Faithful(w) /\ w.rec = r /\ w.channel = c
    BY DEF StoreInv
  <2>5. v \in store
    BY <2>2
  <2>6. UsedVector(r, c) = used
    BY DEF UsedVector
  <2>7. backend = "sqlite" => \A w \in store : w = v
    BY <2>2 DEF StoreInv
  <2> HIDE DEF store
  <2>8. /\ \A w \in store : w.model \in Int
        /\ \A w, x \in store : w.model = x.model => w = x
    <3>1. \A w \in store : /\ w.model \in Int
                         /\ w = [rec |-> r, channel |-> c, model |-> w.model, text |-> <<r, c>>]
      BY <2>4 DEF Faithful
    <3> QED BY <3>1
  <2>9. \E x \in store : \A w \in store : w.model <= x.model
    BY <2>3, <2>5, <2>8, LastRow
  <2>10. used \in store /\ \A w \in store : w.model <= used.model
    BY <2>9
  <2> HIDE DEF used
  <2>11. covered.model <= used.model /\ used.model \in Int /\ covered.model \in Int
    BY <2>2, <2>5, <2>8, <2>10
  <2>12. backend = "sqlite" \/ backend = "postgres"
    BY DEF StoreInv, Backends
  <2>13. CASE backend = "sqlite"
    BY <2>1, <2>2, <2>6, <2>7, <2>10, <2>13
  <2>14. CASE backend = "postgres"
    BY <2>1, <2>6, <2>11, <2>14
  <2> QED BY <2>12, <2>13, <2>14
<1> QED BY <1>1, <1>2 DEF ReindexIsEffective, HasRow

\* A step that leaves the committed state alone keeps what holds of it, ...
LEMMA StoreStays ==
  ASSUME StoreInv, UNCHANGED <<backend, alive, issued, vectors, model, covered>>
  PROVE  StoreInv'
BY DEF StoreInv

\* ... and what the session sees depends on its own rows and that state only.
LEMMA SeenStays ==
  ASSUME UNCHANGED <<backend, alive, vectors, model>>,
         reindex'.pool = reindex.pool, reindex'.own = reindex.own,
         NEW i, NEW c
  PROVE  PairSeen(i, c)' <=> PairSeen(i, c)
BY DEF PairSeen, HasRow, Upserted, SameRow

\* A step of somebody else keeps the session if what was seen is still seen.
LEMMA SessionStays ==
  ASSUME SessionInv, reindex' = reindex, model' = model,
         reindex.pool \in Seq(1..issued'),
         \A i \in 1..Len(reindex.pool) : \A c : PairSeen(i, c) => PairSeen(i, c)'
  PROVE  SessionInv'
<1>1. \A i \in 1..Len(reindex.pool), c \in Channels :
        i <= reindex.at => PairSeen(i, c)'
  BY DEF SessionInv
<1>2. /\ DOMAIN reindex = {"pc", "force", "pool", "at", "own", "pending", "tries"}
      /\ reindex.pc \in {"batch", "embed", "write"} /\ reindex.at \in Nat
      /\ IsFiniteSet(reindex.own)
      /\ \A v \in reindex.own : Faithful(v) /\ v.model = model
  BY DEF SessionInv
<1>3. CASE reindex.pc = "batch"
  BY <1>1, <1>2, <1>3 DEF SessionInv
<1>4. CASE reindex.pc = "embed"
  <2>1. \A i \in 1..Len(reindex.pool), c \in Channels :
          i <= reindex.at + BatchSize =>
            \/ PairSeen(i, c)'
            \/ \E j \in 1..Len(reindex.pending) :
                 reindex.pending[j] = <<reindex.pool[i], c>>
    BY <1>4 DEF SessionInv
  <2>2. reindex.pending \in Seq(Nat \X Channels)
    BY <1>4 DEF SessionInv
  <2> QED BY <1>1, <1>2, <1>4, <2>1, <2>2, SMTT(60) DEF SessionInv
<1>5. CASE reindex.pc = "write"
  <2>1. \A i \in 1..Len(reindex.pool), c \in Channels :
          i <= reindex.at + BatchSize =>
            \/ PairSeen(i, c)'
            \/ \E j \in 1..Len(reindex.pending) :
                 /\ reindex.pending[j].rec = reindex.pool[i]
                 /\ reindex.pending[j].channel = c
    BY <1>5 DEF SessionInv
  <2>2. /\ DOMAIN reindex.pending = 1..Len(reindex.pending)
        /\ Len(reindex.pending) \in Nat
        /\ \A j \in 1..Len(reindex.pending) :
             Faithful(reindex.pending[j]) /\ reindex.pending[j].model = model
    BY <1>5 DEF SessionInv
  <2> QED BY <1>1, <1>2, <1>5, <2>1, <2>2 DEF SessionInv, Faithful
<1> QED BY <1>2, <1>3, <1>4, <1>5

\* Planning a batch.
LEMMA PlanKeeps ==
  ASSUME VectorInv, PlanBatch
  PROVE  VectorInv'
<1>1. /\ UNCHANGED <<backend, alive, issued, vectors, model, covered>>
      /\ reindex.pc = "batch"
  BY DEF PlanBatch
<1>2. StoreInv /\ Running /\ SessionInv
  BY <1>1 DEF VectorInv, Running
<1>3. StoreInv'
  BY <1>1, <1>2, StoreStays
<1>4. /\ BatchSize \in Nat /\ reindex.at \in Nat
      /\ reindex.pool \in Seq(1..issued) /\ Len(reindex.pool) \in Nat
  BY <1>2, VectorAssumption DEF SessionInv
<1>5. /\ PendingKeys \in Seq(Nat \X Channels)
      /\ \A i \in 1..Len(reindex.pool), c \in Channels :
           i <= reindex.at + BatchSize =>
             \/ PairSeen(i, c)
             \/ \E j \in 1..Len(PendingKeys) : PendingKeys[j] = <<reindex.pool[i], c>>
  BY <1>2, PendingLists
<1>6. CASE PendingKeys = <<>>
  <2>1. reindex' = [reindex EXCEPT !.at = @ + BatchSize]
    BY <1>6 DEF PlanBatch
  <2>2. /\ DOMAIN reindex' = DOMAIN reindex
        /\ reindex'.pc = "batch" /\ reindex'.pool = reindex.pool
        /\ reindex'.own = reindex.own /\ reindex'.at = reindex.at + BatchSize
    BY <1>1, <1>2, <2>1 DEF SessionInv
  <2>3. \A i \in 1..Len(reindex.pool), c \in Channels :
          i <= reindex.at + BatchSize => PairSeen(i, c)
    <3>1. Len(PendingKeys) = 0
      BY <1>6
    <3> QED BY <1>5, <3>1
  <2>4. \A i, c : PairSeen(i, c)' <=> PairSeen(i, c)
    BY <1>1, <2>2, SeenStays
  <2>5. reindex'.at \in Nat
    BY <1>4, <2>2
  <2>6. SessionInv'
    BY <1>1, <1>2, <2>2, <2>3, <2>4, <2>5 DEF SessionInv, Faithful
  <2> QED BY <1>3, <2>6 DEF VectorInv
<1>7. CASE PendingKeys # <<>>
  <2>1. reindex' = [reindex EXCEPT !.pc = "embed", !.pending = PendingKeys, !.tries = 0]
    BY <1>7 DEF PlanBatch
  <2>2. /\ DOMAIN reindex' = DOMAIN reindex
        /\ reindex'.pc = "embed" /\ reindex'.pool = reindex.pool
        /\ reindex'.own = reindex.own /\ reindex'.at = reindex.at
        /\ reindex'.pending = PendingKeys
    BY <1>1, <1>2, <2>1 DEF SessionInv
  <2>3. \A i, c : PairSeen(i, c)' <=> PairSeen(i, c)
    BY <1>1, <2>2, SeenStays
  <2>4. \A i \in 1..Len(reindex'.pool), c \in Channels :
          /\ i <= reindex'.at => PairSeen(i, c)'
          /\ i <= reindex'.at + BatchSize =>
               \/ PairSeen(i, c)'
               \/ \E j \in 1..Len(reindex'.pending) :
                    reindex'.pending[j] = <<reindex'.pool[i], c>>
    <3>1. \A i \in 1..Len(reindex.pool), c \in Channels :
            i <= reindex.at => PairSeen(i, c)
      BY <1>2 DEF SessionInv
    <3> QED BY ONLY <1>5, <2>2, <2>3, <3>1
  <2>5. SessionInv'
    BY <1>1, <1>2, <1>5, <2>2, <2>4 DEF SessionInv
  <2> QED BY <1>3, <2>5 DEF VectorInv
<1> QED BY <1>6, <1>7

\* Every embedding is stored with the key of its own text.
LEMMA EmbedKeeps ==
  ASSUME VectorInv, reindex.pc = "embed", NEW a \in Answers(Len(reindex.pending)),
         EmbedBatch(a)
  PROVE  VectorInv'
<1> DEFINE keys == reindex.pending
<1>1. UNCHANGED <<backend, alive, issued, vectors, model, covered>>
  BY DEF EmbedBatch
<1>2. StoreInv /\ Running /\ SessionInv
  BY DEF VectorInv, Running
<1>3. StoreInv' /\ model \in Int
  BY <1>1, <1>2, StoreStays DEF StoreInv
<1>4. keys \in Seq(Nat \X Channels) /\ Len(keys) \in Nat /\ DOMAIN keys = 1..Len(keys)
  BY <1>2 DEF SessionInv
<1>5. /\ DOMAIN reindex' = DOMAIN reindex
      /\ reindex'.pc = "write" /\ reindex'.pool = reindex.pool
      /\ reindex'.own = reindex.own /\ reindex'.at = reindex.at
      /\ reindex'.pending = [i \in DOMAIN keys |->
           [rec |-> keys[i][1], channel |-> keys[i][2], model |-> model,
            text |-> keys[ParseResponse(a)[i]]]]
  BY <1>2 DEF EmbedBatch, SessionInv
<1>6. \A i \in 1..Len(keys) : ParseResponse(a)[i] = i
  BY <1>4, ParsedInInputOrder
<1>7. \A i \in 1..Len(keys) :
        /\ reindex'.pending[i] = [rec |-> keys[i][1], channel |-> keys[i][2],
                                  model |-> model, text |-> keys[i]]
        /\ keys[i] \in Nat \X Channels
  BY <1>4, <1>5, <1>6
<1>8. DOMAIN reindex'.pending = 1..Len(keys) /\ Len(reindex'.pending) = Len(keys)
  BY <1>4, <1>5
<1> HIDE DEF keys
<1>9. \A j \in 1..Len(keys) :
        Faithful(reindex'.pending[j]) /\ reindex'.pending[j].model = model
  <2> SUFFICES ASSUME NEW j \in 1..Len(keys)
               PROVE  Faithful(reindex'.pending[j]) /\ reindex'.pending[j].model = model
    OBVIOUS
  <2>1. /\ reindex'.pending[j] = [rec |-> keys[j][1], channel |-> keys[j][2],
                                  model |-> model, text |-> keys[j]]
        /\ keys[j] \in Nat \X Channels
    BY <1>7
  <2>2. /\ keys[j][1] \in Nat /\ keys[j][2] \in Channels
        /\ keys[j] = <<keys[j][1], keys[j][2]>>
    BY <2>1
  <2> QED BY ONLY <1>3, <2>1, <2>2 DEF Faithful
<1>10. \A i, c : PairSeen(i, c)' <=> PairSeen(i, c)
  BY <1>1, <1>5, SeenStays
<1>11. \A i \in 1..Len(reindex.pool), c \in Channels :
         i <= reindex.at + BatchSize =>
           \/ PairSeen(i, c)
           \/ \E j \in 1..Len(keys) :
                reindex'.pending[j].rec = reindex.pool[i] /\ reindex'.pending[j].channel = c
  <2> SUFFICES ASSUME NEW i \in 1..Len(reindex.pool), NEW c \in Channels,
                      i <= reindex.at + BatchSize, ~PairSeen(i, c)
               PROVE  \E j \in 1..Len(keys) :
                        /\ reindex'.pending[j].rec = reindex.pool[i]
                        /\ reindex'.pending[j].channel = c
    OBVIOUS
  <2>1. PICK j \in 1..Len(keys) : keys[j] = <<reindex.pool[i], c>>
    BY <1>2 DEF SessionInv, keys
  <2>2. keys[j][1] = reindex.pool[i] /\ keys[j][2] = c
    BY <2>1
  <2>3. reindex'.pending[j].rec = keys[j][1] /\ reindex'.pending[j].channel = keys[j][2]
    <3>1. reindex'.pending[j] = [rec |-> keys[j][1], channel |-> keys[j][2],
                                 model |-> model, text |-> keys[j]]
      BY <1>7
    <3> QED BY ONLY <3>1
  <2> QED BY <2>2, <2>3
<1>12. SessionInv'
  <2>1. \A i \in 1..Len(reindex'.pool), c \in Channels : i <= reindex'.at => PairSeen(i, c)'
    BY <1>2, <1>5, <1>10 DEF SessionInv
  <2>2. \A i \in 1..Len(reindex'.pool), c \in Channels :
          i <= reindex'.at + BatchSize =>
            \/ PairSeen(i, c)'
            \/ \E j \in 1..Len(reindex'.pending) :
                 /\ reindex'.pending[j].rec = reindex'.pool[i]
                 /\ reindex'.pending[j].channel = c
    <3>1. /\ reindex'.pool = reindex.pool /\ reindex'.at = reindex.at
          /\ Len(reindex'.pending) = Len(keys)
      BY <1>5, <1>8
    <3> QED BY <1>10, <1>11, <3>1
  <2>3. \A j \in 1..Len(reindex'.pending) :
          Faithful(reindex'.pending[j]) /\ reindex'.pending[j].model = model'
    BY <1>1, <1>8, <1>9
  <2> QED BY <1>1, <1>2, <1>4, <1>5, <1>8, <2>1, <2>2, <2>3 DEF SessionInv, Faithful
<1> QED BY <1>3, <1>12 DEF VectorInv

\* A list of members of a set lists members of every larger one.
LEMMA ListsWithin ==
  ASSUME NEW S, NEW T, S \subseteq T, NEW s \in Seq(S)
  PROVE  /\ s \in Seq(T) /\ Len(s) \in Nat
         /\ \A i \in 1..Len(s) : s[i] \in S
<1>1. Len(s) \in Nat /\ DOMAIN s = 1..Len(s) /\ \A i \in 1..Len(s) : s[i] \in S
  OBVIOUS
<1>2. s = [i \in 1..Len(s) |-> s[i]]
  OBVIOUS
<1>3. s \in [1..Len(s) -> T]
  BY <1>1, <1>2
<1> QED BY <1>1, <1>3

\* A reindex starts with what the pool lists.
LEMMA StartKeeps ==
  ASSUME VectorInv, NEW force \in BOOLEAN, StartReindex(force)
  PROVE  VectorInv'
<1>1. UNCHANGED <<backend, alive, issued, vectors, model, covered>>
  BY DEF StartReindex
<1>2. StoreInv /\ StoreInv'
  BY <1>1, StoreStays DEF VectorInv
<1>3. reindex' = [pc |-> "batch", force |-> force, pool |-> Pool, at |-> 0,
                  own |-> {}, pending |-> <<>>, tries |-> 0]
  BY DEF StartReindex
<1>4. /\ DOMAIN reindex' = {"pc", "force", "pool", "at", "own", "pending", "tries"}
      /\ reindex'.pc = "batch" /\ reindex'.pool = Pool
      /\ reindex'.own = {} /\ reindex'.at = 0
  BY <1>3
<1>5. Pool \in Seq(1..issued') /\ Len(Pool) \in Nat
  <2>1. Pool \in Seq(alive) /\ alive \subseteq 1..issued' /\ issued' \in Nat
    BY <1>1, <1>2, PoolLists DEF StoreInv
  <2> QED BY <2>1, ListsWithin
<1>6. IsFiniteSet({})
  BY FS_EmptySet
<1>7. SessionInv'
  <2> QED BY <1>4, <1>5, <1>6 DEF SessionInv
<1> QED BY <1>2, <1>7 DEF VectorInv

\* A failed call of the provider is repeated with the same keys, or ends the
\* session.
LEMMA FailedCallKeeps ==
  ASSUME VectorInv, EmbedFails
  PROVE  VectorInv'
<1>1. /\ UNCHANGED <<backend, alive, issued, vectors, model, covered>>
      /\ reindex.pc = "embed"
  BY DEF EmbedFails
<1>2. StoreInv /\ Running /\ SessionInv
  BY <1>1 DEF VectorInv, Running
<1>3. StoreInv'
  BY <1>1, <1>2, StoreStays
<1>4. CASE reindex' = NoReindex
  BY <1>3, <1>4 DEF VectorInv, Running, NoReindex
<1>5. CASE reindex' = [reindex EXCEPT !.tries = @ + 1]
  <2>1. /\ DOMAIN reindex' = DOMAIN reindex
        /\ reindex'.pc = "embed" /\ reindex'.pool = reindex.pool
        /\ reindex'.own = reindex.own /\ reindex'.at = reindex.at
        /\ reindex'.pending = reindex.pending
    BY <1>1, <1>2, <1>5 DEF SessionInv
  <2>2. \A i, c : PairSeen(i, c)' <=> PairSeen(i, c)
    BY <1>1, <2>1, SeenStays
  <2>3. \A i \in 1..Len(reindex'.pool), c \in Channels :
          /\ i <= reindex'.at => PairSeen(i, c)'
          /\ i <= reindex'.at + BatchSize =>
               \/ PairSeen(i, c)'
               \/ \E j \in 1..Len(reindex'.pending) :
                    reindex'.pending[j] = <<reindex'.pool[i], c>>
    BY <1>1, <1>2, <2>1, <2>2 DEF SessionInv
  <2>4. SessionInv'
    BY <1>1, <1>2, <2>1, <2>3 DEF SessionInv
  <2> QED BY <1>3, <2>4 DEF VectorInv
<1> QED BY <1>4, <1>5 DEF EmbedFails

\* After the write of a batch the session sees all pairs of its records.
LEMMA WriteKeeps ==
  ASSUME VectorInv, WriteBatch
  PROVE  VectorInv'
<1> DEFINE new == {reindex.pending[i] : i \in DOMAIN reindex.pending}
           own == reindex.own
           both == Upserted(own, new)
<1>1. /\ UNCHANGED <<backend, alive, issued, vectors, model, covered>>
      /\ reindex.pc = "write"
  BY DEF WriteBatch
<1>2. StoreInv /\ Running /\ SessionInv
  BY <1>1 DEF VectorInv, Running
<1>3. StoreInv'
  BY <1>1, <1>2, StoreStays
<1>4. CASE reindex' = NoReindex
  BY <1>3, <1>4 DEF VectorInv, Running, NoReindex
<1>5. CASE reindex' = [reindex EXCEPT !.pc = "batch", !.at = @ + BatchSize, !.own = both]
  <2>1. /\ DOMAIN reindex' = DOMAIN reindex
        /\ reindex'.pc = "batch" /\ reindex'.pool = reindex.pool
        /\ reindex'.own = both /\ reindex'.at = reindex.at + BatchSize
    BY <1>1, <1>2, <1>5 DEF SessionInv
  <2>2. BatchSize \in Nat /\ reindex.at \in Nat /\ reindex'.at \in Nat
    <3>1. BatchSize \in Nat /\ reindex.at \in Nat
      BY <1>2, VectorAssumption DEF SessionInv
    <3> QED BY <2>1, <3>1
  <2>3. IsFiniteSet(new) /\ \A v \in new : Faithful(v) /\ v.model = model
    <3>1. /\ DOMAIN reindex.pending = 1..Len(reindex.pending)
          /\ Len(reindex.pending) \in Nat
          /\ \A j \in 1..Len(reindex.pending) :
               Faithful(reindex.pending[j]) /\ reindex.pending[j].model = model
      BY <1>1, <1>2 DEF SessionInv
    <3>2. IsFiniteSet(1..Len(reindex.pending))
      <4>1. 1 \in Int /\ Len(reindex.pending) \in Int
        BY <3>1
      <4> QED BY ONLY <4>1, FS_Interval
    <3>3. [j \in 1..Len(reindex.pending) |-> reindex.pending[j]]
            \in Surjection(1..Len(reindex.pending), new)
      BY <3>1 DEF Surjection
    <3>4. IsFiniteSet(new)
      BY <3>2, <3>3, FS_Surjection
    <3> QED BY <3>1, <3>4
  <2>4. IsFiniteSet(own) /\ \A v \in own : Faithful(v) /\ v.model = model
    BY <1>2 DEF SessionInv
  <2>5. \A i \in 1..Len(reindex.pool), c \in Channels :
          i <= reindex.at + BatchSize /\ reindex.pool[i] \in alive =>
            \/ HasRow(Upserted(vectors, own), reindex.pool[i], c, model)
            \/ HasRow(new, reindex.pool[i], c, model)
    <3> SUFFICES ASSUME NEW i \in 1..Len(reindex.pool), NEW c \in Channels,
                        i <= reindex.at + BatchSize, reindex.pool[i] \in alive,
                        ~HasRow(Upserted(vectors, own), reindex.pool[i], c, model)
                 PROVE  HasRow(new, reindex.pool[i], c, model)
      OBVIOUS
    <3>1. ~PairSeen(i, c)
      BY DEF PairSeen
    <3>2. PICK j \in 1..Len(reindex.pending) :
            reindex.pending[j].rec = reindex.pool[i] /\ reindex.pending[j].channel = c
      BY <1>1, <1>2, <3>1 DEF SessionInv
    <3>3. reindex.pending[j] \in new /\ reindex.pending[j].model = model
      BY <1>1, <1>2 DEF SessionInv
    <3> QED BY <3>2, <3>3 DEF HasRow
  <2> HIDE DEF new, own
  <2>6. IsFiniteSet(both) /\ \A v \in both : Faithful(v) /\ v.model = model
    BY <2>3, <2>4, UpsertedRows
  <2>7. \A i \in 1..Len(reindex.pool), c \in Channels :
          i <= reindex.at + BatchSize /\ reindex.pool[i] \in alive =>
            HasRow(Upserted(vectors, both), reindex.pool[i], c, model)
    <3>1. \A v \in own \cup new : v.model = model
      BY <2>3, <2>4
    <3> QED BY <2>5, <3>1, UpsertedTwice
  <2> HIDE DEF both
  <2>8. Upserted(vectors, reindex.own)' = Upserted(vectors, both)
    BY <1>1, <2>1 DEF Upserted, SameRow
  <2>9. \A i \in 1..Len(reindex'.pool), c \in Channels : i <= reindex'.at => PairSeen(i, c)'
    BY <1>1, <2>1, <2>7, <2>8 DEF PairSeen, HasRow
  <2>10. SessionInv'
    BY <1>1, <1>2, <2>1, <2>2, <2>6, <2>9 DEF SessionInv
  <2> QED BY <1>3, <2>10 DEF VectorInv
<1> QED BY <1>4, <1>5 DEF WriteBatch

\* The commit of a reindex: the records it listed and that live are covered.
LEMMA FinishKeeps ==
  ASSUME VectorInv, FinishReindex
  PROVE  VectorInv'
<1> DEFINE store == Upserted(vectors, reindex.own)
<1>1. /\ UNCHANGED <<backend, alive, issued, model>>
      /\ reindex.pc = "batch" /\ reindex.at >= Len(reindex.pool)
      /\ vectors' = store /\ reindex' = NoReindex
      /\ covered' = [model |-> model, records |-> {reindex.pool[i] : i \in DOMAIN reindex.pool}]
  BY DEF FinishReindex
<1>2. StoreInv /\ Running /\ SessionInv
  BY <1>1 DEF VectorInv, Running
<1>3. /\ reindex.pool \in Seq(1..issued) /\ reindex.at \in Nat /\ Len(reindex.pool) \in Nat
      /\ DOMAIN reindex.pool = 1..Len(reindex.pool)
      /\ \A i \in 1..Len(reindex.pool) : reindex.pool[i] \in 1..issued
  <2>1. reindex.pool \in Seq(1..issued) /\ reindex.at \in Nat
    BY <1>2 DEF SessionInv
  <2>2. DOMAIN reindex.pool = 1..Len(reindex.pool)
    BY <2>1
  <2> QED BY <2>1, <2>2, ListsWithin
<1>4. /\ IsFiniteSet(store) /\ \A v \in store : Faithful(v)
      /\ backend = "sqlite" =>
           \A v, w \in store : v.rec = w.rec /\ v.channel = w.channel => v = w
  <2>1. /\ IsFiniteSet(vectors) /\ IsFiniteSet(reindex.own)
        /\ \A v \in vectors \cup reindex.own : Faithful(v)
    BY <1>2 DEF StoreInv, SessionInv
  <2>2. \A v, w \in reindex.own : v.rec = w.rec /\ v.channel = w.channel => v = w
    <3>1. \A v \in reindex.own :
            v = [rec |-> v.rec, channel |-> v.channel, model |-> model,
                 text |-> <<v.rec, v.channel>>]
      BY <1>2 DEF SessionInv, Faithful
    <3> QED BY <3>1
  <2>3. backend = "sqlite" =>
          \A v, w \in vectors : v.rec = w.rec /\ v.channel = w.channel => v = w
    BY <1>2 DEF StoreInv
  <2> QED BY <2>1, <2>2, <2>3, UpsertedRows
<1>5. \A i \in 1..Len(reindex.pool), c \in Channels :
        reindex.pool[i] \in alive => HasRow(store, reindex.pool[i], c, model)
  <2>1. \A i \in 1..Len(reindex.pool) : i <= reindex.at
    BY <1>1, <1>3
  <2> QED BY <1>2, <2>1 DEF SessionInv, PairSeen
<1> HIDE DEF store
<1>6. /\ covered'.model = model
      /\ covered'.records = {reindex.pool[i] : i \in 1..Len(reindex.pool)}
  BY <1>1, <1>3
<1>7. covered'.records \subseteq 1..issued
  BY <1>3, <1>6
<1>8. \A r \in covered'.records \cap alive, c \in Channels :
        HasRow(store, r, c, covered'.model)
  BY <1>5, <1>6
<1>9. StoreInv'
  <2>1. /\ backend \in Backends /\ model \in Int /\ issued \in Nat
        /\ alive \subseteq 1..issued
    BY <1>2 DEF StoreInv
  <2> QED BY <1>1, <1>4, <1>6, <1>7, <1>8, <2>1 DEF StoreInv, HasRow
<1> QED BY <1>1, <1>9 DEF VectorInv, Running, NoReindex

\* A publication takes vectors away only with their record, whose id does not
\* come back; the id it gives out is in no pool and not covered.
LEMMA PublishKeeps ==
  ASSUME VectorInv, NEW replaced, PublishRecord(replaced)
  PROVE  VectorInv'
<1>1. /\ UNCHANGED <<backend, model, reindex, covered>>
      /\ issued' = issued + 1 /\ alive' = (alive \ replaced) \cup {issued + 1}
      /\ vectors' \in SUBSET vectors
      /\ \A v \in vectors : v.rec \notin replaced => v \in vectors'
  BY DEF PublishRecord
<1>2. StoreInv
  BY DEF VectorInv
<1>3. /\ issued \in Nat /\ issued' \in Nat /\ 1..issued \subseteq 1..issued'
      /\ issued + 1 \notin 1..issued
  BY <1>1, <1>2 DEF StoreInv
<1>4. alive' \subseteq 1..issued'
  <2>1. alive \subseteq 1..issued' /\ issued + 1 \in 1..issued'
    BY <1>1, <1>2, <1>3 DEF StoreInv
  <2> QED BY <1>1, <2>1
<1>5. \A r \in 1..issued : r \in alive' => r \in alive /\ r \notin replaced
  BY <1>1, <1>3
<1>6. IsFiniteSet(vectors')
  BY <1>1, <1>2, FS_Subset DEF StoreInv
<1>7. \A r \in 1..issued : \A c, m :
        r \in alive' /\ HasRow(vectors, r, c, m) => HasRow(vectors', r, c, m)
  BY <1>1, <1>5 DEF HasRow
<1>8. \A r \in covered.records \cap alive', c \in Channels :
        HasRow(vectors', r, c, covered.model)
  BY <1>2, <1>5, <1>7 DEF StoreInv
<1>9. StoreInv'
  <2>1. \A v \in vectors' : Faithful(v)
    BY <1>1, <1>2 DEF StoreInv
  <2>2. backend = "sqlite" =>
          \A v, w \in vectors' : v.rec = w.rec /\ v.channel = w.channel => v = w
    BY <1>1, <1>2 DEF StoreInv
  <2>3. backend \in Backends /\ model \in Int /\ covered.model \in Int
    BY <1>2 DEF StoreInv
  <2>4. covered.records \subseteq 1..issued'
    BY <1>2, <1>3 DEF StoreInv
  <2> QED BY <1>1, <1>3, <1>4, <1>6, <1>8, <2>1, <2>2, <2>3, <2>4 DEF StoreInv, HasRow
<1>10. ASSUME Running
       PROVE  SessionInv'
  <2>1. SessionInv
    BY <1>10 DEF VectorInv
  <2>2. \A i \in 1..Len(reindex.pool) : \A c : PairSeen(i, c) => PairSeen(i, c)'
    <3> SUFFICES ASSUME NEW i \in 1..Len(reindex.pool), NEW c, PairSeen(i, c),
                        reindex.pool[i] \in alive'
                 PROVE  HasRow(Upserted(vectors, reindex.own), reindex.pool[i], c, model)'
      BY <1>1 DEF PairSeen
    <3>1. reindex.pool[i] \in 1..issued
      BY <2>1, <1>3 DEF SessionInv
    <3>2. reindex.pool[i] \in alive /\ reindex.pool[i] \notin replaced
      BY <1>5, <3>1
    <3>3. PICK v \in Upserted(vectors, reindex.own) :
            v.rec = reindex.pool[i] /\ v.channel = c /\ v.model = model
      BY <3>2 DEF PairSeen, HasRow
    <3>4. v \in Upserted(vectors, reindex.own)'
      BY <1>1, <3>2, <3>3 DEF Upserted, SameRow
    <3> QED BY <1>1, <3>3, <3>4 DEF HasRow
  <2>3. reindex.pool \in Seq(1..issued')
    <3>1. reindex.pool \in Seq(1..issued)
      BY <2>1 DEF SessionInv
    <3> QED BY <1>3, <3>1, ListsWithin
  <2> QED BY <1>1, <2>1, <2>2, <2>3, SessionStays
<1>11. Running' <=> Running
  BY <1>1 DEF Running
<1> QED BY <1>9, <1>10, <1>11 DEF VectorInv

\* The model changes between sessions only.
LEMMA ChangeKeeps ==
  ASSUME VectorInv, NEW m \in Models, ChangeModel(m)
  PROVE  VectorInv'
<1>1. /\ UNCHANGED <<backend, alive, issued, vectors, reindex, covered>>
      /\ model' = m /\ ~Running
  BY DEF ChangeModel
<1>2. m \in Int
  BY VectorAssumption
<1>3. StoreInv'
  BY <1>1, <1>2 DEF VectorInv, StoreInv
<1> QED BY <1>1, <1>3 DEF VectorInv, Running

\* The vectors and the session of a reindex are consistent in every state.
LEMMA VectorInvHolds == VectorSpec => []VectorInv
<1>1. VectorInit => VectorInv
  <2> SUFFICES ASSUME VectorInit PROVE VectorInv
    OBVIOUS
  <2>1. /\ backend \in Backends /\ model \in Int /\ issued = 1 /\ alive = {1}
        /\ vectors = {} /\ covered = [model |-> model, records |-> {}]
        /\ reindex = NoReindex
    BY VectorAssumption DEF VectorInit
  <2>2. covered.model \in Int /\ covered.records = {}
    BY <2>1
  <2>3. IsFiniteSet(vectors)
    BY <2>1, FS_EmptySet
  <2>4. StoreInv
    BY <2>1, <2>2, <2>3 DEF StoreInv
  <2> QED BY <2>1, <2>4 DEF VectorInv, Running, NoReindex
<1>2. VectorInv /\ [VectorNext]_vectorVars => VectorInv'
  <2> SUFFICES ASSUME VectorInv, [VectorNext]_vectorVars
               PROVE  VectorInv'
    OBVIOUS
  <2>1. ASSUME NEW force \in BOOLEAN, StartReindex(force)
        PROVE  VectorInv'
    BY <2>1, StartKeeps
  <2>2. CASE PlanBatch
    BY <2>2, PlanKeeps
  <2>3. ASSUME reindex.pc = "embed", NEW a \in Answers(Len(reindex.pending)), EmbedBatch(a)
        PROVE  VectorInv'
    BY <2>3, EmbedKeeps
  <2>4. CASE EmbedFails
    BY <2>4, FailedCallKeeps
  <2>5. CASE WriteBatch
    BY <2>5, WriteKeeps
  <2>6. CASE FinishReindex
    BY <2>6, FinishKeeps
  <2>7. ASSUME NEW replaced, PublishRecord(replaced)
        PROVE  VectorInv'
    BY <2>7, PublishKeeps
  <2>8. ASSUME NEW m \in Models, ChangeModel(m)
        PROVE  VectorInv'
    BY <2>8, ChangeKeeps
  <2>9. CASE UNCHANGED vectorVars
    <3>1. StoreInv' /\ UNCHANGED <<backend, alive, issued, vectors, model, reindex, covered>>
      BY <2>9, StoreStays DEF VectorInv, vectorVars
    <3>2. \A i, c : PairSeen(i, c)' <=> PairSeen(i, c)
      BY <3>1, SeenStays
    <3>3. Running' <=> Running
      BY <3>1 DEF Running
    <3>4. ASSUME Running
          PROVE  SessionInv'
      <4>1. SessionInv /\ reindex.pool \in Seq(1..issued')
        BY <3>1, <3>4 DEF VectorInv, SessionInv
      <4> QED BY <3>1, <3>2, <4>1, SessionStays
    <3> QED BY <3>1, <3>3, <3>4 DEF VectorInv
  <2> QED BY <2>1, <2>2, <2>3, <2>4, <2>5, <2>6, <2>7, <2>8, <2>9 DEF VectorNext
<1> QED BY <1>1, <1>2, PTL DEF VectorSpec

\* A reindex that succeeded is effective (`MaintenanceService.reindex` beside
\* publications, model changes and failing calls, on both backends): every
\* stored vector is of its own text, the listed records that live have both
\* channels under its model, and a search uses these or, on PostgreSQL, those of
\* a model that sorts later.
THEOREM ReindexesAreEffective == VectorSpec => []ReindexIsEffective
<1>1. VectorInv => ReindexIsEffective
  BY StoreIsEffective DEF VectorInv
<1> QED BY <1>1, VectorInvHolds, PTL

-----------------------------------------------------------------------------
(* The selection of frames. *)

\* R orders the elements of the finite set S totally.
Ordered(S, R) ==
  /\ IsFiniteSet(S)
  /\ \A a \in S : <<a, a>> \in R
  /\ \A a, b \in S : <<a, b>> \in R \/ <<b, a>> \in R
  /\ \A a, b \in S : <<a, b>> \in R /\ <<b, a>> \in R => a = b
  /\ \A a, b, c \in S : <<a, b>> \in R /\ <<b, c>> \in R => <<a, c>> \in R

\* A finite total order has a top element.
LEMMA TopElement ==
  ASSUME NEW S, NEW R, Ordered(S, R), S # {}
  PROVE  \E k \in S : \A j \in S : <<j, k>> \in R
<1>1. /\ Cardinality(S) \in Nat
      /\ \A i \in 1..Cardinality(S) : \E k \in S : Cardinality(Down(S, R, k)) = i
  BY Ranks DEF Ordered
<1>2. Cardinality(S) \in 1..Cardinality(S)
  BY <1>1, FS_EmptySet DEF Ordered
<1>3. PICK k \in S : Cardinality(Down(S, R, k)) = Cardinality(S)
  BY <1>1, <1>2
<1>4. Down(S, R, k) \in SUBSET S
  BY DEF Down
<1>5. S = Down(S, R, k)
  BY <1>3, <1>4, FS_Subset DEF Ordered
<1> QED BY <1>5 DEF Down

\* Counting up to n by membership of a set.
CountsUp(S, n) == n \in Nat /\ 0 \in S /\ \A m \in 0..n : m < n /\ m \in S => m + 1 \in S

\* A set that has 0 and the successor of each of its members below n has all
\* the numbers up to n.
LEMMA BoundedInduction ==
  ASSUME NEW S, NEW n, CountsUp(S, n)
  PROVE  \A m \in 0..n : m \in S
<1> SUFFICES ASSUME NEW z \in 0..n, z \notin S PROVE FALSE
  OBVIOUS
<1> DEFINE Bad == {m \in 0..n : m \notin S}
           R == {p \in Int \X Int : p[1] >= p[2]}
<1>1. n \in Nat /\ z \in Bad
  BY DEF CountsUp
<1>2. \A a \in Bad : a \in Int /\ a \in 0..n /\ a \notin S
  BY <1>1
<1>3. \A a, b \in Bad : <<a, b>> \in R <=> a >= b
  BY <1>2
<1>4. IsFiniteSet(Bad)
  <2>1. IsFiniteSet(0..n)
    BY <1>1, FS_Interval
  <2>2. Bad \in SUBSET (0..n)
    OBVIOUS
  <2> QED BY ONLY <2>1, <2>2, FS_Subset
<1>5. \A m \in 0..n : m \notin S => m \in Bad
  OBVIOUS
<1> HIDE DEF Bad, R
<1>6. Ordered(Bad, R)
  BY <1>2, <1>3, <1>4 DEF Ordered
<1>7. PICK m \in Bad : \A j \in Bad : <<j, m>> \in R
  BY <1>1, <1>6, TopElement
<1>8. m \in 0..n /\ m \notin S /\ \A j \in Bad : j >= m
  BY <1>2, <1>3, <1>7
<1>9. m - 1 \in 0..n /\ m - 1 < n /\ (m - 1) + 1 = m
  BY <1>1, <1>8 DEF CountsUp
<1>10. m - 1 \in S
  BY <1>1, <1>5, <1>8, <1>9
<1> QED BY <1>8, <1>9, <1>10 DEF CountsUp

\* What the decoder reads and what the sampling keeps.
Decoded == [pos : Int, ok : BOOLEAN, score : Int]
Frames == [index : Nat, at : Int, ok : BOOLEAN, score : Int]

\* The frames are in the window, in the order of their times and indices.
InWindow(kept) ==
  /\ kept \in Seq(Frames)
  /\ \A i \in 1..Len(kept) :
       kept[i].index = i - 1 /\ Start <= kept[i].at /\ kept[i].at <= End
  /\ \A i, j \in 1..Len(kept) : i < j => kept[i].at < kept[j].at

\* A rounded position is at most half a millisecond off.
LEMMA RoundedNear ==
  ASSUME NEW pos \in Int
  PROVE  /\ Rounded(pos) \in Int
         /\ 2 * pos <= 2 * (Ticks * Rounded(pos)) + Ticks
         /\ 2 * (Ticks * Rounded(pos)) <= 2 * pos + Ticks
<1> DEFINE ms == pos \div Ticks
           rest == pos % Ticks
<1>1. Ticks \in Nat \ {0}
  BY FrameAssumption
<1>2. ms \in Int /\ rest \in 0..(Ticks - 1)
  BY <1>1
<1>3. pos = Ticks * ms + rest
  BY <1>1
<1>4. Ticks * (ms + 1) = Ticks * ms + Ticks /\ Ticks * ms \in Int
  BY <1>1, <1>2
<1>5. \/ Rounded(pos) = ms /\ 2 * rest <= Ticks
      \/ Rounded(pos) = ms + 1 /\ 2 * rest >= Ticks
  BY <1>1, <1>2 DEF Rounded
<1> HIDE DEF ms, rest
<1> QED BY <1>1, <1>2, <1>3, <1>4, <1>5

\* Milliseconds compare as their ticks do.
LEMMA TicksGrow ==
  ASSUME NEW a \in Int, NEW b \in Int
  PROVE  /\ Ticks * a \in Int
         /\ Ticks * a < Ticks * b => a < b
         /\ Ticks * a < Ticks * b + Ticks => a <= b
         /\ a * Ticks = Ticks * a
<1>1. Ticks \in Nat \ {0}
  BY FrameAssumption
<1>2. Ticks * (b + 1) = Ticks * b + Ticks
  BY <1>1
<1>3. a > b => Ticks * a >= Ticks * (b + 1)
  BY <1>1
<1>4. Ticks * a < Ticks * b => a < b
  BY <1>1
<1> QED BY <1>1, <1>2, <1>3, <1>4

\* The sampling at some frame of the stream: whatever is kept is, but for the
\* rounding, a sampling interval before the next sample.
Sampling(acc) ==
  /\ acc \in [next : Int, over : BOOLEAN, kept : Seq(Frames)]
  /\ Start * Ticks <= acc.next
  /\ InWindow(acc.kept)
  /\ \A i \in 1..Len(acc.kept) :
       2 * (Ticks * acc.kept[i].at) + 2 * SampleGap <= 2 * acc.next + Ticks

\* One frame further.
LEMMA SamplingStep ==
  ASSUME NEW acc, Sampling(acc), NEW f \in Decoded
  PROVE  Sampling(SampleStep(acc, f))
<1> DEFINE pos == IF f.pos <= 0 THEN acc.next ELSE f.pos
           stamp == Rounded(pos)
           new == [index |-> Len(acc.kept), at |-> stamp, ok |-> f.ok, score |-> f.score]
           kept == Append(acc.kept, new)
<1>1. /\ acc \in [next : Int, over : BOOLEAN, kept : Seq(Frames)]
      /\ Start \in Int /\ End \in Int /\ SampleGap \in Nat
      /\ Ticks \in Nat /\ Slack \in Nat /\ 2 * Slack < Ticks /\ SampleGap > Ticks + Slack
      /\ f.pos \in Int /\ f.ok \in BOOLEAN /\ f.score \in Int /\ pos \in Int
      /\ acc.next \in Int /\ Ticks * Start <= acc.next
  BY FrameAssumption, TicksGrow DEF Sampling, Decoded
<1>2. SampleStep(acc, f) =
        IF acc.over \/ pos >= Ticks * End THEN [acc EXCEPT !.over = TRUE]
        ELSE IF pos + Slack < acc.next THEN acc
        ELSE [acc EXCEPT !.next = pos + SampleGap, !.kept = kept]
  <2>1. End * Ticks = Ticks * End
    BY <1>1, TicksGrow
  <2> QED BY <2>1 DEF SampleStep
<1> HIDE DEF pos
<1>6. /\ stamp \in Int /\ Ticks * stamp \in Int
      /\ 2 * pos <= 2 * (Ticks * stamp) + Ticks /\ 2 * (Ticks * stamp) <= 2 * pos + Ticks
  BY <1>1, RoundedNear, TicksGrow
<1>7. /\ Ticks * Start \in Int /\ Ticks * End \in Int
      /\ Ticks * Start < Ticks * stamp + Ticks => Start <= stamp
      /\ Ticks * stamp < Ticks * End + Ticks => stamp <= End
  BY <1>1, <1>6, TicksGrow
<1> HIDE DEF stamp
<1>3. CASE acc.over \/ pos >= Ticks * End
  <2>1. SampleStep(acc, f) = [acc EXCEPT !.over = TRUE]
    BY <1>2, <1>3
  <2> QED BY <1>1, <2>1 DEF Sampling
<1>4. CASE ~(acc.over \/ pos >= Ticks * End) /\ pos + Slack < acc.next
  BY <1>2, <1>4
<1>5. CASE ~(acc.over \/ pos >= Ticks * End) /\ ~(pos + Slack < acc.next)
  <2> DEFINE n == Len(acc.kept)
             Clear(t, next) == 2 * (Ticks * t) + 2 * SampleGap <= 2 * next + Ticks
  <2>0. /\ pos < Ticks * End /\ pos + Slack >= acc.next
        /\ pos + SampleGap \in Int /\ Ticks * Start <= pos + SampleGap
    BY <1>1, <1>5, <1>7
  <2>1. SampleStep(acc, f) = [acc EXCEPT !.next = pos + SampleGap, !.kept = kept]
    BY <1>2, <1>5
  <2>2. n \in Nat /\ new \in Frames /\ acc.kept \in Seq(Frames)
    BY <1>1, <1>6 DEF Frames
  <2>3. /\ kept \in Seq(Frames) /\ Len(kept) = n + 1
        /\ \A i \in 1..n : kept[i] = acc.kept[i]
        /\ kept[n + 1] = new
    BY <2>2
  <2>4. new.index = n /\ new.at = stamp
    OBVIOUS
  <2>5. /\ \A i \in 1..n : /\ acc.kept[i].index = i - 1 /\ Start <= acc.kept[i].at
                           /\ acc.kept[i].at <= End /\ Clear(acc.kept[i].at, acc.next)
                           /\ acc.kept[i].at \in Int
        /\ \A i, j \in 1..n : i < j => acc.kept[i].at < acc.kept[j].at
    <3>1. \A i \in 1..n : acc.kept[i] \in Frames
      BY <2>2
    <3>2. \A i \in 1..n : acc.kept[i].at \in Int
      BY <3>1 DEF Frames
    <3> QED BY <3>2 DEF Sampling, InWindow
  \* What was kept before is before the new frame.
  <2>9. ASSUME NEW t \in Int, Clear(t, acc.next)
        PROVE  t < stamp /\ Clear(t, pos + SampleGap)
    <3>1. Ticks * t \in Int /\ (Ticks * t < Ticks * stamp => t < stamp)
      BY <1>6, TicksGrow
    <3> QED BY <1>1, <1>6, <2>0, <2>9, <3>1
  <2>12. Start <= stamp /\ stamp <= End /\ Clear(stamp, pos + SampleGap)
    <3>1. Clear(stamp, pos + SampleGap)
      BY <1>1, <1>6, <2>0
    <3>2. stamp <= End
      <4>1. Ticks * stamp < Ticks * End + Ticks
        BY <1>1, <1>6, <1>7, <2>0
      <4> QED BY <1>7, <4>1
    <3>3. Start <= stamp
      <4>1. Ticks * Start < Ticks * stamp + Ticks
        BY <1>1, <1>6, <1>7, <2>0
      <4> QED BY <1>7, <4>1
    <3> QED BY <3>1, <3>2, <3>3
  <2> HIDE DEF kept, new, n, Clear
  <2>6. \A i \in 1..(n + 1) : i \in 1..n \/ i = n + 1
    BY <2>2
  <2>7. \A i \in 1..Len(kept) : /\ kept[i].index = i - 1 /\ Start <= kept[i].at
                                /\ kept[i].at <= End
                                /\ Clear(kept[i].at, pos + SampleGap)
    <3> SUFFICES ASSUME NEW i \in 1..(n + 1)
                 PROVE  /\ kept[i].index = i - 1 /\ Start <= kept[i].at
                        /\ kept[i].at <= End /\ Clear(kept[i].at, pos + SampleGap)
      BY <2>3
    <3>1. CASE i \in 1..n
      <4>1. /\ kept[i].index = i - 1 /\ Start <= kept[i].at
            /\ kept[i].at <= End /\ Clear(kept[i].at, acc.next) /\ kept[i].at \in Int
        BY <2>3, <2>5, <3>1
      <4> QED BY <2>9, <4>1
    <3>2. CASE i = n + 1
      <4>1. kept[i].index = n /\ kept[i].at = stamp /\ n = i - 1
        BY <2>2, <2>3, <2>4, <3>2
      <4> QED BY <2>12, <4>1
    <3> QED BY <2>6, <3>1, <3>2
  <2>8. \A i, j \in 1..Len(kept) : i < j => kept[i].at < kept[j].at
    <3> SUFFICES ASSUME NEW i \in 1..(n + 1), NEW j \in 1..(n + 1), i < j
                 PROVE  kept[i].at < kept[j].at
      BY <2>3
    <3>1. i \in 1..n
      BY <2>2
    <3>2. CASE j \in 1..n
      BY <2>3, <2>5, <3>1, <3>2
    <3>3. CASE j = n + 1
      BY <2>3, <2>4, <2>5, <2>9, <3>1, <3>3
    <3> QED BY <2>6, <3>2, <3>3
  <2>10. InWindow(kept)
    BY <2>3, <2>7, <2>8 DEF InWindow
  <2>11. /\ SampleStep(acc, f) \in [next : Int, over : BOOLEAN, kept : Seq(Frames)]
         /\ SampleStep(acc, f).next = pos + SampleGap
         /\ SampleStep(acc, f).kept = kept
    <3>1. kept \in Seq(Frames) /\ pos + SampleGap \in Int
      BY <1>1, <2>3
    <3> QED BY <1>1, <2>1, <3>1
  <2>13. \A i \in 1..Len(kept) :
          2 * (Ticks * kept[i].at) + 2 * SampleGap <= 2 * (pos + SampleGap) + Ticks
    BY <2>7 DEF Clear
  <2>14. Start * Ticks <= pos + SampleGap
    BY <1>1, <2>0, TicksGrow
  <2> QED BY <2>10, <2>11, <2>13, <2>14 DEF Sampling
<1> QED BY <1>3, <1>4, <1>5

\* The first n steps of the sampling of a stream.
Unsampled == [next |-> Start * Ticks, over |-> FALSE, kept |-> <<>>]
Samples(t, n, stream) ==
  /\ t = [i \in 0..n |-> t[i]]
  /\ t[0] = Unsampled
  /\ \A i \in 1..n : t[i] = SampleStep(t[i - 1], stream[i])

\* What the sampling keeps of a stream: the recursion runs to the end of it, and
\* each step of it keeps the invariant.
LEMMA SampledInWindow ==
  ASSUME NEW stream \in Seq(Decoded)
  PROVE  InWindow(Sampled(stream))
<1> DEFINE n == Len(stream)
           after[i \in 0..n] == IF i = 0 THEN Unsampled
                                ELSE SampleStep(after[i - 1], stream[i])
<1>1. n \in Nat /\ \A i \in 1..n : stream[i] \in Decoded
  OBVIOUS
<1>2. Sampled(stream) = after[n].kept
  BY DEF Sampled, Unsampled
<1> HIDE DEF n
<1>3. \E t : Samples(t, n, stream)
  <2> DEFINE S == {m \in 0..n : \E t : Samples(t, m, stream)}
  <2>1. 0 \in S
    <3> DEFINE t == [i \in 0..0 |-> Unsampled]
    <3>1. t[0] = Unsampled /\ t = [i \in 0..0 |-> t[i]] /\ 1..0 = {}
      OBVIOUS
    <3> HIDE DEF t
    <3>2. Samples(t, 0, stream)
      BY <3>1 DEF Samples
    <3> QED BY <1>1, <3>2
  <2>2. ASSUME NEW m \in 0..n, m < n, m \in S
        PROVE  m + 1 \in S
    <3>1. PICK t : Samples(t, m, stream)
      BY <2>2
    <3> DEFINE x == [i \in 0..(m + 1) |->
                       IF i = m + 1 THEN SampleStep(t[m], stream[m + 1]) ELSE t[i]]
    <3>2. x = [i \in 0..(m + 1) |-> x[i]]
      OBVIOUS
    <3>3. x[m + 1] = SampleStep(t[m], stream[m + 1]) /\ \A i \in 0..m : x[i] = t[i]
      BY <1>1
    <3> HIDE DEF x
    <3>4. x[0] = Unsampled
      BY <1>1, <3>1, <3>3 DEF Samples
    <3>5. ASSUME NEW i \in 1..(m + 1)
          PROVE  x[i] = SampleStep(x[i - 1], stream[i])
      <4>1. CASE i = m + 1
        <5>1. i - 1 = m /\ m \in 0..m
          BY <1>1, <4>1
        <5> QED BY <3>3, <4>1, <5>1
      <4>2. CASE i # m + 1
        <5>1. i \in 1..m /\ i \in 0..m /\ i - 1 \in 0..m
          BY <1>1, <4>2
        <5> QED BY <3>1, <3>3, <5>1 DEF Samples
      <4> QED BY <4>1, <4>2
    <3>6. Samples(x, m + 1, stream)
      BY <3>2, <3>4, <3>5 DEF Samples
    <3>7. m + 1 \in 0..n
      BY <1>1, <2>2
    <3> QED BY <3>6, <3>7
  <2> HIDE DEF S
  <2>3. CountsUp(S, n)
    BY <1>1, <2>1, <2>2 DEF CountsUp
  <2>4. n \in S
    BY <1>1, <2>3, BoundedInduction
  <2> QED BY <2>4 DEF S
<1>4. after = [i \in 0..n |-> IF i = 0 THEN Unsampled
                              ELSE SampleStep(after[i - 1], stream[i])]
  <2>1. PICK t : Samples(t, n, stream)
    BY <1>3
  <2>2. \A i \in 0..n : t[i] = IF i = 0 THEN Unsampled
                               ELSE SampleStep(t[i - 1], stream[i])
    <3> SUFFICES ASSUME NEW i \in 0..n, i # 0 PROVE t[i] = SampleStep(t[i - 1], stream[i])
      BY <2>1 DEF Samples
    <3>1. i \in 1..n
      BY <1>1
    <3> QED BY <2>1, <3>1 DEF Samples
  <2>3. t = [i \in 0..n |-> IF i = 0 THEN Unsampled
                            ELSE SampleStep(t[i - 1], stream[i])]
    BY <2>1, <2>2, Zenon DEF Samples
  <2> QED BY <2>3
<1> HIDE DEF after
<1>5. n \in {m \in 0..n : Sampling(after[m])}
  <2> DEFINE S == {m \in 0..n : Sampling(after[m])}
  <2>1. 0 \in S
    <3>1. after[0] = Unsampled
      BY <1>1, <1>4
    <3>2. /\ Unsampled \in [next : Int, over : BOOLEAN, kept : Seq(Frames)]
          /\ Unsampled.next = Start * Ticks /\ Unsampled.kept = <<>>
          /\ Start \in Int /\ Start * Ticks \in Int
      BY FrameAssumption DEF Unsampled
    <3>3. 1..Len(<<>>) = {} /\ <<>> \in Seq(Frames)
      OBVIOUS
    <3>4. Sampling(Unsampled)
      BY <3>2, <3>3 DEF Sampling, InWindow
    <3> QED BY <1>1, <3>1, <3>4
  <2>2. ASSUME NEW m \in 0..n, m < n, m \in S
        PROVE  m + 1 \in S
    <3>1. m + 1 \in 0..n /\ m + 1 \in 1..n /\ m + 1 # 0 /\ (m + 1) - 1 = m
      BY <1>1, <2>2
    <3>2. after[m + 1] = SampleStep(after[m], stream[m + 1])
      BY <1>4, <3>1
    <3> QED BY <1>1, <2>2, <3>1, <3>2, SamplingStep
  <2> HIDE DEF S
  <2>3. CountsUp(S, n)
    BY <1>1, <2>1, <2>2 DEF CountsUp
  <2>4. n \in S
    BY <1>1, <2>3, BoundedInduction
  <2> QED BY <2>4 DEF S
<1> QED BY <1>2, <1>5 DEF Sampling

\* Frames that are told apart by their time as well as by their index.
Distinct(S) ==
  /\ IsFiniteSet(S)
  /\ \A f \in S : f.index \in Int /\ f.at \in Int /\ f.score \in Int
  /\ \A f, g \in S : f.at = g.at => f = g
  /\ \A f, g \in S : f.index = g.index => f = g

\* The list s has the frames of S in the order of their times.
ListsInOrder(s, S) ==
  /\ Len(s) = Cardinality(S) /\ DOMAIN s = 1..Cardinality(S)
  /\ Cardinality(S) \in Nat
  /\ \A i \in DOMAIN s : s[i] \in S
  /\ \A f \in S : \E i \in DOMAIN s : s[i] = f
  /\ \A i, j \in DOMAIN s : i < j => s[i].at < s[j].at

\* The final sort of select_frames.
LEMMA TimesInOrder ==
  ASSUME NEW S, Distinct(S)
  PROVE  ListsInOrder(InTimeOrder(S), S)
<1> DEFINE n == Cardinality(S)
           R == {p \in S \X S : p[1] = p[2] \/ Earlier(p[1], p[2])}
           s == InTimeOrder(S)
           Place(f) == Cardinality({g \in S : g = f \/ Earlier(g, f)})
<1>1. \A f, g \in S : <<f, g>> \in R <=> f.at <= g.at
  <2> TAKE f, g \in S
  <2>1. <<f, g>> \in R <=> f = g \/ Earlier(f, g)
    OBVIOUS
  <2>2. f = g \/ Earlier(f, g) <=> f.at <= g.at
    BY DEF Distinct, Earlier
  <2> QED BY <2>1, <2>2
<1>2. \A f \in S : Place(f) = Cardinality(Down(S, R, f))
  <2> TAKE f \in S
  <2>1. {g \in S : g = f \/ Earlier(g, f)} = Down(S, R, f)
    BY DEF Down
  <2> QED BY <2>1
<1>3. s = [i \in 1..n |-> CHOOSE f \in S : Place(f) = i]
  BY DEF InTimeOrder
<1> HIDE DEF R, Place, s
<1>4. Ordered(S, R)
  BY <1>1 DEF Ordered, Distinct
<1>5. /\ n \in Nat
      /\ \A f \in S : Place(f) \in 1..n
      /\ \A i \in 1..n : \E f \in S : Place(f) = i
      /\ \A f, g \in S : Place(f) = Place(g) => f = g
  <2>1. /\ n \in Nat
        /\ \A f \in S : Cardinality(Down(S, R, f)) \in 1..n
        /\ \A i \in 1..n : \E f \in S : Cardinality(Down(S, R, f)) = i
        /\ \A f, g \in S :
             Cardinality(Down(S, R, f)) = Cardinality(Down(S, R, g)) => f = g
    BY <1>4, Ranks DEF Ordered
  <2> QED BY <1>2, <2>1
<1>6. \A i \in 1..n : s[i] \in S /\ Place(s[i]) = i
  BY <1>3, <1>5
<1>7. \A f \in S : s[Place(f)] = f
  BY <1>5, <1>6
<1>8. s \in [1..n -> S]
  BY <1>3, <1>6
<1>9. s \in Seq(S) /\ DOMAIN s = 1..n
  <2> HIDE DEF n
  <2> QED BY <1>5, <1>8
<1>10. Len(s) = n
  <2> HIDE DEF n
  <2> QED BY <1>5, <1>9
<1>11. ASSUME NEW i \in 1..n, NEW j \in 1..n, i < j
       PROVE  s[i].at < s[j].at
  <2>1. s[i] \in S /\ s[j] \in S /\ Place(s[i]) = i /\ Place(s[j]) = j
    BY <1>6
  <2>2. s[i].at \in Int /\ s[j].at \in Int
    BY <2>1 DEF Distinct
  <2> SUFFICES ASSUME s[j].at <= s[i].at PROVE FALSE
    BY <2>2
  <2>3. <<s[j], s[i]>> \in R
    BY <1>1, <2>1
  <2>4. Down(S, R, s[j]) \in SUBSET Down(S, R, s[i])
    BY <1>4, <2>1, <2>3 DEF Ordered, Down
  <2>5. IsFiniteSet(Down(S, R, s[i]))
    <3>1. Down(S, R, s[i]) \in SUBSET S
      BY DEF Down
    <3> QED BY <1>4, <3>1, FS_Subset DEF Ordered
  <2>6. Cardinality(Down(S, R, s[j])) <= Cardinality(Down(S, R, s[i]))
    BY ONLY <2>4, <2>5, FS_Subset
  <2>7. j <= i
    BY <1>2, <2>1, <2>6
  <2> QED BY <1>5, <1>11, <2>7
<1>12. \A f \in S : \E i \in DOMAIN s : s[i] = f
  BY <1>5, <1>7, <1>9
<1> QED BY <1>5, <1>6, <1>9, <1>10, <1>11, <1>12 DEF ListsInOrder, s

\* The smaller of two numbers.
LEMMA LeastOfTwo ==
  ASSUME NEW a \in Int, NEW b \in Int
  PROVE  Min({a, b}) = IF a <= b THEN a ELSE b
<1>1. \E x \in {a, b} : \A y \in {a, b} : x <= y
  OBVIOUS
<1>2. Min({a, b}) \in {a, b} /\ \A y \in {a, b} : Min({a, b}) <= y
  BY <1>1 DEF Min
<1> QED BY <1>2

\* A set in one to one correspondence with 1..m has m members.
LEMMA CountedBy ==
  ASSUME NEW m \in Nat, NEW T, NEW f \in [T -> 1..m],
         \A x, y \in T : f[x] = f[y] => x = y,
         \A i \in 1..m : \E x \in T : f[x] = i
  PROVE  IsFiniteSet(T) /\ Cardinality(T) = m
<1>1. f \in Injection(T, 1..m)
  BY DEF Injection, IsInjective
<1>2. f \in Surjection(T, 1..m)
  BY DEF Surjection
<1>3. IsFiniteSet(1..m) /\ Cardinality(1..m) = m
  BY FS_Interval
<1> QED BY <1>1, <1>2, <1>3, FS_Injection

\* The n best frames of a set.
LEMMA BestCount ==
  ASSUME NEW S, Distinct(S), NEW n \in Nat
  PROVE  /\ BestOf(S, n) \subseteq S
         /\ Cardinality(BestOf(S, n)) = IF n <= Cardinality(S) THEN n ELSE Cardinality(S)
<1> DEFINE c == Cardinality(S)
           R == {p \in S \X S : p[1] = p[2] \/ Better(p[1], p[2])}
           T == BestOf(S, n)
           m == IF n <= c THEN n ELSE c
           Rank(f) == Cardinality(Down(S, R, f))
<1>1. \A f, g \in S : <<f, g>> \in R <=> f = g \/ Better(f, g)
  OBVIOUS
<1>2. \A f \in S : Rank(f) = Cardinality({g \in S : Better(g, f)}) + 1
  <2> TAKE f \in S
  <2> DEFINE B == {g \in S : Better(g, f)}
  <2>1. B \in SUBSET S
    OBVIOUS
  <2>2. IsFiniteSet(B)
    BY <2>1, FS_Subset DEF Distinct
  <2>3. f \notin B
    BY DEF Better, Distinct
  <2>4. Down(S, R, f) = B \cup {f}
    BY <1>1 DEF Down
  <2> HIDE DEF B
  <2>5. Cardinality(B \cup {f}) = Cardinality(B) + 1
    BY <2>2, <2>3, FS_AddElement
  <2> QED BY <2>4, <2>5 DEF B
<1> HIDE DEF R
<1>3. Ordered(S, R)
  <2>1. \A f, g \in S : f # g => Better(f, g) \/ Better(g, f)
    BY DEF Better, Distinct
  <2>2. \A f, g \in S : ~(Better(f, g) /\ Better(g, f))
    BY DEF Better, Distinct
  <2>3. \A f, g, h \in S : Better(f, g) /\ Better(g, h) => Better(f, h)
    BY DEF Better, Distinct
  <2> QED BY <1>1, <2>1, <2>2, <2>3 DEF Ordered, Distinct
<1>4. /\ c \in Nat
      /\ \A f \in S : Rank(f) \in 1..c
      /\ \A i \in 1..c : \E f \in S : Rank(f) = i
      /\ \A f, g \in S : Rank(f) = Rank(g) => f = g
  BY <1>3, Ranks DEF Ordered
<1> HIDE DEF Rank
<1>5. \A f \in S : f \in T <=> Rank(f) <= n
  <2> TAKE f \in S
  <2>1. f \in T <=> Cardinality({g \in S : Better(g, f)}) < n
    BY DEF BestOf
  <2>2. {g \in S : Better(g, f)} \in SUBSET S
    OBVIOUS
  <2>3. Cardinality({g \in S : Better(g, f)}) \in Nat
    BY <2>2, FS_Subset, FS_CardinalityType DEF Distinct
  <2> QED BY <1>2, <2>1, <2>3
<1>6. T \subseteq S
  BY DEF BestOf
<1> HIDE DEF T, c
<1>7. m \in Nat
  BY <1>4
<1> DEFINE r == [f \in T |-> Rank(f)]
<1>8. r \in [T -> 1..m]
  <2> SUFFICES ASSUME NEW f \in T PROVE Rank(f) \in 1..m
    OBVIOUS
  <2>1. Rank(f) \in 1..c /\ Rank(f) <= n
    BY <1>4, <1>5, <1>6
  <2> QED BY <1>4, <2>1
<1>9. \A x, y \in T : r[x] = r[y] => x = y
  BY <1>4, <1>6
<1>10. \A i \in 1..m : \E x \in T : r[x] = i
  <2> TAKE i \in 1..m
  <2>1. i \in 1..c /\ i <= n
    BY <1>4
  <2>2. PICK f \in S : Rank(f) = i
    BY <1>4, <2>1
  <2>3. f \in T
    BY <1>5, <2>1, <2>2
  <2> QED BY <2>2, <2>3
<1> HIDE DEF r, m
<1>11. Cardinality(T) = m
  BY ONLY <1>7, <1>8, <1>9, <1>10, CountedBy
<1> QED BY <1>6, <1>11 DEF T, m, c

\* A selection takes what it may, as much of it as the budget allows.
Selects(P, E, k) ==
  /\ P \subseteq E
  /\ Cardinality(P) = IF k <= Cardinality(E) THEN k ELSE Cardinality(E)

\* Steps of at least one land on different places.
LEMMA Strides ==
  ASSUME NEW k \in Nat \ {0}, NEW n \in Nat, k < n
  PROVE  /\ \A i \in 0..(k - 1) : (i * n) \div k + 1 \in 1..n
         /\ \A i, j \in 0..(k - 1) : i < j => (i * n) \div k < (j * n) \div k
<1>1. \A a \in Nat : /\ a \div k \in Int
                     /\ k * (a \div k) <= a /\ a < k * (a \div k) + k
  OBVIOUS
<1>2. \A a, b \in Int : k * a < k * b => a < b
  OBVIOUS
<1>3. \A a, b \in Int : a <= b => a * n <= b * n
  OBVIOUS
<1>4. \A i \in 0..(k - 1) : i * n \in Nat
  OBVIOUS
<1>5. ASSUME NEW i \in 0..(k - 1)
      PROVE  (i * n) \div k + 1 \in 1..n
  <2> DEFINE a == i * n
             y == a \div k
  <2>1. a \in Nat /\ y \in Int /\ k * y <= a /\ a < k * y + k
    BY <1>1, <1>4
  <2>2. a <= (k - 1) * n
    BY <1>3
  <2>3. (k - 1) * n = k * n - n /\ k * n \in Int
    OBVIOUS
  <2> HIDE DEF a, y
  <2>4. k * y < k * n /\ k * y \in Int
    BY <2>1, <2>2, <2>3
  <2>5. y < n
    BY <1>2, <2>1, <2>4
  <2>6. k * (y + 1) = k * y + k /\ k * 0 = 0
    BY <2>1
  <2>7. k * 0 < k * (y + 1)
    BY <2>1, <2>4, <2>6
  <2>8. 0 < y + 1
    BY <1>2, <2>1, <2>7
  <2>9. y + 1 \in 1..n
    BY <2>1, <2>5, <2>8
  <2> QED BY <2>9 DEF y, a
<1>6. ASSUME NEW i \in 0..(k - 1), NEW j \in 0..(k - 1), i < j
      PROVE  (i * n) \div k < (j * n) \div k
  <2> DEFINE a == i * n
             b == j * n
             y == a \div k
             z == b \div k
  <2>1. a \in Nat /\ y \in Int /\ k * y <= a
    BY <1>1, <1>4
  <2>2. b \in Nat /\ z \in Int /\ b < k * z + k
    BY <1>1, <1>4
  <2>3. (i + 1) * n <= b
    BY <1>3, <1>6
  <2>4. (i + 1) * n = a + n
    OBVIOUS
  <2> HIDE DEF a, b, y, z
  <2>5. k * y \in Int /\ k * z \in Int
    BY <2>1, <2>2
  <2>6. k * y < k * z
    BY <2>1, <2>2, <2>3, <2>4, <2>5
  <2>7. y < z
    BY <1>2, <2>1, <2>2, <2>6
  <2> QED BY <2>7 DEF y, z, a, b
<1> QED BY <1>5, <1>6

\* Strategy uniform: no two of the k steps meet the same frame.
LEMMA UniformSelects ==
  ASSUME NEW kept, Distinct(Eligible(kept)), NEW k \in Nat \ {0}
  PROVE  Selects(PickUniform(kept, k), Eligible(kept), k)
<1> DEFINE E == Eligible(kept)
           s == InTimeOrder(E)
           n == Cardinality(E)
           P == PickUniform(kept, k)
<1>1. ListsInOrder(s, E)
  BY TimesInOrder
<1>2. P = IF Len(s) <= k THEN ToSet(s)
          ELSE {s[Min({Len(s), ((i * Len(s)) \div k) + 1})] : i \in 0..(k - 1)}
  BY DEF PickUniform
<1> HIDE DEF E, s, n, P
<1>3. /\ Len(s) = n /\ n \in Nat /\ DOMAIN s = 1..n
      /\ \A i \in 1..n : s[i] \in E
      /\ \A f \in E : \E i \in 1..n : s[i] = f
      /\ \A i, j \in 1..n : i < j => s[i].at < s[j].at
  BY <1>1 DEF ListsInOrder, n
<1>4. CASE n <= k
  <2>1. P = E
    BY <1>2, <1>3, <1>4 DEF ToSet
  <2>2. n <= k /\ (k <= n => n = k)
    BY <1>3, <1>4
  <2> QED BY <2>1, <2>2 DEF Selects, n, P, E
<1>5. CASE ~(n <= k)
  <2> DEFINE Mark(i) == (i * n) \div k + 1
             g == [i \in 1..k |-> s[Mark(i - 1)]]
  <2>0. k < n
    BY <1>3, <1>5
  <2>1. /\ \A i \in 0..(k - 1) : Mark(i) \in 1..n
        /\ \A i, j \in 0..(k - 1) : i < j => (i * n) \div k < (j * n) \div k
    BY <1>3, <2>0, Strides
  <2>2. \A i, j \in 0..(k - 1) : i < j => Mark(i) < Mark(j)
    <3> TAKE i, j \in 0..(k - 1)
    <3>1. Mark(i) \in Int /\ Mark(j) \in Int
      BY <2>1
    <3>2. (i * n) \div k \in Int /\ (j * n) \div k \in Int
      BY <1>3
    <3> QED BY <2>1, <3>2
  <2> HIDE DEF Mark
  <2>3. \A i \in 0..(k - 1) : Min({n, Mark(i)}) = Mark(i)
    <3> TAKE i \in 0..(k - 1)
    <3>1. Mark(i) \in Int /\ Mark(i) <= n /\ n \in Int
      BY <1>3, <2>1
    <3> QED BY <3>1, LeastOfTwo
  <2>4. P = {s[Mark(i)] : i \in 0..(k - 1)}
    <3>1. P = {s[Min({n, Mark(i)})] : i \in 0..(k - 1)}
      BY <1>2, <1>3, <1>5 DEF Mark
    <3> QED BY <2>3, <3>1
  <2>5. \A i, j \in 0..(k - 1) : s[Mark(i)] = s[Mark(j)] => i = j
    <3> SUFFICES ASSUME NEW i \in 0..(k - 1), NEW j \in 0..(k - 1), i < j
                 PROVE  s[Mark(i)] # s[Mark(j)]
      OBVIOUS
    <3>1. Mark(i) \in 1..n /\ Mark(j) \in 1..n /\ Mark(i) < Mark(j)
      BY <2>1, <2>2
    <3>2. s[Mark(i)].at < s[Mark(j)].at
      BY <1>3, <3>1
    <3>3. s[Mark(i)].at \in Int
      BY <1>3, <3>1 DEF Distinct, E
    <3> QED BY <3>2, <3>3
  <2>6. \A i \in 1..k : i - 1 \in 0..(k - 1) /\ g[i] = s[Mark(i - 1)]
    OBVIOUS
  <2>7. g \in [1..k -> P]
    BY <2>4, <2>6
  <2>8. \A i, j \in 1..k : g[i] = g[j] => i = j
    <3> SUFFICES ASSUME NEW i \in 1..k, NEW j \in 1..k, g[i] = g[j] PROVE i = j
      OBVIOUS
    <3>1. i - 1 = j - 1
      BY <2>5, <2>6
    <3> QED BY <3>1
  <2>9. \A x \in P : \E i \in 1..k : g[i] = x
    <3> SUFFICES ASSUME NEW i \in 0..(k - 1) PROVE \E j \in 1..k : g[j] = s[Mark(i)]
      BY <2>4
    <3>1. i + 1 \in 1..k /\ (i + 1) - 1 = i
      OBVIOUS
    <3> QED BY <2>6, <3>1
  <2> HIDE DEF g
  <2>10. g \in Bijection(1..k, P)
    BY <2>7, <2>8, <2>9 DEF Bijection, Injection, Surjection, IsInjective
  <2>11. ExistsBijection(1..k, P)
    BY <2>10 DEF ExistsBijection
  <2>12. IsFiniteSet(1..k) /\ Cardinality(1..k) = k
    BY FS_Interval
  <2>13. Cardinality(P) = k
    BY ONLY <2>11, <2>12, FS_Bijection
  <2>14. P \subseteq E
    BY <1>3, <2>1, <2>4
  <2>15. k <= n
    BY <1>3, <2>0
  <2> QED BY <2>13, <2>14, <2>15 DEF Selects, P, E, n
<1> QED BY <1>4, <1>5

\* The frames to select from.
LEMMA EligibleFrames ==
  ASSUME NEW kept, InWindow(kept), kept # <<>>
  PROVE  /\ Distinct(Eligible(kept))
         /\ Len(kept) \in Nat \ {0}
         /\ \A f \in Eligible(kept) :
              /\ f.at \in Int /\ Start <= f.at /\ f.at <= End
              /\ \E i \in 1..Len(kept) : f = kept[i]
<1> DEFINE n == Len(kept)
           E == Eligible(kept)
           T == ToSet(kept)
<1>1. n \in Nat /\ DOMAIN kept = 1..n /\ \A i \in 1..n : kept[i] \in Frames
  BY DEF InWindow
<1>2. n # 0
  BY <1>1 DEF InWindow
<1>3. T = {kept[i] : i \in 1..n}
  BY <1>1 DEF ToSet
<1> HIDE DEF T, n
<1>4. \A i \in 1..n : /\ kept[i].at \in Int /\ kept[i].index \in Int /\ kept[i].score \in Int
                      /\ kept[i].index = i - 1 /\ Start <= kept[i].at /\ kept[i].at <= End
  BY <1>1 DEF InWindow, Frames, n
<1>5. \A i, j \in 1..n : i < j => kept[i].at < kept[j].at
  BY DEF InWindow, n
<1>6. E \in SUBSET T
  BY DEF Eligible, T
<1>7. IsFiniteSet(T)
  <2> DEFINE g == [i \in 1..n |-> kept[i]]
  <2>1. g \in Surjection(1..n, T)
    BY <1>3 DEF Surjection
  <2>2. IsFiniteSet(1..n)
    BY <1>1, FS_Interval
  <2> QED BY ONLY <2>1, <2>2, FS_Surjection
<1>8. IsFiniteSet(E)
  BY ONLY <1>6, <1>7, FS_Subset
<1>9. \A f \in E : \E i \in 1..n : f = kept[i]
  BY <1>3, <1>6
<1> HIDE DEF E
<1>10. \A f \in E : /\ f.index \in Int /\ f.at \in Int /\ f.score \in Int
                    /\ Start <= f.at /\ f.at <= End
  BY <1>4, <1>9
<1>11. \A i, j \in 1..n : \/ i = j
                          \/ kept[i].at # kept[j].at /\ kept[i].index # kept[j].index
  <2> SUFFICES ASSUME NEW i \in 1..n, NEW j \in 1..n, i < j
               PROVE  kept[i].at # kept[j].at /\ kept[i].index # kept[j].index
    BY <1>1
  <2>1. kept[i].at < kept[j].at /\ kept[i].at \in Int /\ kept[j].at \in Int
    BY <1>4, <1>5
  <2>2. kept[i].index = i - 1 /\ kept[j].index = j - 1
    BY <1>4
  <2> QED BY <1>1, <2>1, <2>2
<1>12. \A f, g \in E : (f.at = g.at => f = g) /\ (f.index = g.index => f = g)
  BY <1>9, <1>11
<1>13. Distinct(E)
  BY <1>8, <1>10, <1>12 DEF Distinct
<1> QED BY <1>1, <1>2, <1>9, <1>10, <1>13 DEF E, n

\* Every frame to select from is in one of the k parts of the window.
LEMMA Buckets ==
  ASSUME NEW kept, InWindow(kept), kept # <<>>, NEW k \in Nat \ {0},
         NEW f \in Eligible(kept)
  PROVE  Bucket(kept, k, f) \in 0..(k - 1)
<1> DEFINE n == Len(kept)
           first == kept[1].at
           wide == kept[n].at - first + 1
           span == Max({1, wide})
           x == (f.at - first) * k
<1>1. n \in Nat \ {0} /\ f.at \in Int
  BY EligibleFrames
<1>2. PICK i \in 1..n : f = kept[i]
  BY EligibleFrames
<1>3. \A j \in 1..n : kept[j] \in Frames
  BY <1>1 DEF InWindow
<1>4. \A j \in 1..n : kept[j].at \in Int
  BY <1>3 DEF Frames
<1>5. \A a, b \in 1..n : a < b => kept[a].at < kept[b].at
  BY DEF InWindow
<1> HIDE DEF n
<1>6. first \in Int /\ wide \in Int /\ first <= f.at
  <2>1. 1 \in 1..n /\ n \in 1..n /\ (i = 1 \/ 1 < i)
    BY <1>1, <1>2
  <2>2. first \in Int /\ kept[n].at \in Int
    BY <1>4, <2>1
  <2>3. i = 1 \/ first < kept[i].at
    BY <1>2, <1>5, <2>1
  <2> QED BY <1>1, <1>2, <2>2, <2>3
<1> HIDE DEF first, wide
<1>7. span \in Nat \ {0}
  <2>1. \E y \in {1, wide} : \A z \in {1, wide} : y >= z
    BY <1>6
  <2>2. span \in {1, wide} /\ span >= 1
    BY <2>1 DEF Max
  <2> QED BY <1>6, <2>2
<1> HIDE DEF span
<1>8. x \in Nat
  <2>1. f.at - first \in Nat
    BY <1>1, <1>6
  <2> QED BY <2>1
<1> HIDE DEF x
<1>9. x \div span \in Nat
  BY <1>7, <1>8
<1>10. Min({k - 1, x \div span}) = IF k - 1 <= x \div span THEN k - 1 ELSE x \div span
  BY <1>9, LeastOfTwo
<1>11. Min({k - 1, x \div span}) \in 0..(k - 1)
  BY <1>9, <1>10
<1>12. Bucket(kept, k, f) = Min({k - 1, x \div span})
  BY DEF Bucket, x, span, wide, first, n
<1> QED BY <1>11, <1>12

\* Strategy bins_then_score: the best frame of every part, and the best of the
\* rest.
LEMMA BinsSelect ==
  ASSUME NEW kept, InWindow(kept), kept # <<>>, NEW k \in Nat \ {0}
  PROVE  /\ Selects(PickBins(kept, k), Eligible(kept), k)
         /\ \A f \in Eligible(kept) : \E p \in PickBins(kept, k) :
              Bucket(kept, k, p) = Bucket(kept, k, f)
<1> DEFINE E == Eligible(kept)
           B(f) == Bucket(kept, k, f)
           best == {f \in E : \A g \in E : B(f) = B(g) /\ f # g => Better(f, g)}
           b == Cardinality(best)
           rest == E \ best
           more == BestOf(rest, k - b)
           n == Cardinality(E)
<1>1. PickBins(kept, k) = best \cup more
  BY DEF PickBins
<1>2. Distinct(E) /\ \A f \in E : B(f) \in 0..(k - 1)
  BY EligibleFrames, Buckets
<1> HIDE DEF E, B
<1>3. \A f, g \in E : f # g => (Better(f, g) <=> ~Better(g, f))
  BY <1>2 DEF Better, Distinct
<1>4. best \in SUBSET E /\ rest \in SUBSET E
  OBVIOUS
<1>5. IsFiniteSet(E) /\ IsFiniteSet(best) /\ IsFiniteSet(rest)
  BY <1>2, <1>4, FS_Subset DEF Distinct
<1>6. b <= k
  <2> DEFINE h == [f \in best |-> B(f)]
  <2>1. h \in [best -> 0..(k - 1)]
    BY <1>2, <1>4
  <2>2. \A f, g \in best : h[f] = h[g] => f = g
    BY <1>3, <1>4
  <2>3. h \in Injection(best, 0..(k - 1))
    BY <2>1, <2>2 DEF Injection, IsInjective
  <2>4. IsFiniteSet(0..(k - 1)) /\ Cardinality(0..(k - 1)) = k
    BY FS_Interval
  <2> HIDE DEF h, best
  <2> QED BY <2>3, <2>4, FS_Injection
<1>7. ASSUME NEW f \in E
      PROVE  \E p \in best : B(p) = B(f)
  <2> DEFINE S == {g \in E : B(g) = B(f)}
             R == {p \in E \X E : p[1] = p[2] \/ Better(p[2], p[1])}
  <2>1. S \in SUBSET E /\ f \in S
    OBVIOUS
  <2>2. IsFiniteSet(S)
    BY ONLY <1>5, <2>1, FS_Subset
  <2>3. \A x, y \in S : <<x, y>> \in R <=> x = y \/ Better(y, x)
    OBVIOUS
  <2>4. \A x, y, z \in S : Better(x, y) /\ Better(y, z) => Better(x, z)
    BY <1>2, <2>1 DEF Better, Distinct
  <2>5. \A x, y \in S : x # y => (Better(x, y) <=> ~Better(y, x))
    BY <1>3, <2>1
  <2> HIDE DEF R
  <2>6. Ordered(S, R)
    <3> HIDE DEF S
    <3> QED BY <2>2, <2>3, <2>4, <2>5 DEF Ordered
  <2>7. PICK p \in S : \A j \in S : <<j, p>> \in R
    <3>1. S # {}
      BY <2>1
    <3> HIDE DEF S
    <3> QED BY ONLY <2>6, <3>1, TopElement
  <2>8. p \in E /\ B(p) = B(f)
    OBVIOUS
  <2>9. ASSUME NEW g \in E, B(p) = B(g), p # g
        PROVE  Better(p, g)
    <3>1. g \in S
      BY <2>8, <2>9
    <3> QED BY <2>3, <2>7, <2>9, <3>1
  <2> QED BY <2>8, <2>9
<1> HIDE DEF best
<1>8. /\ b \in Nat /\ n \in Nat /\ b <= n
      /\ Cardinality(rest) = n - b
  <2>1. b \in Nat /\ n \in Nat
    BY <1>5, FS_CardinalityType
  <2>2. b <= n
    BY <1>4, <1>5, FS_Subset
  <2>3. Cardinality(rest) = n - Cardinality(E \cap best)
    BY <1>5, FS_Difference
  <2>4. E \cap best = best
    BY <1>4
  <2> QED BY <2>1, <2>2, <2>3, <2>4
<1>9. Distinct(rest)
  BY <1>2, <1>4, <1>5 DEF Distinct
<1>10. k - b \in Nat
  BY <1>6, <1>8
<1> HIDE DEF b, rest, n
<1>11. /\ more \subseteq rest
       /\ Cardinality(more) = IF k - b <= n - b THEN k - b ELSE n - b
  BY <1>8, <1>9, <1>10, BestCount
<1> HIDE DEF more
<1>12. IsFiniteSet(more) /\ best \cap more = {}
  BY <1>5, <1>11, FS_Subset DEF rest
<1>13. Cardinality(best \cup more) = b + Cardinality(more)
  <2>1. Cardinality(best \cap more) = 0
    BY <1>12, FS_EmptySet
  <2>2. Cardinality(best \cup more) =
          Cardinality(best) + Cardinality(more) - Cardinality(best \cap more)
    BY ONLY <1>5, <1>12, FS_Union
  <2>3. Cardinality(more) \in Nat
    BY <1>12, FS_CardinalityType
  <2> QED BY <1>8, <2>1, <2>2, <2>3 DEF b
<1>14. best \cup more \subseteq E
  BY <1>4, <1>11 DEF rest
<1>15. Cardinality(best \cup more) = IF k <= n THEN k ELSE n
  BY <1>6, <1>8, <1>11, <1>13
<1>16. Selects(best \cup more, E, k)
  BY <1>14, <1>15 DEF Selects, n
<1>17. \A f \in E : \E p \in best \cup more : B(p) = B(f)
  BY <1>7
<1> QED BY <1>1, <1>16, <1>17 DEF E, B

\* A selection is faithful to what it was made from.
FaithfulTo(s, kept, strategy) ==
  LET eligible == Eligible(kept)
  IN /\ \A i \in DOMAIN s : Start <= s[i].at /\ s[i].at <= End
     /\ \A i \in 1..(Len(s) - 1) : s[i].at < s[i + 1].at
     /\ Len(s) = Min({FrameCount, Cardinality(eligible)})
     /\ ToSet(s) \subseteq eligible
     /\ strategy = "bins_then_score" =>
          \A f \in eligible :
            \E i \in DOMAIN s :
              Bucket(kept, FrameCount, s[i]) = Bucket(kept, FrameCount, f)

\* Each strategy selects faithfully.
LEMMA SelectsFaithfully ==
  ASSUME NEW kept, InWindow(kept), kept # <<>>, FrameCount > 0, NEW strategy
  PROVE  FaithfulTo(SelectFrames(kept, FrameCount, strategy), kept, strategy)
<1> DEFINE E == Eligible(kept)
           P == Picks(kept, FrameCount, strategy)
           s == SelectFrames(kept, FrameCount, strategy)
           c == Cardinality(P)
<1>1. FrameCount \in Nat \ {0}
  BY FrameAssumption
<1>2. /\ Distinct(E)
      /\ \A f \in E : f.at \in Int /\ Start <= f.at /\ f.at <= End
  BY EligibleFrames
<1>3. s = InTimeOrder(P)
  BY <1>1 DEF SelectFrames
<1>4. Selects(P, E, FrameCount)
  <2>1. CASE strategy = "uniform"
    BY <1>1, <1>2, <2>1, UniformSelects DEF Picks
  <2>2. CASE strategy = "score"
    <3>1. P = BestOf(E, FrameCount)
      BY <2>2 DEF Picks
    <3>2. FrameCount \in Nat
      BY <1>1
    <3> HIDE DEF E, P
    <3> QED BY <1>2, <3>1, <3>2, BestCount DEF Selects
  <2>3. CASE strategy # "uniform" /\ strategy # "score"
    BY <1>1, <2>3, BinsSelect DEF Picks
  <2> QED BY <2>1, <2>2, <2>3
<1>5. strategy = "bins_then_score" => \A f \in E : \E p \in P :
        Bucket(kept, FrameCount, p) = Bucket(kept, FrameCount, f)
  BY <1>1, BinsSelect DEF Picks
<1> HIDE DEF E, P, s
<1>6. Distinct(P)
  <2>1. P \in SUBSET E
    BY <1>4 DEF Selects
  <2>2. IsFiniteSet(P)
    BY <1>2, <2>1, FS_Subset DEF Distinct
  <2> QED BY <1>2, <2>1, <2>2 DEF Distinct
<1>7. /\ Len(s) = c /\ DOMAIN s = 1..c /\ c \in Nat
      /\ \A i \in 1..c : s[i] \in P
      /\ \A f \in P : \E i \in 1..c : s[i] = f
      /\ \A i, j \in 1..c : i < j => s[i].at < s[j].at
  <2>1. ListsInOrder(s, P)
    BY <1>3, <1>6, TimesInOrder
  <2> QED BY <2>1 DEF ListsInOrder
<1>8. P \subseteq E /\ c = IF FrameCount <= Cardinality(E) THEN FrameCount ELSE Cardinality(E)
  BY <1>4 DEF Selects
<1> HIDE DEF c
<1>9. Len(s) = Min({FrameCount, Cardinality(E)})
  <2>1. Cardinality(E) \in Int
    BY <1>2, FS_CardinalityType DEF Distinct
  <2> QED BY <1>1, <1>7, <1>8, <2>1, LeastOfTwo
<1>10. \A i \in DOMAIN s : Start <= s[i].at /\ s[i].at <= End
  BY <1>2, <1>7, <1>8
<1>11. \A i \in 1..(Len(s) - 1) : s[i].at < s[i + 1].at
  <2> TAKE i \in 1..(Len(s) - 1)
  <2>1. i \in 1..c /\ i + 1 \in 1..c /\ i < i + 1
    BY <1>7
  <2> QED BY <1>7, <2>1
<1>12. ToSet(s) \subseteq E
  BY <1>7, <1>8 DEF ToSet
<1>13. strategy = "bins_then_score" =>
         \A f \in E : \E i \in DOMAIN s :
           Bucket(kept, FrameCount, s[i]) = Bucket(kept, FrameCount, f)
  BY <1>5, <1>7
<1>14. FaithfulTo(s, kept, strategy)
  BY <1>9, <1>10, <1>11, <1>12, <1>13 DEF FaithfulTo, E
<1> QED BY <1>14 DEF s

\* A unit decodes only when there is something to select, and nothing touches
\* what it has selected before it writes the first frame.
SelectedInv ==
  \A u \in Units :
    /\ run[u].pc \in {"import", "boot", "decode", "write"} => FrameCount > 0
    /\ run[u].pc = "write" /\ run[u].media = <<>> =>
         /\ run[u].kept = Sampled(setting.streams[u]) /\ run[u].kept # <<>>
         /\ run[u].todo = SelectFrames(run[u].kept, FrameCount, setting.strategy)

\* Of all steps, only the decoding makes a selection.
LEMMA SelectedStep ==
  ASSUME FrameInv, SelectedInv, [FrameNext]_frameVars
  PROVE  SelectedInv'
<1>1. FilesInv /\ DOMAIN run = Units /\ \A v \in Units : DOMAIN run[v] = RunFields
  BY DEF FrameInv, FilesInv
<1>2. CASE UNCHANGED frameVars
  BY <1>2 DEF frameVars, SelectedInv
<1>3. CASE Warmup
  <2>1. \A v \in Units : run'[v].pc \in {"idle", "done"}
    BY <1>3 DEF Warmup, Cold
  <2> QED BY <2>1 DEF SelectedInv
<1>4. ASSUME NEW u \in Units,
             \/ Begin(u) \/ ImportBegins(u) \/ ImportEnds(u)
             \/ Decode(u) \/ OpenFails(u) \/ WriteFrame(u) \/ WriteFrameFails(u)
             \/ Fallback(u) \/ FfmpegFrame(u) \/ PassClip(u) \/ Extracted(u)
             \/ NoGate(u) \/ Gate(u) \/ GateRetries(u) \/ Analyze(u) \/ Release(u)
      PROVE  SelectedInv'
  <2>1. setting' = setting /\ \A v \in Units : v # u => run'[v] = run[v]
    BY <1>1, <1>4 DEF Begin, ImportBegins, ImportEnds, Decode, OpenFails, WriteFrame,
       WriteFrameFails, Fallback, FfmpegFrame, PassClip, Extracted, NoGate, Gate,
       GateRetries, Analyze, Release, Leave
  <2> SUFFICES /\ run'[u].pc \in {"import", "boot", "decode", "write"} => FrameCount > 0
               /\ run'[u].pc = "write" /\ run'[u].media = <<>> =>
                    /\ run'[u].kept = Sampled(setting.streams[u]) /\ run'[u].kept # <<>>
                    /\ run'[u].todo =
                         SelectFrames(run'[u].kept, FrameCount, setting.strategy)
    BY <2>1 DEF SelectedInv
  <2>2. CASE Begin(u)
    <3>1. FrameCount \in Int /\ Start \in Int /\ End \in Int
      BY FrameAssumption
    <3>2. run'[u].pc # "write" /\ (run'[u].pc # "done" => ~(FrameCount <= 0))
      BY <1>1, <2>2 DEF Begin, Leave, RunFields
    <3> QED BY <3>1, <3>2
  <2>3. CASE ImportBegins(u) \/ ImportEnds(u)
    <3>1. run[u].pc \in {"import", "boot"} /\ run'[u].pc # "write"
      BY <1>1, <2>3 DEF ImportBegins, ImportEnds, At, RunFields
    <3> QED BY <3>1 DEF SelectedInv
  <2>4. CASE Decode(u)
    <3> DEFINE kept == Sampled(setting.streams[u])
    <3>1. run[u].pc = "decode"
      BY <2>4 DEF Decode, At
    <3>2. \/ run'[u].pc = "done"
          \/ /\ kept # <<>> /\ run'[u].pc = "write" /\ run'[u].kept = kept
             /\ run'[u].todo = SelectFrames(kept, FrameCount, setting.strategy)
      BY <1>1, <2>4 DEF Decode, Leave, RunFields
    <3> HIDE DEF kept
    <3>3. FrameCount > 0
      BY <3>1 DEF SelectedInv
    <3> QED BY <3>2, <3>3 DEF kept
  <2>5. CASE WriteFrame(u)
    <3>1. run[u].pc = "write" /\ run'[u].pc = "write"
      BY <1>1, <2>5 DEF WriteFrame, At, RunFields
    <3>2. PICK path : run'[u].media = Append(run[u].media, path)
      BY <1>1, <2>5 DEF WriteFrame, RunFields
    <3>3. run[u].media \in Seq(ToSet(run[u].media))
      BY <1>1 DEF FilesInv, MediaOK
    <3>4. Append(run[u].media, path) # <<>>
      <4>1. Len(Append(run[u].media, path)) # Len(<<>>)
        BY <3>3
      <4> QED BY ONLY <4>1
    <3>5. run'[u].media # <<>>
      BY <3>2, <3>4
    <3> QED BY <3>1, <3>5 DEF SelectedInv
  <2>6. CASE \/ OpenFails(u) \/ WriteFrameFails(u) \/ Fallback(u) \/ PassClip(u)
             \/ Extracted(u) \/ NoGate(u) \/ Analyze(u) \/ Release(u)
    <3>1. run'[u].pc \notin {"import", "boot", "decode", "write"}
      BY <1>1, <2>6 DEF OpenFails, WriteFrameFails, Fallback, PassClip, Extracted,
         NoGate, Analyze, Release, Leave, RunFields
    <3> QED BY <3>1
  <2>7. CASE Gate(u)
    <3>1. PICK to \in {"vlm", "release", "done"} :
            \E end : run' = [run EXCEPT ![u].pc = to, ![u].end = end]
      BY <2>7 DEF Gate
    <3>2. run'[u].pc = to
      BY <1>1, <3>1 DEF RunFields
    <3> QED BY <3>2
  <2>8. CASE FfmpegFrame(u) \/ GateRetries(u)
    <3>1. run'[u].pc \in {"ffmpeg", "gate", "done"}
      BY <1>1, <2>8 DEF FfmpegFrame, GateRetries, At, Leave, RunFields
    <3> QED BY <3>1
  <2> QED BY <1>4, <2>2, <2>3, <2>4, <2>5, <2>6, <2>7, <2>8
<1> QED BY <1>2, <1>3, <1>4 DEF FrameNext

\* For every stream, window, budget and strategy, what a unit is about to write
\* is in time order, inside the window, as much as there is up to the budget,
\* and of the best quality there is, with every part of the window represented
\* under bins_then_score (select_frames, _iter_sampled_frames).
THEOREM SelectionsAreFaithful == FrameSpec => []SelectionIsFaithful
<1>1. FrameInit => SelectedInv
  BY DEF FrameInit, SelectedInv, Cold
<1>2. FrameInv /\ SelectedInv /\ [FrameNext]_frameVars => SelectedInv'
  BY SelectedStep
<1>3. FrameInv /\ SelectedInv => SelectionIsFaithful
  <2> SUFFICES ASSUME FrameInv, SelectedInv, NEW u \in Units,
                      run[u].pc = "write", run[u].media = <<>>
               PROVE  FaithfulTo(run[u].todo, run[u].kept, setting.strategy)
    BY DEF SelectionIsFaithful, FaithfulTo, At
  <2>1. setting \in Cases
    BY DEF FrameInv, ImportInv
  <2>2. setting.streams[u] \in Seq(Decoded)
    BY <2>1, FrameAssumption DEF Decoded
  <2>3. InWindow(run[u].kept) /\ run[u].kept # <<>> /\ FrameCount > 0
    BY <2>2, SampledInWindow DEF SelectedInv
  <2>4. run[u].todo = SelectFrames(run[u].kept, FrameCount, setting.strategy)
    BY DEF SelectedInv
  <2> QED BY <2>3, <2>4, SelectsFaithfully
<1> QED BY <1>1, <1>2, <1>3, FrameInvHolds, PTL DEF FrameSpec
=============================================================================
