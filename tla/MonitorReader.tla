--------------------------- MODULE MonitorReader ---------------------------
(***************************************************************************)
(* internal/monitor/store.go, ReadRecords: the command-line statistics are *)
(* another process, which lists the directory, reads the rotated files and *)
(* then the current one while the service of MonitorStore goes on writing, *)
(* rotating and removing.  Only the file system is shared, and each file   *)
(* is read through the handle it was opened with.                          *)
(***************************************************************************)
EXTENDS MonitorStore

VARIABLES
    reader,   \* "idle", "rotated", "current", "done", or "spinning"
    listed,   \* the rotated files that ReadDir returned and are to be read
    found,    \* allRecords
    twice,    \* history: a record was appended to allRecords a second time
    target    \* history: the records on disk when ReadRecords was called

readerVars == <<reader, listed, found, twice, target>>

ReaderInit ==
    /\ Init
    /\ reader = "idle"
    /\ listed = {}
    /\ found = {}
    /\ twice = FALSE
    /\ target = {}

\* os.ReadDir(dir)
ReadDir ==
    /\ reader = "idle"
    /\ reader' = "rotated"
    /\ listed' = DOMAIN rotated
    /\ target' = OnDisk
    /\ UNCHANGED <<found, twice, vars>>

\* readFile.  On a malformed line Decode fails without moving on and More stays
\* true: the loop of readFile never ends.
ReadFile(file, next) ==
    /\ reader' = IF file.torn THEN "spinning" ELSE next
    /\ found' = found \cup file.recs
    /\ twice' = (twice \/ found \cap file.recs # {})

\* The rotated files in the order of their names; one that cleanOld has
\* removed meanwhile is logged and passed over.
ReadRotated ==
    /\ reader = "rotated"
    /\ \E t \in listed :
           /\ \A u \in listed : t <= u
           /\ listed' = listed \ {t}
           /\ IF t \in DOMAIN rotated
              THEN ReadFile(rotated[t], "rotated")
              ELSE UNCHANGED <<reader, found, twice>>
    /\ UNCHANGED <<target, vars>>

RotatedRead ==
    /\ reader = "rotated"
    /\ listed = {}
    /\ reader' = "current"
    /\ UNCHANGED <<listed, found, twice, target, vars>>

\* Mutant: a current file that was just renamed is waited for by starting
\* over with the records read so far.
ReadCurrentRetries ==
    /\ reader = "current"
    /\ IF exists THEN ReadFile(current, "done")
                 ELSE reader' = "idle" /\ UNCHANGED <<found, twice>>
    /\ UNCHANGED <<listed, target, vars>>

\* A missing current file is no error.
ReadCurrent ==
    /\ reader = "current"
    /\ IF exists THEN ReadFile(current, "done")
                 ELSE reader' = "done" /\ UNCHANGED <<found, twice>>
    /\ UNCHANGED <<listed, target, vars>>

\* The statistics are printed; the command can be run again.
Printed ==
    /\ reader = "done"
    /\ reader' = "idle"
    /\ listed' = {}
    /\ found' = {}
    /\ twice' = FALSE
    /\ target' = {}
    /\ UNCHANGED vars

ReaderNext == ReadDir \/ ReadRotated \/ RotatedRead \/ ReadCurrent \/ Printed

Next2 == (Next /\ UNCHANGED readerVars) \/ ReaderNext

ReaderSpec == ReaderInit /\ [][Next2]_<<vars, readerVars>>

\* The command runs to its end: nothing it does waits for another process.
FairReaderSpec ==
    /\ ReaderSpec
    /\ WF_<<vars, readerVars>>(ReadRotated \/ RotatedRead \/ ReadCurrent)
-----------------------------------------------------------------------------
(* Properties.                                                             *)

\* No record is counted twice in the statistics, although the current file
\* may become a rotated one while the command runs: it is read last.
ReadOnce == ~twice

\* "ReadRecords reads all records from the current and rotated files"
\* (store.go:189): a record on disk from the call to the return is among
\* those returned.
NothingMissed == reader = "done" => target \cap OnDisk \subseteq found

\* "continue // skip malformed lines" (store.go:250): a partial line is
\* skipped and ReadRecords returns.
MalformedLinesSkipped == reader = "rotated" ~> reader = "done"
=============================================================================
