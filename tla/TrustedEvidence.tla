-------------------------- MODULE TrustedEvidence --------------------------
(***************************************************************************)
(* The trusted evidence of the Companion (trusted_evidence.py): rows in    *)
(* memory, newest first, saved as a whole after every one of them.         *)
(*                                                                         *)
(* Home Assistant's Store (external) writes one save at a time.  A caller  *)
(* that waits leaves its data behind; whoever is next writes the newest    *)
(* data, and those that then find nothing left to write return at once.    *)
(***************************************************************************)
EXTENDS Integers, Sequences

CONSTANTS
    Rows,     \* what a row says
    Writers,  \* who records: the handlers that wait for their save
    MaxRows,  \* rows kept (max_rows)
    NoSave

VARIABLES
    events,   \* the rows in memory
    logFile,  \* the rows on disk
    writer,   \* the save being written, or NoSave
    waiting,  \* callers that wait for the writer to end
    unsaved   \* their data has not been taken up by a writer yet

evidenceVars == <<events, logFile, writer, waiting, unsaved>>

Save == [by : Writers, rows : Seq(Rows)]

ASSUME EvidenceAssumption == MaxRows \in Nat \ {0} /\ NoSave \notin Save

EvidenceInit ==
    /\ events = <<>> /\ logFile = <<>>
    /\ writer = NoSave /\ waiting = {} /\ unsaved = FALSE

-----------------------------------------------------------------------------
\* mutant: one row too many is kept
PruneLate(rows) ==
    SubSeq(rows, 1, IF Len(rows) > MaxRows + 1 THEN MaxRows + 1 ELSE Len(rows))

\* _prune
Prune(rows) == SubSeq(rows, 1, IF Len(rows) > MaxRows THEN MaxRows ELSE Len(rows))

\* async_record, up to its save
Record(by, row) ==
    /\ events' = Prune(<<row>> \o events)
    /\ IF writer = NoSave
       THEN /\ writer' = [by |-> by, rows |-> events']
            /\ UNCHANGED <<waiting, unsaved>>
       ELSE /\ waiting' = waiting \cup {by}
            /\ unsaved' = TRUE
            /\ UNCHANGED writer
    /\ UNCHANGED logFile

\* callers whose async_save returns when the writer ends
Returning == {writer.by} \cup (IF unsaved THEN {} ELSE waiting)

NextSave ==
    /\ \/ unsaved /\ \E w \in waiting :
             /\ writer' = [by |-> w, rows |-> events]
             /\ waiting' = waiting \ {w}
       \/ ~unsaved /\ writer' = NoSave /\ waiting' = {}
    /\ unsaved' = FALSE
    /\ UNCHANGED events

SaveLands == writer # NoSave /\ logFile' = writer.rows /\ NextSave

\* the write raises, or the Store logs its error and goes on
SaveFails == writer # NoSave /\ NextSave /\ UNCHANGED logFile

\* mutant: a restart begins with an empty log
ReopenedEmpty ==
    /\ events' = <<>>
    /\ writer' = NoSave /\ waiting' = {} /\ unsaved' = FALSE
    /\ UNCHANGED logFile

\* async_initialize after the process ended
Reopened ==
    /\ events' = logFile
    /\ writer' = NoSave /\ waiting' = {} /\ unsaved' = FALSE
    /\ UNCHANGED logFile

-----------------------------------------------------------------------------
EvidenceTypeOK ==
    /\ events \in Seq(Rows) /\ Len(events) <= MaxRows
    /\ logFile \in Seq(Rows) /\ Len(logFile) <= MaxRows
    /\ writer \in Save \cup {NoSave}
    /\ waiting \subseteq Writers
    /\ unsaved \in BOOLEAN

\* the rows of log, but for those the retention has dropped meanwhile
Keeps(log, row) == Len(log) = MaxRows \/ \E n \in DOMAIN log : log[n] = row

\* new rows on top of some of the old ones, none of which is lost before the
\* retention is reached
Extends(old, new) ==
    \E k \in 0..Len(old) :
        /\ k <= Len(new)
        /\ \A n \in 1..k : new[Len(new) - k + n] = old[n]
        /\ k < Len(old) => Len(new) = MaxRows

\* The file is append-only: whatever saves are merged, fail or are cut off by
\* a restart, it never loses or rewrites a row before the retention drops it.
EvidenceAppendOnly == [][Extends(logFile, logFile')]_evidenceVars
=============================================================================
