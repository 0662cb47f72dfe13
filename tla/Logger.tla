-------------------------------- MODULE Logger --------------------------------
(***************************************************************************)
(* The process log (Logger.cpp): threads put lines into a queue, one       *)
(* writer thread appends them to a file that is changed after maxLines_    *)
(* lines; with asyncEnabled_ off the caller writes itself.  The destructor *)
(* stops the writer and joins it.  The writer holds the mutex while it     *)
(* empties the queue, so this is one step.                                 *)
(***************************************************************************)
EXTENDS Naturals, Sequences, SequencesExt

CONSTANTS
    MaxLines,    \* maxLines_
    MaxMessage   \* bound on messages

ASSUME LoggerAssumptions == MaxLines \in Nat \ {0} /\ MaxMessage \in Nat

VARIABLES
    logged,      \* number of messages accepted; a message is its number
    unnotified,  \* pushes whose notify_one is still to come
    async,       \* asyncEnabled_, as configured
    lines, logging,
    writer,      \* asleep, awake, ended
    files,       \* the lines of each file, the last one is open
    lineCount,
    joined       \* the destructor has returned

loggerVars == <<async, logged, unnotified, lines, logging, writer, files, lineCount, joined>>

LoggerInit ==
    /\ async \in BOOLEAN
    /\ logged = 0 /\ unnotified = 0 /\ lines = <<>> /\ logging = TRUE /\ writer = "awake"
    /\ files = << <<>> >> /\ lineCount = 0 /\ joined = FALSE

\* rotateFile, when the open file is full.
RotateFile(out) ==
    IF out.count >= MaxLines THEN [files |-> Append(out.files, <<>>), count |-> 0] ELSE out

\* One line is appended to the open file.
WriteLine(out, msg) ==
    RotateFile([files |-> [out.files EXCEPT ![Len(out.files)] = Append(@, msg)],
                count |-> out.count + 1])

\* log: the line is pushed under the mutex and the writer notified after it.
Log ==
    /\ logged < MaxMessage /\ ~joined
    /\ logged' = logged + 1
    /\ \/ /\ async
          /\ lines' = Append(lines, logged + 1)
          /\ unnotified' = unnotified + 1
          /\ UNCHANGED <<files, lineCount>>
       \/ /\ ~async
          /\ LET out == WriteLine([files |-> files, count |-> lineCount], logged + 1)
             IN  files' = out.files /\ lineCount' = out.count
          /\ UNCHANGED <<lines, unnotified>>
    /\ UNCHANGED <<async, logging, writer, joined>>

Woken == IF writer = "asleep" THEN "awake" ELSE writer

NotifyWriter ==
    /\ unnotified > 0
    /\ unnotified' = unnotified - 1
    /\ writer' = Woken
    /\ UNCHANGED <<async, logged, lines, logging, files, lineCount, joined>>

\* Faulty variant: a stopped writer leaves the queue alone.
EndsWhenStopped == ~logging

\* The loop of the writer ends.
WriterEnds == ~logging /\ lines = <<>>

\* asyncWrite: wait, end, or write out the whole queue.
AsyncWrite ==
    /\ writer = "awake"
    /\ \/ /\ WriterEnds
          /\ writer' = "ended"
          /\ UNCHANGED <<lines, files, lineCount>>
       \/ /\ ~WriterEnds /\ lines = <<>>
          /\ writer' = "asleep"
          /\ UNCHANGED <<lines, files, lineCount>>
       \/ /\ ~WriterEnds /\ lines # <<>>
          /\ LET out == FoldLeft(WriteLine, [files |-> files, count |-> lineCount], lines)
             IN  files' = out.files /\ lineCount' = out.count
          /\ lines' = <<>>
          /\ UNCHANGED writer
    /\ UNCHANGED <<async, logged, unnotified, logging, joined>>

\* The destructor: running_ is cleared and the writer notified ...
StopWriter ==
    /\ logging
    /\ logging' = FALSE
    /\ writer' = Woken
    /\ UNCHANGED <<async, logged, unnotified, lines, files, lineCount, joined>>

\* ... and joined.
JoinWriter ==
    /\ ~logging /\ writer = "ended" /\ ~joined
    /\ joined' = TRUE
    /\ UNCHANGED <<async, logged, unnotified, lines, logging, writer, files, lineCount>>

LoggerNext == Log \/ NotifyWriter \/ AsyncWrite \/ StopWriter \/ JoinWriter

\* The writer and the threads that have pushed run.
LoggerFairness ==
    /\ WF_loggerVars(AsyncWrite) /\ WF_loggerVars(NotifyWriter) /\ WF_loggerVars(JoinWriter)

LoggerSpec == LoggerInit /\ [][LoggerNext]_loggerVars /\ LoggerFairness

-----------------------------------------------------------------------------
(* Properties.                                                             *)

\* Type invariant of the logger.
LoggerTypeOK ==
    /\ writer \in {"asleep", "awake", "ended"} /\ logging \in BOOLEAN /\ joined \in BOOLEAN
    /\ lineCount \in 0..MaxLines /\ async \in BOOLEAN

\* Queued lines are written out in the end, also those that are logged while
\* the process stops and the writer has not ended yet: there comes a moment
\* when the files hold all that was logged, in order, nothing lost or twice.
LinesWritten ==
    (lines # <<>> /\ writer # "ended") ~> (FlattenSeq(files) = [i \in 1..logged |-> i])
=============================================================================
