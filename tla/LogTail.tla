---- MODULE LogTail ----
(***************************************************************************)
(* A log that is followed from check to check (utils/tailfile.py,          *)
(* checks/datadog.py) while its writer appends to it and something else    *)
(* rotates, truncates or removes it.                                       *)
(***************************************************************************)
EXTENDS Naturals, Sequences, FiniteSets, SequencesExt

CONSTANTS
    CrcSize,        \* CRC_SIZE, in halves of a line
    LineKinds,      \* what a line holds: "gauge", "counter", "event" or "nothing"
    Looks,          \* what the beginning of a line may look like
    MaxLines,       \* bound on the lines that are written
    MaxUpheavals,   \* bound on rotations, truncations and removals
    MaxChecks       \* bound on the checks

ASSUME TailAssumption ==
    /\ CrcSize \in Nat \ {0}
    /\ LineKinds \subseteq {"gauge", "counter", "event", "nothing"}
    /\ MaxLines \in Nat /\ MaxUpheavals \in Nat /\ MaxChecks \in Nat

VARIABLES
    files,      \* files there ever were: sequences of halves [line, end, kind, look]
    path,       \* which one is at log_path; 0 is none
    cutSince,   \* it was truncated since the reader last looked at it
    written, upheavals, checks,
    tailPc,     \* "idle", "stat", "open" or "read"
    gen,        \* Dogstream._gen is there, and its file is open
    handle,     \* the file that is open
    pos,        \* where it reads, and where it is told to go on
    seekTo,     \* _open_file(): "start", "end" or "pos"
    seen,       \* what stat() gave last: [inode, size, crc]
    values,     \* Dogstream._values of this check: lines
    delivered,  \* history: lines that were handed to the callback whole, in order
    tailReports, \* history: what each check made of its lines, and how many were delivered by then
    unseen       \* history: lines that were torn or skipped, and if the reader was misled

diskVars == <<files, path, cutSince, written, upheavals>>
readerVars == <<checks, tailPc, gen, handle, pos, seekTo, seen, values, delivered, tailReports, unseen>>
tailVars == <<diskVars, readerVars>>

NotSeen == [inode |-> 0, size |-> 0, crc |-> <<>>]

TailInit ==
    /\ files = <<<<>>>> /\ path = 1 /\ cutSince = FALSE
    /\ written = 0 /\ upheavals = 0 /\ checks = 0
    /\ tailPc = "idle" /\ gen = FALSE /\ handle = 0 /\ pos = 0 /\ seekTo = "end"
    /\ seen = NotSeen /\ values = <<>>
    /\ delivered = <<>> /\ tailReports = <<>>
    /\ unseen = [lines |-> {}, misled |-> FALSE]

(***************************************************************************)
(* The log                                                                 *)
(***************************************************************************)
LogContent == files[path]
Unfinished == LogContent # <<>> /\ ~LogContent[Len(LogContent)].end
Half(line, end, kind, look) == [line |-> line, end |-> end, kind |-> kind, look |-> look]
Extend(halves) == files' = [files EXCEPT ![path] = @ \o halves]

WriteLine ==
    /\ path # 0 /\ ~Unfinished /\ written < MaxLines
    /\ written' = written + 1
    /\ \E kind \in LineKinds, look \in Looks :
          \/ Extend(<<Half(written', FALSE, kind, look), Half(written', TRUE, kind, look)>>)
          \/ Extend(<<Half(written', FALSE, kind, look)>>)
    /\ UNCHANGED <<path, cutSince, upheavals, readerVars>>

FinishLine ==
    /\ path # 0 /\ Unfinished
    /\ Extend(<<[LogContent[Len(LogContent)] EXCEPT !.end = TRUE]>>)
    /\ UNCHANGED <<path, cutSince, written, upheavals, readerVars>>

Upheaval == upheavals < MaxUpheavals /\ upheavals' = upheavals + 1 /\ UNCHANGED <<written, readerVars>>

\* Renamed and created again; in between there may be none.
Rotate ==
    /\ path # 0 /\ Upheaval
    /\ files' = Append(files, <<>>) /\ path' = Len(files') /\ cutSince' = FALSE
Unlink ==
    /\ path # 0 /\ Upheaval
    /\ path' = 0 /\ UNCHANGED <<files, cutSince>>
Create ==
    /\ path = 0
    /\ files' = Append(files, <<>>) /\ path' = Len(files') /\ cutSince' = FALSE
    /\ UNCHANGED <<written, upheavals, readerVars>>
Truncate ==
    /\ path # 0 /\ LogContent # <<>> /\ Upheaval
    /\ files' = [files EXCEPT ![path] = <<>>] /\ cutSince' = TRUE /\ UNCHANGED path

(***************************************************************************)
(* Dogstream.check()                                                       *)
(***************************************************************************)
StartTailCheck ==
    /\ tailPc = "idle" /\ checks < MaxChecks
    /\ checks' = checks + 1
    /\ values' = <<>>
    /\ tailPc' = "stat"
    /\ seekTo' = IF gen THEN "pos" ELSE "end"
    /\ UNCHANGED <<diskVars, gen, handle, pos, seen, delivered, tailReports, unseen>>

\* _aggregate(): of gauges the last one, of counters the sum.  Events are kept apart.
OfKind(lines, kind) == SelectSeq(lines, LAMBDA h : h.kind = kind)
Aggregate(lines) ==
    LET gauges == OfKind(lines, "gauge")
        events == OfKind(lines, "event")
    IN  [gauge |-> IF gauges = <<>> THEN 0 ELSE gauges[Len(gauges)].line,
         counter |-> Len(OfKind(lines, "counter")),
         events |-> [i \in DOMAIN events |-> events[i].line]]

CheckDone(alive) ==
    /\ tailPc' = "idle"
    /\ gen' = alive
    /\ tailReports' = Append(tailReports, [made |-> Aggregate(values), upto |-> Len(delivered)])
    /\ UNCHANGED <<diskVars, checks, seekTo, seen, values, delivered>>

\* No file: the generator ends, and the next check starts at the end of the file.
CannotOpen ==
    /\ tailPc \in {"stat", "open"} /\ path = 0
    /\ CheckDone(FALSE)
    /\ UNCHANGED <<handle, pos, unseen>>

(***************************************************************************)
(* TailFile._open_file()                                                   *)
(***************************************************************************)
Crc == IF Len(LogContent) >= CrcSize
       THEN [i \in 1..CrcSize |-> <<LogContent[i].look, LogContent[i].end>>] ELSE <<>>

Replaced == path # seen.inode
Shrunk == seen.size > 0 /\ Len(LogContent) < seen.size
\* Mutant: only a file that is empty now was truncated.
ShrunkToNothing == seen.size > 0 /\ Len(LogContent) = 0
Truncated == Shrunk
BeginningModified == Len(LogContent) >= CrcSize /\ seen.crc # <<>> /\ Crc # seen.crc

\* A truncated file that has grown again, as far as the reader can tell.
LooksTheSame == cutSince /\ ~Replaced /\ Len(LogContent) >= seen.size /\ ~BeginningModified

Stat ==
    /\ tailPc = "stat" /\ path # 0
    /\ seekTo' = IF gen /\ (Replaced \/ Truncated \/ BeginningModified) THEN "start" ELSE seekTo
    /\ unseen' = [unseen EXCEPT !.misled = @ \/ (gen /\ LooksTheSame)]
    /\ seen' = [inode |-> path, size |-> Len(LogContent), crc |-> Crc]
    /\ cutSince' = FALSE
    /\ tailPc' = "open"
    /\ UNCHANGED <<files, path, written, upheavals, checks, gen, handle, pos, values, delivered, tailReports>>

LinesBefore(halves, n) == {halves[i].line : i \in {j \in DOMAIN halves : j <= n}}

\* The file may be another one than that of stat(), or shorter.
Open ==
    /\ tailPc = "open" /\ path # 0
    /\ handle' = path
    /\ pos' = CASE seekTo = "end" -> Len(LogContent) [] seekTo = "start" -> 0 [] seekTo = "pos" -> pos
    /\ unseen' = [lines |-> IF seekTo = "end" THEN unseen.lines \union LinesBefore(LogContent, Len(LogContent))
                            ELSE unseen.lines,
                  misled |-> unseen.misled \/ path # seen.inode \/ cutSince]
    /\ gen' = TRUE
    /\ tailPc' = "read"
    /\ UNCHANGED <<diskVars, checks, seekTo, seen, values, delivered, tailReports>>

(***************************************************************************)
(* TailFile.tail(): read until the end of the file                         *)
(***************************************************************************)
Unread == SubSeq(files[handle], pos + 1, Len(files[handle]))
NextEnd == CHOOSE i \in DOMAIN Unread : (Unread[i].end \/ i = Len(Unread)) /\ \A j \in 1..(i - 1) : ~Unread[j].end

\* What is written of a line is handed to the parser, which makes nothing, or
\* something else, of half a line.
ReadLine ==
    /\ tailPc = "read" /\ Unread # <<>>
    /\ pos' = pos + NextEnd
    /\ IF NextEnd = 2
       THEN /\ delivered' = Append(delivered, Unread[1])
            /\ values' = Append(values, Unread[1])
       ELSE UNCHANGED <<delivered, values>>
    /\ unseen' = [lines |-> IF NextEnd = 2 THEN unseen.lines ELSE unseen.lines \union {Unread[1].line},
                  misled |-> unseen.misled \/ (handle = path /\ cutSince)]
    /\ UNCHANGED <<diskVars, checks, tailPc, gen, handle, seekTo, seen, tailReports>>

EndOfFile ==
    /\ tailPc = "read" /\ Unread = <<>>
    /\ CheckDone(TRUE)
    /\ UNCHANGED <<handle, pos, unseen>>

LogStep == WriteLine \/ FinishLine \/ Rotate \/ Unlink \/ Create \/ Truncate
ReaderStep == StartTailCheck \/ CannotOpen \/ Stat \/ Open \/ ReadLine \/ EndOfFile
TailNext == LogStep \/ ReaderStep

TailSpec == TailInit /\ [][TailNext]_tailVars

----
DeliveredLines == {delivered[i].line : i \in DOMAIN delivered}

\* The lines that were delivered between the end of the check before and that of this one.
UpTo(n) == IF n = 0 THEN 0 ELSE tailReports[n].upto
DeliveredDuring(n) == SubSeq(delivered, UpTo(n - 1) + 1, UpTo(n))

\* Unless the log was truncated and has come to look like before, or that happens while
\* it is read, or it is replaced while it is opened: lines are delivered once and in
\* order, and at the end of the file each of its lines was delivered, but for those it
\* had at the first check, or after it had been missing, and those read while they were
\* half written.  In any case each check reports what was delivered since the one
\* before it, and together they report all of it (TailFile._open_file, Dogstreams.check).
LinesFollowed ==
    /\ ~unseen.misled =>
        /\ \A i, j \in DOMAIN delivered : i < j => delivered[i].line < delivered[j].line
        /\ tailPc = "read" /\ Unread = <<>> /\ handle = path /\ ~cutSince =>
              LinesBefore(LogContent, Len(LogContent)) \subseteq DeliveredLines \union unseen.lines
    /\ \A n \in DOMAIN tailReports : tailReports[n].made = Aggregate(DeliveredDuring(n))
    /\ tailPc = "idle" => UpTo(Len(tailReports)) = Len(delivered)
====
