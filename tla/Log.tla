-------------------------------- MODULE Log --------------------------------
(***************************************************************************)
(* The system log.  logd keeps fixed-size records in system.log, moves a   *)
(* full file to system.log.old, and on the first request after a start     *)
(* repairs both files, imports the kernel's early log of this boot and     *)
(* adds a start record.  Services submit records, logv reads them page by  *)
(* page.  logd or the machine may stop between any two steps and in the    *)
(* middle of a write.  A file is the sequence of its records; a piece of a *)
(* record that was written in part is Torn, and as records are found by    *)
(* position nothing behind it can be read.  Debug records are answered     *)
(* without being stored and do not appear.                                 *)
(***************************************************************************)
EXTENDS Naturals, Sequences, FiniteSets

CONSTANTS RecordUnits,      \* size of a record; a torn piece is one unit
          StorageMax,       \* LOGD_STORAGE_MAX, in units
          EarlyLines,       \* lines of the kernel's boot.log
          EarlyMax,         \* LOGD_EARLY_RECORD_MAX
          QueryMax,         \* MG_LOG_QUERY_MAX
          MaxSubmits, MaxBoots, MaxLogFaults

VARIABLES file,             \* system.log, .old and .recover
          lg,               \* logd
          boot,             \* the identity of this boot
          view,             \* logv
          acked,            \* records whose submission succeeded, not yet rotated out
          hurt,             \* a file was damaged in a way the code does not repair
          submits, logFaults

logVars == <<file, lg, boot, view, acked, hurt, submits, logFaults>>

Torn == [seq |-> 0, boot |-> 0, from |-> "torn"]
Missing == [there |-> FALSE, data |-> <<>>]
Holding(data) == [there |-> TRUE, data |-> data]

Fresh == [at |-> "idle", ready |-> FALSE, seq |-> 1, ask |-> "none", which |-> "old",
          valid |-> 0, batch |-> <<>>, then |-> "none"]

NoView == [at |-> "off", boot |-> FALSE, offset |-> 0, got |-> <<>>, moved |-> FALSE]

LogInit ==
    /\ file = [ f \in {"cur", "old", "rec"} |-> Missing ]
    /\ lg = Fresh
    /\ boot = 1
    /\ view = NoView
    /\ acked = {}
    /\ hurt = FALSE
    /\ submits = 0 /\ logFaults = 0
-----------------------------------------------------------------------------
(* Files.                                                                  *)

Pieces(data) == { i \in 1..Len(data) : data[i] = Torn }

Size(data) == RecordUnits * (Len(data) - Cardinality(Pieces(data)))
              + Cardinality(Pieces(data))

\* The records in front of the first torn piece: what record_valid accepts
\* at the positions a reader looks at.
ValidLength(data) == IF Pieces(data) = {} THEN Len(data)
                     ELSE (CHOOSE i \in Pieces(data) : \A j \in Pieces(data) : i <= j) - 1

Readable(data) == SubSeq(data, 1, ValidLength(data))
Logged == Readable(file["old"].data) \o Readable(file["cur"].data)

\* What a write that was cut off may leave: some of the records, and perhaps
\* a piece of the next.
Partly(data, batch) ==
    { data \o SubSeq(batch, 1, k) : k \in 0..(Len(batch) - 1) } \cup
    { data \o SubSeq(batch, 1, k) \o <<Torn>> : k \in 0..(Len(batch) - 1) }

Go(l) == lg' = l
Keep(f) == file' = f
Same == UNCHANGED <<boot, view, acked, submits, logFaults>>
Fault == logFaults < MaxLogFaults /\ logFaults' = logFaults + 1
-----------------------------------------------------------------------------
(* Requests.                                                               *)

Served(ask) == [lg EXCEPT !.ask = ask, !.at = IF lg.ready THEN "serve" ELSE "ensure"]

\* mg_log_submit by a service.
mg_log_submit ==
    /\ lg.at = "idle" /\ submits < MaxSubmits
    /\ submits' = submits + 1
    /\ Go(Served("submit"))
    /\ UNCHANGED <<file, boot, view, acked, hurt, logFaults>>

\* logv starts to list all records or those of this boot.
scan_logs(current) ==
    /\ view.at = "off"
    /\ view' = [NoView EXCEPT !.at = "ask", !.boot = current]
    /\ UNCHANGED <<file, lg, boot, acked, hurt, submits, logFaults>>

\* It asks for the next page.
request_log ==
    /\ view.at = "ask" /\ lg.at = "idle"
    /\ view' = [view EXCEPT !.at = "wait"]
    /\ Go(Served("query"))
    /\ UNCHANGED <<file, boot, acked, hurt, submits, logFaults>>

\* The answer of logd that is not a page: back to the loop, an error ends logv.
Answered(l) == [l EXCEPT !.at = "idle", !.ask = "none", !.batch = <<>>, !.then = "none",
                         !.which = "old", !.valid = 0]
Dropped == IF view.at = "wait" THEN NoView ELSE view
-----------------------------------------------------------------------------
(* initialize_storage                                                      *)

ensure_storage ==
    /\ lg.at = "ensure"
    /\ Keep(IF file["cur"].there THEN file ELSE [file EXCEPT !["cur"] = Holding(<<>>)])
    /\ Go([lg EXCEPT !.at = "recover", !.which = "old"])
    /\ UNCHANGED hurt /\ Same

EnsureFails ==
    /\ lg.at = "ensure" /\ Fault
    /\ Go(Answered(lg))
    /\ view' = Dropped
    /\ UNCHANGED <<file, boot, acked, hurt, submits>>

\* A mutant: the number of the last record is used again.
NoteSame(seq, data, n) ==
    IF n > 0 /\ data[n].seq > seq THEN data[n].seq ELSE seq

\* The next sequence number after the first n records of a file (they are in
\* order) have been noted.
note_sequence(seq, data, n) ==
    IF n > 0 /\ data[n].seq >= seq THEN data[n].seq + 1 ELSE seq

\* The rest of initialize_storage after a file has been dealt with.
NextFile(l) == IF l.which = "old" THEN [l EXCEPT !.at = "recover", !.which = "cur", !.valid = 0]
               ELSE [l EXCEPT !.at = "adopt", !.which = "old", !.valid = 0]

\* A file was read up to record n; a file with more in it is cut there.
ReadUpTo(n) ==
    LET f == file[lg.which]
        l == [lg EXCEPT !.seq = note_sequence(lg.seq, f.data, n), !.valid = n]
    IN  Go(IF n = Len(f.data) THEN NextFile(l)
           ELSE [l EXCEPT !.at = IF n = 0 THEN "truncate" ELSE "recreate"])

recover_file ==
    /\ lg.at = "recover"
    /\ IF ~file[lg.which].there THEN Go(NextFile(lg))
       ELSE ReadUpTo(ValidLength(file[lg.which].data))
    /\ UNCHANGED <<file, hurt>> /\ Same

\* A read fails in the middle, or the file cannot be opened at all: the first
\* is taken for a damaged rest, the second is ignored.
RecoverReadFails ==
    /\ lg.at = "recover" /\ file[lg.which].there /\ Fault
    /\ \/ \E n \in 0..ValidLength(file[lg.which].data) :
            n < Len(file[lg.which].data) /\ ReadUpTo(n)
       \/ Go(NextFile(lg))
    /\ hurt' = TRUE
    /\ UNCHANGED <<file, boot, view, acked, submits>>

\* A mutant: a damaged file is emptied.
PrefixEmptied ==
    /\ lg.at \in {"truncate", "recreate"}
    /\ Keep([file EXCEPT ![lg.which] = Holding(<<>>)])
    /\ Go(NextFile(lg))
    /\ UNCHANGED hurt /\ Same

\* recover_file_prefix: a file without a valid record is emptied, else the
\* recovery file is made anew, filled with the valid records and put in the
\* place of the damaged one.
recover_file_prefix ==
    /\ \/ /\ lg.at = "truncate"
          /\ Keep([file EXCEPT ![lg.which] = Holding(<<>>)])
          /\ Go(NextFile(lg))
       \/ /\ lg.at = "recreate"
          /\ Keep([file EXCEPT !["rec"] = Holding(<<>>)])
          /\ Go([lg EXCEPT !.at = "copy"])
       \/ /\ lg.at = "copy"
          /\ Keep([file EXCEPT !["rec"] = Holding(SubSeq(file[lg.which].data, 1, lg.valid))])
          /\ Go([lg EXCEPT !.at = "drop"])
       \/ /\ lg.at = "drop"
          /\ Keep([file EXCEPT ![lg.which] = Missing])
          /\ Go([lg EXCEPT !.at = "replace"])
       \/ /\ lg.at = "replace"
          /\ Keep([file EXCEPT ![lg.which] = file["rec"], !["rec"] = Missing])
          /\ Go(NextFile(lg))
    /\ UNCHANGED hurt /\ Same

\* One of its steps fails: the recovery file goes, and initialize_storage does
\* not look at the result.
RecoverPrefixFails ==
    /\ lg.at \in {"truncate", "recreate", "copy", "drop", "replace"} /\ Fault
    /\ Keep(IF lg.at = "truncate" THEN file ELSE [file EXCEPT !["rec"] = Missing])
    /\ Go(NextFile(lg))
    /\ hurt' = (hurt \/ lg.at = "replace")
    /\ UNCHANGED <<boot, view, acked, submits>>

Records(from, n) == [ i \in 1..n |-> [seq |-> lg.seq + i - 1, boot |-> boot, from |-> from] ]

Appending(from, n, then) ==
    [lg EXCEPT !.at = "append", !.batch = Records(from, n), !.seq = @ + n, !.then = then]

\* A mutant: only the current file is searched.
InCurrentOnly(b) ==
    \E i \in 1..ValidLength(file["cur"].data) : file["cur"].data[i].boot = b

current_boot_is_logged(b) == \E i \in 1..Len(Logged) : Logged[i].boot = b

Early == IF EarlyLines < EarlyMax THEN EarlyLines ELSE EarlyMax

\* The early log is imported unless a record of this boot is there already.
adopt_early_log ==
    /\ lg.at = "adopt"
    /\ Go(IF current_boot_is_logged(boot) \/ Early = 0
          THEN [lg EXCEPT !.at = "start"] ELSE Appending("kernel", Early, "start"))
    /\ UNCHANGED <<file, hurt>> /\ Same

\* A log file cannot be opened for the search: its records are not seen.
AdoptBlind ==
    /\ lg.at = "adopt" /\ Early > 0 /\ Fault
    /\ Go(Appending("kernel", Early, "start"))
    /\ hurt' = TRUE
    /\ UNCHANGED <<file, boot, view, acked, submits>>

append_start_record ==
    /\ lg.at = "start"
    /\ Go(Appending("logd", 1, "ready"))
    /\ UNCHANGED <<file, hurt>> /\ Same
-----------------------------------------------------------------------------
(* append_records                                                          *)

\* What follows an append.  The results of the two during the start do not
\* matter; a submission is answered.
Appended(l) ==
    CASE l.then = "start" -> [l EXCEPT !.at = "start", !.batch = <<>>, !.then = "none"]
      [] l.then = "ready" -> [l EXCEPT !.at = "serve", !.batch = <<>>, !.then = "none",
                                       !.ready = TRUE]
      [] OTHER -> Answered(l)

Fits(data, n) == Size(data) + n * RecordUnits <= StorageMax

\* Rotation is asked for when the batch does not fit, and happens when not
\* even one record does.
append_records ==
    /\ lg.at = "append"
    /\ LET cur == file["cur"]
       IN  Go(IF ~cur.there THEN Appended(lg)
              ELSE IF Fits(cur.data, Len(lg.batch)) THEN [lg EXCEPT !.at = "write"]
              ELSE IF Fits(cur.data, 1) THEN Appended(lg)
              ELSE [lg EXCEPT !.at = "unold"])
    /\ UNCHANGED <<file, hurt>> /\ Same

Moved == [view EXCEPT !.moved = view.at # "off"]

rotate_if_needed ==
    /\ \/ /\ lg.at = "unold"
          /\ Keep([file EXCEPT !["old"] = Missing])
          /\ acked' = { r \in acked : \A i \in 1..Len(file["old"].data) : file["old"].data[i] # r }
          /\ view' = Moved
          /\ Go([lg EXCEPT !.at = "move"])
       \/ /\ lg.at = "move"
          /\ Keep([file EXCEPT !["old"] = file["cur"], !["cur"] = Missing])
          /\ Go([lg EXCEPT !.at = "renew"])
          /\ UNCHANGED <<acked, view>>
       \/ /\ lg.at = "renew"
          /\ Keep([file EXCEPT !["cur"] = Holding(<<>>)])
          /\ Go(IF Fits(<<>>, Len(lg.batch)) THEN [lg EXCEPT !.at = "write"]
                ELSE Appended(lg))
          /\ UNCHANGED <<acked, view>>
    /\ UNCHANGED <<boot, hurt, submits, logFaults>>

\* A step of the rotation fails; the submission is refused.
RotateFails ==
    /\ lg.at \in {"unold", "move", "renew"} /\ Fault
    /\ Go(Appended(lg))
    /\ UNCHANGED <<file, boot, view, acked, hurt, submits>>

\* The batch is written at the end of the file.  Behind a torn piece it can
\* never be read.
Write ==
    /\ lg.at = "write"
    /\ Keep([file EXCEPT !["cur"].data = @ \o lg.batch])
    /\ acked' = IF lg.then = "answer" THEN acked \cup {lg.batch[1]} ELSE acked
    /\ hurt' = (hurt \/ Pieces(file["cur"].data) # {})
    /\ Go(Appended(lg))
    /\ UNCHANGED <<boot, view, submits, logFaults>>

WriteFails ==
    /\ lg.at = "write" /\ Fault
    /\ \E data \in Partly(file["cur"].data, lg.batch) : Keep([file EXCEPT !["cur"].data = data])
    /\ Go(Appended(lg))
    /\ UNCHANGED <<boot, view, acked, hurt, submits>>
-----------------------------------------------------------------------------
(* Serving.                                                                *)

handle_submit ==
    /\ lg.at = "serve" /\ lg.ask = "submit"
    /\ Go(Appending("service", 1, "answer"))
    /\ UNCHANGED <<file, hurt>> /\ Same

query_matches(r) == ~view.boot \/ r.boot = boot

\* One file: what matches is counted, the first "skip" matches are passed
\* over, and the page takes as many as it has room for.
scan_query_file(data, skip, page) ==
    LET match == SelectSeq(Readable(data), query_matches)
        room == QueryMax - Len(page)
        rest == IF skip >= Len(match) THEN <<>> ELSE SubSeq(match, skip + 1, Len(match))
    IN  [total |-> Len(match), skip |-> IF skip >= Len(match) THEN skip - Len(match) ELSE 0,
         page |-> page \o SubSeq(rest, 1, IF Len(rest) < room THEN Len(rest) ELSE room)]

\* A mutant: only the matches of the last file are counted.
QueryCountsLast(offset) ==
    LET a == scan_query_file(file["old"].data, offset, <<>>)
        b == scan_query_file(file["cur"].data, a.skip, a.page)
    IN  [page |-> b.page, total |-> b.total]

Query(offset) ==
    LET a == scan_query_file(file["old"].data, offset, <<>>)
        b == scan_query_file(file["cur"].data, a.skip, a.page)
    IN  [page |-> b.page, total |-> a.total + b.total]

\* The page is answered and logv goes on behind it, or is done.
handle_query ==
    /\ lg.at = "serve" /\ lg.ask = "query"
    /\ LET q == Query(view.offset)
           next == view.offset + Len(q.page)
       IN  view' = [view EXCEPT !.got = @ \o q.page,
                                !.at = IF next < q.total THEN "ask" ELSE "done",
                                !.offset = IF next < q.total THEN next ELSE 0]
    /\ Go(Answered(lg))
    /\ UNCHANGED <<file, boot, acked, hurt, submits, logFaults>>

\* logv has printed what it got.
Close == view.at = "done" /\ view' = NoView
         /\ UNCHANGED <<file, lg, boot, acked, hurt, submits, logFaults>>

\* logd dies, or the whole machine restarts, perhaps in the middle of a write.
Stops(next) ==
    /\ next <= MaxBoots /\ Fault
    /\ boot' = next
    /\ lg' = Fresh
    /\ view' = IF next = boot THEN Dropped ELSE NoView
    /\ file' \in {file} \cup
         (IF lg.at = "write"
          THEN { [file EXCEPT !["cur"].data = d] : d \in Partly(file["cur"].data, lg.batch) }
          ELSE {})
    /\ hurt' = (hurt \/ lg.at = "replace")
    /\ UNCHANGED <<acked, submits>>

LogNext ==
    \/ mg_log_submit \/ \E b \in BOOLEAN : scan_logs(b)
    \/ request_log \/ Close
    \/ ensure_storage \/ EnsureFails
    \/ recover_file \/ RecoverReadFails \/ recover_file_prefix \/ RecoverPrefixFails
    \/ adopt_early_log \/ AdoptBlind \/ append_start_record
    \/ append_records \/ rotate_if_needed \/ RotateFails \/ Write \/ WriteFails
    \/ handle_submit \/ handle_query
    \/ \E next \in {boot, boot + 1} : Stops(next)

LogSpec == LogInit /\ [][LogNext]_logVars
-----------------------------------------------------------------------------
(* Properties.                                                             *)

\* A record whose submission was answered with success can be read until the
\* rotation drops it, however often logd stops: in a log file or, while a
\* repaired file is put in place, in the recovery file.  (Not covered are the
\* windows in which the code does lose records: a read error during the
\* repair, a stop between the removal of the damaged file and the move of the
\* repaired one, and appending behind a piece that was not cut off.)
AckedKept ==
    hurt \/ \A r \in acked :
              \/ \E i \in 1..Len(Logged) : Logged[i] = r
              \/ lg.at = "replace" /\ \E i \in 1..Len(file["rec"].data) : file["rec"].data[i] = r

\* Sequence numbers increase through both files, so no two records share one:
\* after every start numbering goes on behind the last record there is.
SequencesIncrease ==
    hurt \/ \A i \in 1..(Len(Logged) - 1) : Logged[i].seq < Logged[i + 1].seq

\* The early log of a boot is imported at most once, also when logd dies
\* during the import or just after a rotation.
EarlyOnce ==
    hurt \/ \A b \in 1..MaxBoots :
              Cardinality({ i \in 1..Len(Logged) : /\ Logged[i].boot = b
                                                   /\ Logged[i].from = "kernel" }) <= Early

\* A listing during which no file was rotated out is exactly what the log
\* holds when its last page is read: no record twice, none left out, across
\* both files and with submissions in between.
PageCompletes ==
    view.at = "wait" /\ view'.at = "done" /\ ~view.moved /\ ~hurt
        => view'.got = SelectSeq(Logged, query_matches)
=============================================================================
