----------------------------- MODULE LogWriter -----------------------------
(***************************************************************************)
(* The log (logging.rs, and the emitting side in audit.rs and main.rs).  A *)
(* logging call passes the filter, is formatted as one JSON line, is       *)
(* handed to the file layer's bounded queue and then to the stderr mirror; *)
(* a writer thread takes one line after another from the queue and writes  *)
(* it to rotating files.  The queue is built with lossy(false): a call on  *)
(* a full queue waits.  A line whose write fails is dropped by the writer  *)
(* thread, which goes on with the next.  process::exit ends the process    *)
(* without a flush.                                                        *)
(***************************************************************************)
EXTENDS Naturals, Sequences

CONSTANTS
  Main,        \* the thread that runs main()
  Workers,     \* pingora's worker threads
  Kinds,       \* the events threads log: source, level, audit_record field
  LogConfigs,  \* [logging]: file, stderr, rotation, max_files, filter by source
  Capacity,    \* lines the queue holds (128 000 in tracing_appender)
  MaxStart,    \* lines main() logs before it listens
  MaxEvents    \* bound on the logging calls of a behaviour

ASSUME CapacityAssumption == Capacity \in Nat /\ MaxStart \in Nat /\ MaxStart < Capacity
ASSUME EventsAssumption == MaxEvents \in Nat

\* Levels as tracing orders them: error = 1 ... trace = 5, off = 0.
Levels == 0..5

\* What LoggingConfig lets through.
ASSUME ConfigAssumption ==
  LogConfigs \subseteq [file : BOOLEAN, stderr : BOOLEAN, rotates : BOOLEAN,
                        max_files : Nat, own : Levels, pingora : Levels]

\* Events on the audit target come from audit::emit, which always supplies the
\* record; the others may carry a field of that name or not.
ASSUME KindsAssumption ==
  /\ Kinds \subseteq [src : {"audit", "own", "pingora"}, level : Levels, record : BOOLEAN]
  /\ \A e \in Kinds : e.src = "audit" => e.record

Threads == Workers \cup {Main}

\* A formatted line: its event's number, whether it is a verbatim audit record
\* or a system record, and where it was logged.
Line == [n : Nat, kind : {"audit", "system", "none"},
         src : {"audit", "own", "pingora", "none"}]
Layers == {"idle", "file", "stderr"}

VARIABLES
  log,         \* the configuration of this run
  phase,       \* "starting", "dying" (in fatal), "serving" or "exited"
  call,        \* per thread: the layer its logging call is at, and its line
  queue,       \* lines handed to the writer thread
  hand,        \* the line the writer thread has taken and not yet written
  trail,       \* what became of the lines taken, oldest first: the line, as
               \* written, or NoLine when its write failed
  files,       \* where in the trail each kept log file begins, oldest first;
               \* what lies before the first has been deleted
  stderr,      \* lines of the mirror
  disk,        \* "ok", "stalled" (no answer) or "full" (writes fail)
  count,       \* logging calls so far
  accepted     \* history: lines the file layer took, in order

vars == <<log, phase, call, queue, hand, trail, files, stderr, disk, count, accepted>>

NoLine == [n |-> 0, kind |-> "none", src |-> "none"]
Idle == [at |-> "idle", line |-> NoLine]

-----------------------------------------------------------------------------
\* The filter's directive for an event: audit records are on a target of the
\* proxy's own crate, pingora's records on their own.
Directive(e) == IF e.src = "pingora" THEN log.pingora ELSE log.own

\* sync_log_bridge_level: the `log' facade is opened as far as the most
\* verbose directive.
LogGate == IF log.pingora > log.own THEN log.pingora ELSE log.own

Enabled(e) ==
  /\ e.src = "pingora" => e.level <= LogGate
  /\ e.level <= Directive(e)

\* Fault: the record field is honoured on every target.
FormatEventAnyTarget(e, n) ==
  [n |-> n, src |-> e.src, kind |-> IF e.record THEN "audit" ELSE "system"]

\* JsonLines::format_event and Fields: only an event on the audit target may
\* supply a verbatim record; anything else is wrapped in a system record.
FormatEvent(e, n) ==
  [n |-> n, src |-> e.src,
   kind |-> IF e.src = "audit" /\ e.record THEN "audit" ELSE "system"]

\* The layers after `here' that this run has, in registry order.
NextLayer(here) ==
  CASE here = "filter" /\ log.file -> "file"
    [] here \in {"filter", "file"} /\ log.stderr /\ ~(here = "filter" /\ log.file) -> "stderr"
    [] OTHER -> "idle"

\* A logging call starts: it is discarded, or on its way to the layers.
Emit(t, e) ==
  /\ call[t].at = "idle"
  /\ count < MaxEvents
  /\ count' = count + 1
  /\ IF Enabled(e)
     THEN call' = [call EXCEPT ![t] = [at |-> NextLayer("filter"),
                                       line |-> FormatEvent(e, count + 1)]]
     ELSE UNCHANGED call

Init ==
  /\ log \in LogConfigs
  /\ phase = "starting"
  /\ call = [t \in Threads |-> Idle]
  /\ queue = <<>>
  /\ hand = <<>>
  /\ trail = <<>>
  /\ files = IF log.file THEN <<1>> ELSE <<>>
  /\ stderr = <<>>
  /\ disk = "ok"
  /\ count = 0
  /\ accepted = <<>>

\* A line of main() before it listens.
StartLine ==
  /\ phase = "starting"
  /\ count < MaxStart
  /\ Emit(Main, [src |-> "own", level |-> 3, record |-> FALSE])
  /\ UNCHANGED <<log, phase, queue, hand, trail, files, stderr, disk, accepted>>

\* fatal(): its error! call; the exit follows when that call has returned.
Fatal ==
  /\ phase = "starting"
  /\ Emit(Main, [src |-> "own", level |-> 1, record |-> FALSE])
  /\ phase' = "dying"
  /\ UNCHANGED <<log, queue, hand, trail, files, stderr, disk, accepted>>

\* Fault: the exit does not wait for the mirror.
FatalExitEarly ==
  /\ phase = "dying"
  /\ call[Main].at \in {"idle", "stderr"}
  /\ phase' = "exited"
  /\ UNCHANGED <<log, call, queue, hand, trail, files, stderr, disk, count, accepted>>

FatalExit ==
  /\ phase = "dying"
  /\ call[Main].at = "idle"
  /\ phase' = "exited"
  /\ UNCHANGED <<log, call, queue, hand, trail, files, stderr, disk, count, accepted>>

\* server.run_forever().
Serve ==
  /\ phase = "starting"
  /\ call[Main].at = "idle"
  /\ phase' = "serving"
  /\ UNCHANGED <<log, call, queue, hand, trail, files, stderr, disk, count, accepted>>

\* A worker logs: audit::emit for a request, or anything else.
WorkerLogs(t) ==
  /\ phase = "serving"
  /\ \E e \in Kinds : Emit(t, e)
  /\ UNCHANGED <<log, phase, queue, hand, trail, files, stderr, disk, accepted>>

Alive == phase # "exited"

\* Fault: lossy(true), a full queue discards the line.
ToQueueLossy(t) ==
  /\ Alive
  /\ call[t].at = "file"
  /\ queue' = IF Len(queue) < Capacity THEN Append(queue, call[t].line) ELSE queue
  /\ accepted' = Append(accepted, call[t].line)
  /\ call' = [call EXCEPT ![t] = [@ EXCEPT !.at = NextLayer("file")]]
  /\ UNCHANGED <<log, phase, hand, trail, files, stderr, disk, count>>

\* Fault: an unbounded queue.
ToQueueUnbounded(t) ==
  /\ Alive
  /\ call[t].at = "file"
  /\ queue' = Append(queue, call[t].line)
  /\ accepted' = Append(accepted, call[t].line)
  /\ call' = [call EXCEPT ![t] = [@ EXCEPT !.at = NextLayer("file")]]
  /\ UNCHANGED <<log, phase, hand, trail, files, stderr, disk, count>>

\* The file layer's writer, NonBlocking with lossy(false).
ToQueue(t) ==
  /\ Alive
  /\ call[t].at = "file"
  /\ Len(queue) < Capacity
  /\ queue' = Append(queue, call[t].line)
  /\ accepted' = Append(accepted, call[t].line)
  /\ call' = [call EXCEPT ![t] = [@ EXCEPT !.at = NextLayer("file")]]
  /\ UNCHANGED <<log, phase, hand, trail, files, stderr, disk, count>>

\* The stderr layer writes in the caller's thread.
ToStderr(t) ==
  /\ Alive
  /\ call[t].at = "stderr"
  /\ stderr' = Append(stderr, call[t].line)
  /\ call' = [call EXCEPT ![t] = [@ EXCEPT !.at = "idle"]]
  /\ UNCHANGED <<log, phase, queue, hand, trail, files, disk, count, accepted>>

\* Fault: max_log_files is called with 0 as well, which deletes every file.
DeletedAtZero(n) == IF log.max_files = 0 THEN n
                    ELSE IF n >= log.max_files THEN n - (log.max_files - 1) ELSE 0

\* How many of n files a rotation deletes, so that the new one makes
\* max_files; 0 keeps all.
Deleted(n) == IF log.max_files > 0 /\ n >= log.max_files
              THEN n - (log.max_files - 1) ELSE 0

\* The log files after one more line: the same, or a new one when the
\* rotation period has passed.
Rolled == {files} \cup
  (IF log.rotates
   THEN {Append(SubSeq(files, Deleted(Len(files)) + 1, Len(files)), Len(trail) + 1)}
   ELSE {})

\* Fault: the last line stays behind until another one follows it.
TakeKeepsLast ==
  /\ Alive
  /\ hand = <<>>
  /\ Len(queue) > 1
  /\ hand' = <<Head(queue)>>
  /\ queue' = Tail(queue)
  /\ UNCHANGED <<log, phase, call, trail, files, stderr, disk, count, accepted>>

\* The writer thread takes the oldest line, whatever the disk does.
Take ==
  /\ Alive
  /\ hand = <<>>
  /\ queue # <<>>
  /\ hand' = <<Head(queue)>>
  /\ queue' = Tail(queue)
  /\ UNCHANGED <<log, phase, call, trail, files, stderr, disk, count, accepted>>

\* The line in hand is written, or the write fails and the line is gone; a
\* rotation that is due comes first either way.
Finish(outcome) ==
  /\ Alive
  /\ hand # <<>>
  /\ hand' = <<>>
  /\ trail' = Append(trail, outcome)
  /\ files' \in Rolled
  /\ UNCHANGED <<log, phase, call, queue, stderr, disk, count, accepted>>

Write == disk = "ok" /\ Finish(hand[1])

WriteFails == disk = "full" /\ Finish(NoLine)

\* The disk stalls, fills up and recovers.
DiskChanges ==
  /\ Alive
  /\ log.file
  /\ disk' \in {"ok", "stalled", "full"} \ {disk}
  /\ UNCHANGED <<log, phase, call, queue, hand, trail, files, stderr, count, accepted>>

\* run_forever ends in process::exit; the guard is not dropped.
Shutdown ==
  /\ phase = "serving"
  /\ phase' = "exited"
  /\ UNCHANGED <<log, call, queue, hand, trail, files, stderr, disk, count, accepted>>

Next ==
  \/ StartLine \/ Fatal \/ FatalExit \/ Serve
  \/ \E t \in Workers : WorkerLogs(t)
  \/ \E t \in Threads : ToQueue(t) \/ ToStderr(t)
  \/ Take \/ Write \/ WriteFails \/ DiskChanges \/ Shutdown

\* A call under way, the exit after fatal's call and a write the disk keeps
\* answering, if only with an error, are eventually done; no one has to log,
\* and the disk may stall for good.
Fairness ==
  /\ \A t \in Threads : WF_vars(ToQueue(t)) /\ WF_vars(ToStderr(t))
  /\ WF_vars(FatalExit)
  /\ WF_vars(Take)
  /\ SF_vars(Write \/ WriteFails)

Spec == Init /\ [][Next]_vars /\ Fairness

-----------------------------------------------------------------------------
TypeOK ==
  /\ log \in LogConfigs
  /\ phase \in {"starting", "dying", "serving", "exited"}
  /\ call \in [Threads -> [at : Layers, line : Line]]
  /\ \A s \in {queue, hand, trail, stderr, accepted} : s \in Seq(Line)
  /\ Len(queue) <= Capacity /\ Len(hand) <= 1
  /\ files \in Seq(Nat)
  /\ (files = <<>>) = ~log.file
  /\ \A i \in DOMAIN files : files[i] \in 1..Len(trail) + 1
  /\ disk \in {"ok", "stalled", "full"}
  /\ count \in 0..MaxEvents

\* The lines the writer thread still has to write.
Pending == hand \o queue

\* Backpressure over loss: the lines the calls handed over are, in that order
\* and each once, either done with or pending, and one that is done with is in
\* the files unless its own write failed.  So at any moment, an exit included,
\* the trail lacks the lines of failed writes and at most the newest
\* Capacity + 1 lines, and no line is written twice or out of turn.
TrailComplete ==
  /\ Len(trail) + Len(Pending) = Len(accepted)
  /\ \A i \in DOMAIN trail : trail[i] \in {accepted[i], NoLine}
  /\ \A i \in DOMAIN Pending : Pending[i] = accepted[Len(trail) + i]

\* Rotation deletes the oldest files only, when more than max_files would be
\* kept, and none when max_files is 0.
RetentionKept ==
  log.file =>
    /\ log.max_files = 0 => files[1] = 1
    /\ log.max_files > 0 => Len(files) <= log.max_files
    /\ files[1] > 1 => Len(files) = log.max_files

\* A line that claims to be an audit record was logged by the audit module,
\* wherever it ends up.
OnlyAuditIsVerbatim ==
  \A s \in {trail, hand, queue, stderr} : \A i \in DOMAIN s :
    (s[i].kind = "audit") = (s[i].src = "audit")

\* fatal's message is on the mirror, unless the mirror is off or errors are
\* filtered out.
OnMirror ==
  log.stderr /\ log.own >= 1 =>
    \E i \in DOMAIN stderr : stderr[i] = call[Main].line

\* A fatal start ends, with its message on the mirror, even when the disk never
\* answers: the queue always has room for what main() logs before it listens,
\* and fatal exits only when its call has returned.
FatalReported == phase = "dying" ~> phase = "exited" /\ OnMirror

\* While the disk keeps answering, the writer thread gets to every line handed
\* over and has it written or refused by the disk, unless the process exits
\* first; an error does not stop the thread.
TrailCatchesUp ==
  []<>(disk # "stalled") =>
    \A n \in 1..MaxEvents :
      (Len(accepted) >= n) ~> (Len(trail) >= n \/ phase = "exited")
=============================================================================
