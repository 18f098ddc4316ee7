-------------------------- MODULE LogWriterProofs --------------------------
(***************************************************************************)
(* Proofs about LogWriter, for any number of worker threads and events,    *)
(* any queue capacity and every configuration of the outputs, the filter,  *)
(* rotation and retention.                                                 *)
(***************************************************************************)
EXTENDS LogWriter, SequenceTheorems, TLAPS

-----------------------------------------------------------------------------
(* Sequences.                                                              *)

\* Handing a line to the queue adds it at the end of what was handed over.
LEMMA AppendToSecond ==
  ASSUME NEW S, NEW s \in Seq(S), NEW t \in Seq(S), NEW e \in S
  PROVE  s \o Append(t, e) = Append(s \o t, e)
<1>1. s \o t \in Seq(S) /\ Append(t, e) \in Seq(S)
  BY ConcatProperties, AppendProperties
<1>2. Append(t, e) = t \o <<e>> /\ Append(s \o t, e) = (s \o t) \o <<e>>
  BY <1>1, AppendIsConcat
<1>3. <<e>> \in Seq(S)
  OBVIOUS
<1> QED
  BY <1>2, <1>3, ConcatAssociative

\* Taking the oldest queued line leaves hand and queue together as they were.
LEMMA MoveHead ==
  ASSUME NEW S, NEW t \in Seq(S), t # <<>>
  PROVE  <<Head(t)>> \o Tail(t) = t
<1>1. Head(t) \in S /\ Tail(t) \in Seq(S) /\ <<Head(t)>> \in Seq(S)
  BY HeadTailProperties
<1>2. /\ <<Head(t)>> \o Tail(t) \in Seq(S)
      /\ Len(<<Head(t)>> \o Tail(t)) = Len(t)
      /\ \A i \in 1 .. Len(t) : (<<Head(t)>> \o Tail(t))[i] = t[i]
  BY <1>1, EmptySeq, ConcatProperties, HeadTailProperties
<1> QED
  BY <1>2, SeqEqual

\* What is pending: the line in hand, then the queue.
LEMMA PendingShape ==
  ASSUME NEW h \in Seq(Line), NEW q \in Seq(Line), Len(h) <= 1
  PROVE  /\ h \o q \in Seq(Line) /\ Len(h \o q) = Len(h) + Len(q)
         /\ DOMAIN (h \o q) = 1 .. Len(h) + Len(q)
         /\ h = <<>> => h \o q = q
         /\ h # <<>> => /\ Len(h) = 1 /\ h[1] \in Line /\ (h \o q)[1] = h[1]
                        /\ \A i \in 1 .. Len(q) : (h \o q)[i + 1] = q[i]
<1>1. /\ h \o q \in Seq(Line) /\ Len(h \o q) = Len(h) + Len(q)
      /\ \A i \in 1 .. Len(h) + Len(q) :
           (h \o q)[i] = IF i <= Len(h) THEN h[i] ELSE q[i - Len(h)]
  BY ConcatProperties
<1>2. DOMAIN (h \o q) = 1 .. Len(h) + Len(q) /\ Len(h) \in Nat /\ Len(q) \in Nat
  BY <1>1, LenProperties
<1>3. h = <<>> => h \o q = q
  BY ConcatEmptySeq
<1>4. ASSUME h # <<>>
      PROVE  /\ Len(h) = 1 /\ h[1] \in Line /\ (h \o q)[1] = h[1]
             /\ \A i \in 1 .. Len(q) : (h \o q)[i + 1] = q[i]
  <2>1. Len(h) = 1
    <3>1. Len(h) \in Nat \ {0}
      BY <1>4, EmptySeq
    <3>2. PICK n \in Nat \ {0} : n = Len(h)
      BY <3>1
    <3>3. n <= 1
      BY <3>2
    <3>4. n = 1
      BY <3>3
    <3> QED
      BY <3>2, <3>4
  <2>2. h[1] \in Line
    <3>1. 1 \in 1 .. Len(h)
      BY <2>1
    <3> QED
      BY <3>1, ElementOfSeq
  <2>3. (h \o q)[1] = h[1]
    BY <1>1, <1>2, <2>1
  <2>4. ASSUME NEW i \in 1 .. Len(q) PROVE (h \o q)[i + 1] = q[i]
    <3>1. i + 1 \in 1 .. Len(h) + Len(q) /\ ~(i + 1 <= Len(h)) /\ (i + 1) - Len(h) = i
      BY <1>2, <2>1
    <3> QED
      BY <1>1, <3>1
  <2> QED
    BY <2>1, <2>2, <2>3, <2>4
<1> QED
  BY <1>1, <1>2, <1>3, <1>4

-----------------------------------------------------------------------------
(* One logging call.                                                       *)

\* What a thread may log.
Event == [src : {"audit", "own", "pingora"}, level : Levels, record : BOOLEAN]
Sound(e) == e \in Event /\ (e.src = "audit" => e.record)

\* A line says it is an audit record exactly when the audit module logged it.
Verbatim(l) == (l.kind = "audit") = (l.src = "audit")

\* Every line is formatted so, and the next layer is one of the layers.
LEMMA FormatIsVerbatim ==
  ASSUME NEW e, Sound(e), NEW n \in Nat
  PROVE  FormatEvent(e, n) \in Line /\ Verbatim(FormatEvent(e, n))
BY DEF Sound, Event, FormatEvent, Line, Verbatim

LEMMA NextLayerIsLayer ==
  ASSUME NEW here
  PROVE  NextLayer(here) \in Layers
BY DEF NextLayer, Layers

LEMMA OnlyWithFile ==
  /\ NextLayer("filter") = "file" => log.file
  /\ NextLayer("file") # "file"
BY DEF NextLayer

\* The events of the threads are such events.
LEMMA KindsAreSound ==
  /\ \A e \in Kinds : Sound(e)
  /\ Sound([src |-> "own", level |-> 3, record |-> FALSE])
  /\ Sound([src |-> "own", level |-> 1, record |-> FALSE])
BY KindsAssumption DEF Sound, Event, Levels

\* The lines in the hands of the calling threads.
CallsVerbatim == \A t \in Threads : Verbatim(call[t].line)

\* A call that starts keeps the types and carries a line of its kind.
LEMMA EmitKeeps ==
  ASSUME TypeOK, CallsVerbatim, NEW t \in Threads, NEW e, Sound(e), Emit(t, e)
  PROVE  /\ call' \in [Threads -> [at : Layers, line : Line]]
         /\ count' \in 0..MaxEvents /\ count' = count + 1
         /\ CallsVerbatim'
         /\ \A u \in Threads : u # t => call'[u] = call[u]
         /\ call'[t].at = "file" => log.file \/ call[t].at = "file"
<1>1. count \in Nat /\ count < MaxEvents /\ count' = count + 1
  BY EventsAssumption DEF TypeOK, Emit
<1>2. count' \in 0..MaxEvents
  BY <1>1, EventsAssumption
<1>3. CASE Enabled(e)
  <2> DEFINE new == [at |-> NextLayer("filter"), line |-> FormatEvent(e, count + 1)]
  <2>1. call' = [call EXCEPT ![t] = new]
    BY <1>3 DEF Emit
  <2>2. /\ new \in [at : Layers, line : Line] /\ Verbatim(new.line)
        /\ new.at = "file" => log.file
    BY <1>1, FormatIsVerbatim, NextLayerIsLayer, OnlyWithFile
  <2> HIDE DEF new
  <2>3. call \in [Threads -> [at : Layers, line : Line]]
    BY DEF TypeOK
  <2> QED
    BY <1>1, <1>2, <2>1, <2>2, <2>3 DEF CallsVerbatim
<1>4. CASE ~Enabled(e)
  BY <1>1, <1>2, <1>4 DEF Emit, TypeOK, CallsVerbatim
<1> QED
  BY <1>3, <1>4

\* A call that has left a layer keeps its line.
LEMMA LayerKeeps ==
  ASSUME TypeOK, CallsVerbatim, NEW t \in Threads, NEW at \in Layers,
         call' = [call EXCEPT ![t] = [@ EXCEPT !.at = at]]
  PROVE  /\ call' \in [Threads -> [at : Layers, line : Line]]
         /\ CallsVerbatim'
         /\ call'[t].at = at
         /\ \A u \in Threads : u # t => call'[u] = call[u]
<1>1. call \in [Threads -> [at : Layers, line : Line]]
  BY DEF TypeOK
<1>2. call[t] \in [at : Layers, line : Line]
  BY <1>1
<1> DEFINE new == [call[t] EXCEPT !.at = at]
<1>3. new \in [at : Layers, line : Line] /\ new.at = at /\ new.line = call[t].line
  BY <1>2
<1>4. call' = [call EXCEPT ![t] = new]
  BY <1>1
<1> HIDE DEF new
<1> QED
  BY <1>1, <1>3, <1>4 DEF CallsVerbatim

-----------------------------------------------------------------------------
(* The inductive invariant.                                                *)

AllVerbatim == OnlyAuditIsVerbatim /\ CallsVerbatim

\* Until it serves only main() logs, and no more than the lines it has.
StartInv ==
  phase \in {"starting", "dying"} =>
    /\ \A t \in Threads : t # Main => call[t].at = "idle"
    /\ count <= (IF phase = "starting" THEN MaxStart ELSE MaxStart + 1)
    /\ Len(accepted) <= count
    /\ call[Main].at = "file" => Len(accepted) < count

\* Without a log file nothing is queued for one.
FileInv ==
  ~log.file => queue = <<>> /\ hand = <<>> /\ \A t \in Threads : call[t].at # "file"

\* RetentionKept needs the types, StartInv the completeness of the trail, and
\* all of them what the calls under way carry.
Inv == TypeOK /\ TrailComplete /\ RetentionKept /\ AllVerbatim /\ StartInv /\ FileInv

\* A step that leaves the files and the sequences alone.
LEMMA LogUntouched ==
  ASSUME Inv, UNCHANGED <<log, queue, hand, trail, files, stderr, disk, accepted>>,
         call' \in [Threads -> [at : Layers, line : Line]], CallsVerbatim',
         count' \in 0..MaxEvents,
         phase' \in {"starting", "dying", "serving", "exited"}, StartInv', FileInv'
  PROVE  Inv'
BY DEF Inv, TypeOK, TrailComplete, Pending, RetentionKept, AllVerbatim, OnlyAuditIsVerbatim

LEMMA InitInv == Init => Inv
<1> SUFFICES ASSUME Init PROVE Inv
  OBVIOUS
<1>1. log \in [file : BOOLEAN, stderr : BOOLEAN, rotates : BOOLEAN,
               max_files : Nat, own : Levels, pingora : Levels]
  BY ConfigAssumption DEF Init
<1>2. Idle \in [at : Layers, line : Line] /\ Verbatim(Idle.line) /\ Idle.at = "idle"
  BY DEF Idle, NoLine, Layers, Line, Verbatim
<1>3. call \in [Threads -> [at : Layers, line : Line]] /\ CallsVerbatim
  BY <1>2 DEF Init, CallsVerbatim
<1>4. TypeOK
  BY <1>1, <1>3, CapacityAssumption, EventsAssumption DEF Init, TypeOK
<1>5. TrailComplete
  BY DEF Init, TrailComplete, Pending
<1>6. RetentionKept
  BY <1>1 DEF Init, RetentionKept
<1>7. AllVerbatim
  BY <1>3 DEF Init, AllVerbatim, OnlyAuditIsVerbatim
<1>8. StartInv
  BY <1>2, CapacityAssumption DEF Init, StartInv, Threads
<1>9. FileInv
  BY <1>2 DEF Init, FileInv
<1> QED
  BY <1>4, <1>5, <1>6, <1>7, <1>8, <1>9 DEF Inv

-----------------------------------------------------------------------------
(* Steps.                                                                  *)

\* The calls of main() before it serves, and fatal's.
LEMMA MainLogs == Inv /\ (StartLine \/ Fatal) => Inv'
<1> SUFFICES ASSUME Inv, StartLine \/ Fatal PROVE Inv'
  OBVIOUS
<1>1. /\ TypeOK /\ CallsVerbatim /\ Main \in Threads /\ count \in Nat
      /\ accepted \in Seq(Line) /\ phase = "starting"
  BY EventsAssumption DEF Inv, AllVerbatim, Threads, TypeOK, StartLine, Fatal
<1>2. \E e : Sound(e) /\ Emit(Main, e)
  BY KindsAreSound DEF StartLine, Fatal
<1>3. /\ call' \in [Threads -> [at : Layers, line : Line]]
      /\ count' \in 0..MaxEvents /\ count' = count + 1
      /\ CallsVerbatim'
      /\ \A u \in Threads : u # Main => call'[u] = call[u]
      /\ call'[Main].at = "file" => log.file \/ call[Main].at = "file"
  BY <1>1, <1>2, EmitKeeps
<1>4. Len(accepted) \in Nat /\ FileInv'
  BY <1>1, <1>3 DEF Inv, FileInv, StartLine, Fatal
<1>5. CASE StartLine
  <2>1. StartInv'
    BY <1>1, <1>3, <1>4, <1>5, CapacityAssumption DEF Inv, StartInv, StartLine
  <2> QED
    BY <1>1, <1>3, <1>4, <1>5, <2>1, LogUntouched DEF StartLine
<1>6. CASE Fatal
  <2>1. StartInv'
    BY <1>1, <1>3, <1>4, <1>6, CapacityAssumption DEF Inv, StartInv, Fatal
  <2> QED
    BY <1>3, <1>4, <1>6, <2>1, LogUntouched DEF Fatal
<1> QED
  BY <1>5, <1>6

\* A worker's call.
LEMMA WorkerKeeps == ASSUME Inv, NEW t \in Workers, WorkerLogs(t) PROVE Inv'
<1>1. TypeOK /\ CallsVerbatim /\ t \in Threads
  BY DEF Inv, AllVerbatim, Threads
<1>2. \E e : Sound(e) /\ Emit(t, e)
  BY KindsAreSound DEF WorkerLogs
<1>3. /\ call' \in [Threads -> [at : Layers, line : Line]]
      /\ count' \in 0..MaxEvents /\ CallsVerbatim'
      /\ \A u \in Threads : u # t => call'[u] = call[u]
      /\ call'[t].at = "file" => log.file \/ call[t].at = "file"
  BY <1>1, <1>2, EmitKeeps
<1>4. phase' = "serving" /\ FileInv'
  BY <1>3 DEF WorkerLogs, Inv, FileInv
<1> QED
  BY <1>3, <1>4, LogUntouched DEF WorkerLogs, StartInv

\* The steps that only move the phase, or the disk.
LEMMA PhaseKeeps == Inv /\ (FatalExit \/ Serve \/ Shutdown \/ DiskChanges) => Inv'
<1> SUFFICES ASSUME Inv, FatalExit \/ Serve \/ Shutdown \/ DiskChanges PROVE Inv'
  OBVIOUS
<1>1. CASE FatalExit \/ Serve \/ Shutdown
  <2>1. /\ phase' \in {"serving", "exited"} /\ UNCHANGED <<call, count>>
        /\ UNCHANGED <<log, queue, hand, trail, files, stderr, disk, accepted>>
    BY <1>1 DEF FatalExit, Serve, Shutdown
  <2>2. StartInv' /\ CallsVerbatim' /\ FileInv'
    BY <2>1 DEF StartInv, Inv, AllVerbatim, CallsVerbatim, FileInv
  <2> QED
    BY <2>1, <2>2, LogUntouched DEF Inv, TypeOK
<1>2. CASE DiskChanges
  BY <1>2 DEF DiskChanges, Inv, TypeOK, TrailComplete, Pending, RetentionKept, AllVerbatim,
              OnlyAuditIsVerbatim, CallsVerbatim, StartInv, FileInv
<1> QED
  BY <1>1, <1>2

\* A line is handed to the writer thread.
LEMMA ToQueueKeeps == ASSUME Inv, NEW t \in Threads, ToQueue(t) PROVE Inv'
<1> DEFINE x == call[t].line
<1>1. /\ TypeOK /\ CallsVerbatim /\ x \in Line /\ Verbatim(x)
      /\ queue \in Seq(Line) /\ accepted \in Seq(Line) /\ trail \in Seq(Line)
      /\ hand \in Seq(Line) /\ Len(hand) <= 1
  BY DEF Inv, AllVerbatim, CallsVerbatim, TypeOK
<1>2. /\ queue' = Append(queue, x) /\ accepted' = Append(accepted, x)
      /\ Len(queue) < Capacity
      /\ UNCHANGED <<log, phase, hand, trail, files, stderr, disk, count>>
  BY DEF ToQueue
<1>3. /\ call' \in [Threads -> [at : Layers, line : Line]] /\ CallsVerbatim'
      /\ call'[t].at = NextLayer("file")
      /\ \A u \in Threads : u # t => call'[u] = call[u]
  BY <1>1, NextLayerIsLayer, LayerKeeps DEF ToQueue
<1> HIDE DEF x
<1>4. /\ queue' \in Seq(Line) /\ accepted' \in Seq(Line)
      /\ Len(queue') = Len(queue) + 1 /\ Len(accepted') = Len(accepted) + 1
      /\ Len(queue) \in Nat /\ Len(accepted) \in Nat
      /\ \A i \in 1..Len(queue) : queue'[i] = queue[i]
      /\ queue'[Len(queue) + 1] = x
  BY <1>1, <1>2, AppendProperties, LenProperties
<1>5. TypeOK'
  BY <1>2, <1>3, <1>4, CapacityAssumption DEF Inv, TypeOK
<1>6. TrailComplete'
  <2> DEFINE p == hand \o queue
  <2>1. /\ Pending = p /\ Pending' = Append(p, x) /\ p \in Seq(Line)
    <3>1. Pending' = hand \o Append(queue, x)
      BY <1>2 DEF Pending
    <3>2. p \in Seq(Line)
      BY <1>1, PendingShape
    <3> QED
      BY <1>1, <3>1, <3>2, AppendToSecond DEF Pending
  <2>2. TrailComplete
    BY DEF Inv
  <2> HIDE DEF p
  <2>3. /\ Len(Append(p, x)) = Len(p) + 1 /\ Len(p) \in Nat /\ Len(trail) \in Nat
        /\ DOMAIN Append(p, x) = 1..Len(p) + 1 /\ DOMAIN p = 1..Len(p)
        /\ \A i \in 1..Len(p) : Append(p, x)[i] = p[i]
        /\ Append(p, x)[Len(p) + 1] = x
        /\ DOMAIN trail = 1..Len(trail)
    BY <1>1, <2>1, AppendProperties, LenProperties
  <2>4. /\ \A i \in 1..Len(accepted) : accepted'[i] = accepted[i]
        /\ accepted'[Len(accepted) + 1] = x
    BY <1>1, <1>2, AppendProperties
  <2>5. Len(trail) + Len(p) = Len(accepted)
    BY <2>1, <2>2 DEF TrailComplete
  <2>6. \A i \in DOMAIN trail : trail[i] \in {accepted'[i], NoLine}
    BY <2>2, <2>3, <2>4, <2>5 DEF TrailComplete
  <2>7. ASSUME NEW i \in 1..Len(p) + 1
        PROVE  Append(p, x)[i] = accepted'[Len(trail) + i]
    <3>1. CASE i = Len(p) + 1
      BY <2>3, <2>4, <2>5, <3>1
    <3>2. CASE i \in 1..Len(p)
      <4>1. Len(trail) + i \in 1..Len(accepted)
        BY <2>3, <2>5, <3>2
      <4>2. p[i] = accepted[Len(trail) + i]
        BY <2>1, <2>2, <2>3, <3>2 DEF TrailComplete
      <4> QED
        BY <2>3, <2>4, <3>2, <4>1, <4>2
    <3> QED
      BY <2>3, <3>1, <3>2
  <2>8. Len(trail) + Len(Append(p, x)) = Len(accepted')
    BY <1>4, <2>3, <2>5
  <2> QED
    BY <1>2, <2>1, <2>3, <2>6, <2>7, <2>8 DEF TrailComplete
<1>7. RetentionKept'
  BY <1>2 DEF Inv, RetentionKept
<1>8. AllVerbatim'
  <2>1. \A i \in DOMAIN queue' : Verbatim(queue'[i])
    <3>1. DOMAIN queue' = 1..Len(queue) + 1 /\ DOMAIN queue = 1..Len(queue)
      BY <1>1, <1>4, LenProperties
    <3>2. \A i \in 1..Len(queue) : Verbatim(queue[i])
      BY <3>1 DEF Inv, AllVerbatim, OnlyAuditIsVerbatim, Verbatim
    <3> QED
      BY <1>1, <1>4, <3>1, <3>2, SMTT(40)
  <2> QED
    BY <1>2, <1>3, <2>1 DEF Inv, AllVerbatim, OnlyAuditIsVerbatim, Verbatim
<1>9. StartInv'
  <2> SUFFICES ASSUME phase \in {"starting", "dying"} PROVE StartInv'
    BY <1>2 DEF StartInv
  <2>1. t = Main /\ Len(accepted) < count
    BY DEF Inv, StartInv, ToQueue
  <2>2. call'[Main].at # "file"
    BY <1>3, <2>1 DEF NextLayer
  <2>3. count \in Nat
    BY EventsAssumption, <1>1 DEF TypeOK
  <2> QED
    BY <1>2, <1>3, <1>4, <2>1, <2>2, <2>3 DEF Inv, StartInv
<1>10. FileInv'
  BY <1>2 DEF Inv, FileInv, ToQueue
<1> QED
  BY <1>5, <1>6, <1>7, <1>8, <1>9, <1>10 DEF Inv

\* A line is written to the mirror.
LEMMA ToStderrKeeps == ASSUME Inv, NEW t \in Threads, ToStderr(t) PROVE Inv'
<1> DEFINE x == call[t].line
<1>1. /\ TypeOK /\ CallsVerbatim /\ x \in Line /\ Verbatim(x)
      /\ stderr \in Seq(Line) /\ "idle" \in Layers
  BY DEF Inv, AllVerbatim, CallsVerbatim, TypeOK, Layers
<1>2. /\ stderr' = Append(stderr, x)
      /\ UNCHANGED <<log, phase, queue, hand, trail, files, disk, count, accepted>>
  BY DEF ToStderr
<1>3. /\ call' \in [Threads -> [at : Layers, line : Line]] /\ CallsVerbatim'
      /\ call'[t].at = "idle"
      /\ \A u \in Threads : u # t => call'[u] = call[u]
  BY <1>1, LayerKeeps DEF ToStderr
<1> HIDE DEF x
<1>4. /\ stderr' \in Seq(Line) /\ Len(stderr') = Len(stderr) + 1
      /\ \A i \in 1..Len(stderr) : stderr'[i] = stderr[i]
      /\ stderr'[Len(stderr) + 1] = x
  BY <1>1, <1>2, AppendProperties
<1>5. TypeOK'
  BY <1>2, <1>3, <1>4 DEF Inv, TypeOK
<1>6. AllVerbatim'
  <2>1. \A i \in DOMAIN stderr' : Verbatim(stderr'[i])
    <3>1. /\ DOMAIN stderr' = 1..Len(stderr) + 1 /\ DOMAIN stderr = 1..Len(stderr)
          /\ Len(stderr) \in Nat
      BY <1>1, <1>4, LenProperties
    <3>2. \A i \in 1..Len(stderr) : Verbatim(stderr[i])
      BY <3>1 DEF Inv, AllVerbatim, OnlyAuditIsVerbatim, Verbatim
    <3> QED
      BY <1>1, <1>4, <3>1, <3>2
  <2> QED
    BY <1>2, <1>3, <2>1 DEF Inv, AllVerbatim, OnlyAuditIsVerbatim, Verbatim
<1>7. StartInv' /\ FileInv'
  BY <1>2, <1>3 DEF Inv, StartInv, FileInv, Threads
<1> QED
  BY <1>2, <1>5, <1>6, <1>7 DEF Inv, TrailComplete, Pending, RetentionKept

\* The list of log files after a rotation: it has at least the new file, the
\* deleted ones are its oldest, and none is deleted below max_files.
LEMMA RolledFiles ==
  ASSUME Inv, log.file, NEW f \in Rolled
  PROVE  /\ f \in Seq(Nat) /\ f # <<>>
         /\ \A i \in DOMAIN f : f[i] \in 1..Len(trail) + 1
         /\ log.max_files = 0 => f[1] = 1
         /\ log.max_files > 0 => Len(f) <= log.max_files
         /\ f[1] > 1 => Len(f) = log.max_files
<1> DEFINE n == Len(files)
           d == Deleted(n)
           kept == SubSeq(files, d + 1, n)
           m == log.max_files
<1>1. /\ files \in Seq(Nat) /\ files # <<>> /\ log.max_files \in Nat
      /\ trail \in Seq(Line) /\ RetentionKept
      /\ \A i \in DOMAIN files : files[i] \in 1..Len(trail) + 1
  BY ConfigAssumption DEF Inv, TypeOK
<1>2. /\ n \in Nat /\ n > 0 /\ DOMAIN files = 1..n /\ Len(trail) \in Nat
  BY <1>1, LenProperties, EmptySeq
<1>3. CASE f = files
  BY <1>1, <1>3 DEF RetentionKept
<1>4. CASE f # files
  <2>1. f = Append(kept, Len(trail) + 1)
    BY <1>4 DEF Rolled
  <2>2. /\ d \in Nat /\ d <= n
        /\ m = 0 => d = 0
        /\ m > 0 /\ n < m => d = 0
        /\ m > 0 /\ n >= m => n = m /\ d = 1
    BY <1>1, <1>2 DEF Deleted, RetentionKept
  <2> HIDE DEF d
  <2>3. \A i \in d + 1 .. n : files[i] \in Nat /\ files[i] \in 1..Len(trail) + 1
    BY <1>1, <1>2, <2>2, SMTT(40)
  <2>4. /\ kept \in Seq(Nat)
        /\ Len(kept) = IF d + 1 <= n THEN n - (d + 1) + 1 ELSE 0
        /\ \A i \in 1 .. n - (d + 1) + 1 : kept[i] = files[d + 1 + i - 1]
    BY <1>2, <2>2, <2>3, SubSeqProperties
  <2> HIDE DEF kept, n
  <2>5. Len(kept) = n - d /\ \A i \in 1 .. n - d : kept[i] = files[d + i]
    <3>1. Len(kept) = n - d
      BY <1>2, <2>2, <2>4
    <3>2. ASSUME NEW i \in 1 .. n - d PROVE kept[i] = files[d + i]
      <4>1. i \in 1 .. n - (d + 1) + 1 /\ d + 1 + i - 1 = d + i
        BY <1>2, <2>2
      <4> QED
        BY <2>4, <4>1
    <3> QED
      BY <3>1, <3>2
  <2>6. /\ f \in Seq(Nat) /\ f # <<>> /\ Len(f) = n - d + 1
        /\ \A i \in 1 .. n - d : f[i] = files[d + i]
        /\ f[n - d + 1] = Len(trail) + 1
    <3> DEFINE e == Len(trail) + 1
    <3>1. e \in Nat /\ kept \in Seq(Nat)
      BY <1>2, <2>4
    <3> HIDE DEF e
    <3>2. /\ Append(kept, e) \in Seq(Nat) /\ Append(kept, e) # <<>>
          /\ Len(Append(kept, e)) = Len(kept) + 1
          /\ \A i \in 1 .. Len(kept) : Append(kept, e)[i] = kept[i]
          /\ Append(kept, e)[Len(kept) + 1] = e
      BY <3>1, AppendProperties
    <3>3. f = Append(kept, e)
      BY <2>1 DEF e
    <3> QED
      BY <2>5, <3>2, <3>3 DEF e
  <2>7. DOMAIN f = 1 .. n - d + 1
    BY <2>6, LenProperties
  <2>8. \A i \in DOMAIN f : f[i] \in 1..Len(trail) + 1
    <3> SUFFICES ASSUME NEW i \in 1 .. n - d + 1
                 PROVE  f[i] \in 1..Len(trail) + 1
      BY <2>7
    <3>1. CASE i = n - d + 1
      BY <1>2, <2>6, <3>1
    <3>2. CASE i \in 1 .. n - d
      BY <1>2, <2>2, <2>3, <2>6, <3>2, SMTT(40)
    <3> QED
      BY <1>2, <2>2, <3>1, <3>2
  <2>9. CASE m > 0 /\ n >= m
    BY <1>1, <1>2, <2>2, <2>6, <2>8, <2>9
  <2>10. CASE ~(m > 0 /\ n >= m)
    <3>1. d = 0 /\ f[1] = files[1]
      BY <1>1, <1>2, <2>2, <2>6, <2>10, SMTT(40)
    <3> QED
      BY <1>1, <1>2, <2>2, <2>6, <2>8, <2>10, <3>1 DEF RetentionKept, n
  <2> QED
    BY <2>9, <2>10
<1> QED
  BY <1>3, <1>4

\* The writer thread takes a line.
LEMMA TakeKeeps == Inv /\ Take => Inv'
<1> SUFFICES ASSUME Inv, Take PROVE Inv'
  OBVIOUS
<1> DEFINE x == Head(queue)
<1>1. queue \in Seq(Line) /\ queue # <<>> /\ hand = <<>> /\ AllVerbatim
  BY DEF Inv, TypeOK, Take
<1>2. /\ queue' = Tail(queue) /\ hand' = <<x>>
      /\ UNCHANGED <<log, phase, call, trail, files, stderr, disk, count, accepted>>
  BY DEF Take
<1>3. /\ x \in Line /\ queue' \in Seq(Line) /\ Len(queue') = Len(queue) - 1
      /\ Len(queue) \in Nat \ {0} /\ x = queue[1]
      /\ \A i \in 1..Len(queue') : queue'[i] = queue[i + 1]
      /\ DOMAIN queue' = 1..Len(queue') /\ DOMAIN queue = 1..Len(queue)
  BY <1>1, <1>2, HeadTailProperties, EmptySeq, LenProperties
<1>4. TrailComplete'
  <2>1. hand' \o queue' = queue
    BY <1>1, <1>2, MoveHead
  <2>2. hand \o queue = queue
    BY <1>1, ConcatEmptySeq
  <2>3. Pending' = Pending
    BY <2>1, <2>2 DEF Pending
  <2> QED
    BY <1>2, <2>3 DEF Inv, TrailComplete
<1> HIDE DEF x
<1>5. hand' \in Seq(Line) /\ Len(hand') = 1 /\ DOMAIN hand' = {1} /\ hand'[1] = x
  BY <1>2, <1>3
<1>6. TypeOK'
  BY <1>2, <1>3, <1>5, CapacityAssumption DEF Inv, TypeOK
<1>7. AllVerbatim'
  <2>1. \A i \in 1..Len(queue) : Verbatim(queue[i])
    BY <1>1, <1>3 DEF AllVerbatim, OnlyAuditIsVerbatim, Verbatim
  <2>2. ASSUME NEW i \in 1..Len(queue') PROVE i + 1 \in 1..Len(queue)
    BY <1>3
  <2>3. \A i \in DOMAIN queue' : Verbatim(queue'[i])
    BY <1>3, <2>1, <2>2
  <2>4. \A i \in DOMAIN hand' : Verbatim(hand'[i])
    BY <1>3, <1>5, <2>1
  <2> QED
    BY <1>1, <1>2, <2>3, <2>4
       DEF AllVerbatim, OnlyAuditIsVerbatim, CallsVerbatim, Verbatim
<1>8. log.file \in BOOLEAN
  BY ConfigAssumption DEF Inv, TypeOK
<1>9. log.file
  BY <1>1, <1>8 DEF Inv, FileInv
<1>10. RetentionKept' /\ StartInv' /\ FileInv'
  BY <1>2, <1>9 DEF Inv, RetentionKept, StartInv, FileInv
<1> QED
  BY <1>4, <1>6, <1>7, <1>10 DEF Inv

\* The line in hand is written to the current file or a new one, or lost.
LEMMA FinishKeeps ==
  ASSUME Inv, NEW x, x = hand[1] \/ x = NoLine, Finish(x)
  PROVE  Inv'
<1>1. /\ queue \in Seq(Line) /\ accepted \in Seq(Line) /\ trail \in Seq(Line)
      /\ hand \in Seq(Line) /\ Len(hand) <= 1 /\ hand # <<>>
      /\ log.file \in BOOLEAN /\ AllVerbatim
  BY ConfigAssumption DEF Inv, TypeOK, Finish
<1>2. /\ hand' = <<>> /\ trail' = Append(trail, x) /\ files' \in Rolled
      /\ UNCHANGED <<log, phase, call, queue, stderr, disk, count, accepted>>
  BY DEF Finish
<1>3. /\ Len(hand) = 1 /\ hand[1] \in Line /\ Pending[1] = hand[1]
      /\ \A i \in 1..Len(queue) : Pending[i + 1] = queue[i]
      /\ Len(Pending) = 1 + Len(queue) /\ DOMAIN Pending = 1..1 + Len(queue)
      /\ Pending' = queue /\ DOMAIN queue = 1..Len(queue) /\ Len(queue) \in Nat
      /\ DOMAIN hand = 1..1
  <2>1. Pending' = <<>> \o queue
    BY <1>2 DEF Pending
  <2>2. <<>> \o queue = queue
    BY <1>1, ConcatEmptySeq
  <2> QED
    BY <1>1, <2>1, <2>2, PendingShape, LenProperties DEF Pending
<1>4. x \in Line /\ Verbatim(x)
  <2>1. NoLine \in Line /\ Verbatim(NoLine)
    BY DEF NoLine, Line, Verbatim
  <2>2. Verbatim(hand[1])
    BY <1>1, <1>3 DEF AllVerbatim, OnlyAuditIsVerbatim, Verbatim
  <2> QED
    BY <1>3, <2>1, <2>2
<1>5. /\ trail' \in Seq(Line) /\ Len(trail') = Len(trail) + 1 /\ Len(trail) \in Nat
      /\ \A i \in 1..Len(trail) : trail'[i] = trail[i]
      /\ trail'[Len(trail) + 1] = x
      /\ DOMAIN trail' = 1..Len(trail) + 1 /\ DOMAIN trail = 1..Len(trail)
  BY <1>1, <1>2, <1>4, AppendProperties, LenProperties
<1>6. log.file
  BY <1>1 DEF Inv, FileInv
<1>7. /\ files' \in Seq(Nat) /\ files' # <<>>
      /\ \A i \in DOMAIN files' : files'[i] \in 1..Len(trail) + 1
      /\ RetentionKept'
  BY <1>2, <1>6, RolledFiles DEF RetentionKept
<1>8. TypeOK'
  <2>1. \A i \in DOMAIN files' : files'[i] \in 1..Len(trail') + 1
    BY <1>5, <1>7
  <2>2. hand' \in Seq(Line) /\ Len(hand') <= 1
    BY <1>2
  <2> QED
    BY <1>2, <1>5, <1>6, <1>7, <2>1, <2>2 DEF Inv, TypeOK
<1>9. TrailComplete'
  <2>1. /\ Len(trail) + Len(Pending) = Len(accepted)
        /\ \A i \in 1..Len(trail) : trail[i] \in {accepted[i], NoLine}
        /\ \A i \in 1..1 + Len(queue) : Pending[i] = accepted[Len(trail) + i]
    BY <1>3, <1>5 DEF Inv, TrailComplete
  <2>2. hand[1] = accepted[Len(trail) + 1]
    <3>1. 1 \in 1..1 + Len(queue)
      BY <1>3
    <3>2. Pending[1] = accepted[Len(trail) + 1]
      BY <2>1, <3>1
    <3> QED
      BY <1>3, <3>2, Zenon
  <2>3. \A i \in 1..Len(trail) + 1 : trail'[i] \in {accepted[i], NoLine}
    BY <1>5, <2>1, <2>2
  <2>4. ASSUME NEW i \in 1..Len(queue)
        PROVE  queue[i] = accepted[Len(trail') + i]
    <3>1. i + 1 \in 1..1 + Len(queue)
      BY <1>3
    <3>2. Len(trail) + (i + 1) = Len(trail') + i
      BY <1>5
    <3>3. Pending[i + 1] = accepted[Len(trail) + (i + 1)] /\ Pending[i + 1] = queue[i]
      BY <1>3, <2>1, <3>1
    <3> QED
      BY <3>2, <3>3
  <2>5. Len(trail') + Len(queue) = Len(accepted)
    BY <1>3, <1>5, <2>1
  <2> QED
    BY <1>2, <1>3, <1>5, <2>3, <2>4, <2>5 DEF TrailComplete
<1>10. AllVerbatim'
  <2>1. \A i \in 1..Len(trail) : Verbatim(trail[i])
    BY <1>1, <1>5 DEF AllVerbatim, OnlyAuditIsVerbatim, Verbatim
  <2>2. \A i \in DOMAIN trail' : Verbatim(trail'[i])
    BY <1>4, <1>5, <2>1
  <2>3. \A i \in DOMAIN hand' : Verbatim(hand'[i])
    BY <1>2
  <2> QED
    BY <1>1, <1>2, <2>2, <2>3
       DEF AllVerbatim, OnlyAuditIsVerbatim, CallsVerbatim, Verbatim
<1>11. StartInv' /\ FileInv'
  BY <1>2, <1>6 DEF Inv, StartInv, FileInv
<1> QED
  BY <1>7, <1>8, <1>9, <1>10, <1>11 DEF Inv

\* Every step keeps the invariant.
LEMMA NextInv == Inv /\ [Next]_vars => Inv'
<1> SUFFICES ASSUME Inv, [Next]_vars PROVE Inv'
  OBVIOUS
<1>1. CASE UNCHANGED vars
  BY <1>1 DEF vars, Inv, TypeOK, TrailComplete, Pending, RetentionKept, AllVerbatim,
              OnlyAuditIsVerbatim, CallsVerbatim, StartInv, FileInv
<1> QED
  BY <1>1, MainLogs, WorkerKeeps, PhaseKeeps, ToQueueKeeps, ToStderrKeeps,
     TakeKeeps, FinishKeeps DEF Next, Write, WriteFails

-----------------------------------------------------------------------------
(* The theorems.                                                           *)

\* The inductive invariant holds in every reachable state of the log.
THEOREM Invariance == Spec => []Inv
BY InitInv, NextInv, PTL DEF Spec

\* The queue never holds more than its capacity, and everything in it, in the
\* files and on the mirror is a line.
THEOREM TypeCorrect == Spec => []TypeOK
<1>1. Inv => TypeOK
  BY DEF Inv
<1> QED BY <1>1, Invariance, PTL

\* lossy(false): what the writer thread is done with and what it still has to
\* write is everything that logging calls handed over, in order, and only a
\* failed write of its own keeps a line out of the files.
THEOREM NothingLost == Spec => []TrailComplete
<1>1. Inv => TrailComplete
  BY DEF Inv
<1> QED BY <1>1, Invariance, PTL

\* max_log_files, left unset for 0: rotation keeps exactly max_files files once
\* it has deleted any, and deletes none when max_files is 0.
THEOREM RetentionHolds == Spec => []RetentionKept
<1>1. Inv => RetentionKept
  BY DEF Inv
<1> QED BY <1>1, Invariance, PTL

\* JsonLines::format_event: wherever a line is, it claims to be an audit record
\* exactly when the audit module logged it.
THEOREM AuditIsAuthentic == Spec => []OnlyAuditIsVerbatim
<1>1. Inv => OnlyAuditIsVerbatim
  BY DEF Inv, AllVerbatim
<1> QED BY <1>1, Invariance, PTL

\* The safety half of FatalReported: the call in fatal() never finds the queue
\* full, so it returns even when the disk has stalled for good.
FatalHasRoom ==
  phase = "dying" /\ call[Main].at = "file" => Len(queue) < Capacity

\* fatal() before the proxy serves never waits for the disk: main() has logged
\* fewer lines than the queue holds.
THEOREM FatalNeverWaits == Spec => []FatalHasRoom
<1>1. ASSUME Inv, phase = "dying", call[Main].at = "file"
      PROVE  Len(queue) < Capacity
  <2>1. /\ queue \in Seq(Line) /\ hand \in Seq(Line) /\ Len(hand) <= 1
        /\ trail \in Seq(Line) /\ count \in Nat
        /\ Len(trail) + Len(Pending) = Len(accepted)
    BY <1>1, EventsAssumption DEF Inv, TypeOK, TrailComplete
  <2>2. /\ Len(accepted) >= Len(queue)
        /\ Len(accepted) \in Nat /\ Len(queue) \in Nat
    <3>1. Len(Pending) = Len(hand) + Len(queue)
      BY <2>1, PendingShape DEF Pending
    <3>2. Len(trail) \in Nat /\ Len(hand) \in Nat /\ Len(queue) \in Nat
      BY <2>1, LenProperties
    <3> QED
      BY <2>1, <3>1, <3>2
  <2>3. Len(accepted) < count /\ count <= MaxStart + 1
    BY <1>1 DEF Inv, StartInv
  <2> QED
    BY <2>1, <2>2, <2>3, CapacityAssumption
<1>2. Inv => FatalHasRoom
  BY <1>1 DEF FatalHasRoom
<1> QED BY <1>2, Invariance, PTL
=============================================================================
