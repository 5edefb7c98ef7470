---------------------------- MODULE RemoteSyncProofs ---------------------------
(***************************************************************************)
(* Proofs about RemoteSync, for any workflow, any size of the log buffer,  *)
(* any number of lines, losses and errors: no log line is lost but by the  *)
(* rules, a run that was stopped from the dashboard is not a success, no   *)
(* task is counted twice, and the server is told what happened here.       *)
(***************************************************************************)
EXTENDS RemoteSync, FiniteSetTheorems, TLAPS

(* The buffer holds the last lines without a gap, the server only lines     *)
(* there have been, and what the buffer has is known there or newer.        *)
BufferInv ==
    /\ lines \in Nat /\ buf \in Seq(Nat) /\ Len(buf) <= lines
    /\ \A i \in 1 .. Len(buf) : buf[i] = lines - Len(buf) + i
SentInv ==
    /\ srvlog \in Seq(Nat)
    /\ \A j \in 1 .. Len(srvlog) : srvlog[j] \in 1 .. lines
    /\ \A i \in 1 .. Len(buf) :
           \/ \E j \in 1 .. Len(srvlog) : srvlog[j] = buf[i]
           \/ \A j \in 1 .. Len(srvlog) : srvlog[j] < buf[i]
UnstoredInv == unstored \subseteq 1 .. lines
KeptInv ==
    ~offline => \A l \in 1 .. lines : l + MaxLogBuf > lines =>
        \/ \E j \in 1 .. Len(srvlog) : srvlog[j] = l
        \/ \E i \in 1 .. Len(buf) : buf[i] = l
        \/ l \in unstored
OrderInv ==
    \A j \in 1 .. Len(srvlog) :
        \/ \E i \in 1 .. (j - 1) : srvlog[i] = srvlog[j]
        \/ \A i \in 1 .. (j - 1) : srvlog[i] < srvlog[j]

(* Only a fault makes the server answer for a line it has not stored.       *)
LossInv == faults = 0 => unstored = {}

LogInv == BufferInv /\ SentInv /\ UnstoredInv /\ KeptInv /\ OrderInv

USE DEF vserver, vrun, vlog, vsync, vmain, vcall, vars

--------------------------------------------------------------------------------
LEMMA Bounds ==
    /\ MaxErrors \in Nat /\ MaxErrors # 0 /\ MaxLogBuf \in Nat /\ MaxLogBuf # 0
    /\ MaxLines \in Nat /\ MaxSize \in Nat
  BY RemoteSyncAssumption

(* A buffer that is trimmed keeps its last lines, at least MaxLogBuf of     *)
(* them if there are as many.                                               *)
LEMMA Trimmed ==
    ASSUME NEW s \in Seq(Nat)
    PROVE  LET d == Len(s) - Len(Trim(s)) IN
           /\ Trim(s) \in Seq(Nat)
           /\ Len(Trim(s)) <= Len(s)
           /\ Len(Trim(s)) = Len(s) \/ Len(Trim(s)) = MaxLogBuf
           /\ \A i \in 1 .. Len(Trim(s)) : Trim(s)[i] = s[d + i]
<1>1. CASE Len(s) > MaxLogBuf
  <2> DEFINE m == Len(s) - MaxLogBuf + 1
  <2>1. Trim(s) = SubSeq(s, m, Len(s)) /\ m \in 1 .. Len(s) /\ Len(s) \in Nat
    BY <1>1, Bounds DEF Trim
  <2>2. Len(SubSeq(s, m, Len(s))) = MaxLogBuf
    BY <2>1, Bounds
  <2>3. SubSeq(s, m, Len(s)) \in Seq(Nat)
    BY <2>1
  <2>4. \A i \in 1 .. MaxLogBuf : SubSeq(s, m, Len(s))[i] = s[m + i - 1]
    BY <2>1, Bounds
  <2> QED
    BY <1>1, <2>1, <2>2, <2>3, <2>4, Bounds
<1>2. CASE ~(Len(s) > MaxLogBuf)
  BY <1>2, Bounds DEF Trim
<1> QED
  BY <1>1, <1>2

(* What is sent goes behind what was sent before.                           *)
LEMMA Sent ==
    ASSUME NEW s \in Seq(Nat), NEW b \in Seq(Nat)
    PROVE  /\ s \o b \in Seq(Nat) /\ Len(s \o b) = Len(s) + Len(b)
           /\ \A i \in 1 .. Len(s) : (s \o b)[i] = s[i]
           /\ \A i \in 1 .. Len(b) : (s \o b)[Len(s) + i] = b[i]
           /\ \A i \in 1 .. Len(s \o b) :
                  i \notin 1 .. Len(s) => i - Len(s) \in 1 .. Len(b)
                                          /\ (s \o b)[i] = b[i - Len(s)]
  OBVIOUS

LEMMA LogInit == Init => LogInv /\ LossInv
BY DEF Init, LogInv, LossInv, BufferInv, SentInv, UnstoredInv, KeptInv, OrderInv

(* Whatever a flush does, the rest of the log stays as the rules say.       *)
LEMMA LogFlush == LogInv /\ FlushLogs /\ lines' = lines => LogInv'
<1> SUFFICES ASSUME LogInv, FlushLogs, lines' = lines PROVE LogInv'
  OBVIOUS
<1> DEFINE sent == srvlog \o buf
<1>1. /\ buf \in Seq(Nat) /\ srvlog \in Seq(Nat) /\ lines \in Nat
      /\ Len(buf) \in Nat /\ Len(srvlog) \in Nat /\ Len(buf) <= lines
      /\ \A i \in 1 .. Len(buf) : buf[i] = lines - Len(buf) + i
      /\ \A j \in 1 .. Len(srvlog) : srvlog[j] \in 1 .. lines
      /\ unstored \subseteq 1 .. lines
  BY DEF LogInv, BufferInv, SentInv, UnstoredInv
<1>2. /\ buf' \in {buf, <<>>, Trim(buf)} /\ srvlog' \in {srvlog, sent}
      /\ buf' = <<>> => \/ buf = <<>> \/ offline' \/ srvlog' = sent \/ buf' = Trim(buf)
                       \/ \A i \in 1 .. Len(buf) : buf[i] \in unstored'
      /\ ~offline' => ~offline
      /\ unstored \subseteq unstored' /\ unstored' \subseteq 1 .. lines
  <2>a. Range(buf) = {buf[i] : i \in 1 .. Len(buf)}
    BY <1>1 DEF Range
  <2>b. unstored' \in {unstored, unstored \cup Range(buf)}
    BY DEF FlushLogs, Store
  <2>c. unstored \subseteq unstored' /\ unstored' \subseteq 1 .. lines
    <3>1. \A i \in 1 .. Len(buf) : buf[i] \in 1 .. lines
      BY ONLY <1>1
    <3> QED
      BY ONLY <1>1, <2>a, <2>b, <3>1
  <2>1. /\ buf' \in {buf, <<>>, Trim(buf)} /\ srvlog' \in {srvlog, sent}
        /\ buf' = <<>> => \/ buf = <<>> \/ offline' \/ srvlog' = sent \/ buf' = Trim(buf)
                         \/ \A i \in 1 .. Len(buf) : buf[i] \in unstored'
    BY <2>a DEF FlushLogs, Store, SyncOk, SyncNetwork
  <2>2. offline' = offline \/ offline' = (offline \/ errors' >= MaxErrors)
    BY DEF FlushLogs, Store, SyncOk, SyncNetwork
  <2>3. ~offline' => ~offline
    BY ONLY <2>2, Zenon
  <2> QED
    BY <2>1, <2>3, <2>c
<1>3. /\ sent \in Seq(Nat) /\ Len(sent) = Len(srvlog) + Len(buf)
      /\ \A i \in 1 .. Len(srvlog) : sent[i] = srvlog[i]
      /\ \A i \in 1 .. Len(buf) : sent[Len(srvlog) + i] = buf[i]
      /\ \A i \in 1 .. Len(sent) : i \notin 1 .. Len(srvlog) =>
             i - Len(srvlog) \in 1 .. Len(buf) /\ sent[i] = buf[i - Len(srvlog)]
  BY <1>1, Sent
<1>4. /\ Trim(buf) \in Seq(Nat) /\ Len(Trim(buf)) \in Nat /\ Len(Trim(buf)) <= Len(buf)
      /\ Len(Trim(buf)) = Len(buf) \/ Len(Trim(buf)) = MaxLogBuf
      /\ \A i \in 1 .. Len(Trim(buf)) :
             Trim(buf)[i] = buf[Len(buf) - Len(Trim(buf)) + i]
  BY <1>1, Trimmed
<1> HIDE DEF sent
<1>3a. ASSUME NEW k \in 1 .. Len(buf)
       PROVE  Len(srvlog) + k \in 1 .. Len(sent) /\ sent[Len(srvlog) + k] = buf[k]
  <2>1. k \in Nat /\ k >= 1 /\ k <= Len(buf) /\ Len(srvlog) \in Nat /\ Len(buf) \in Nat
    BY ONLY <1>1, k \in 1 .. Len(buf)
  <2>2. Len(srvlog) + k \in 1 .. (Len(srvlog) + Len(buf))
    BY ONLY <2>1
  <2> QED
    BY ONLY <1>3, <2>2, k \in 1 .. Len(buf)
<1>3b. ASSUME NEW j \in 1 .. Len(srvlog)
       PROVE  j \in 1 .. Len(sent) /\ sent[j] = srvlog[j]
  <2>1. j \in Nat /\ j >= 1 /\ j <= Len(srvlog) /\ Len(srvlog) \in Nat /\ Len(buf) \in Nat
    BY ONLY <1>1, j \in 1 .. Len(srvlog)
  <2>2. j \in 1 .. (Len(srvlog) + Len(buf))
    BY ONLY <2>1
  <2> QED
    BY ONLY <1>3, <2>2, j \in 1 .. Len(srvlog)
<1>5. BufferInv'
  <2>1. CASE buf' = buf
    BY <1>1, <2>1 DEF BufferInv
  <2>2. CASE buf' = <<>>
    BY <1>1, <2>2 DEF BufferInv
  <2>3. CASE buf' = Trim(buf)
    <3>1. ASSUME NEW i \in 1 .. Len(Trim(buf))
          PROVE  Trim(buf)[i] = lines - Len(Trim(buf)) + i
      <4>1. Len(buf) - Len(Trim(buf)) + i \in 1 .. Len(buf)
        BY <1>1, <1>4
      <4>2. buf[Len(buf) - Len(Trim(buf)) + i]
                = lines - Len(buf) + (Len(buf) - Len(Trim(buf)) + i)
        BY <1>1, <4>1
      <4>3. lines - Len(buf) + (Len(buf) - Len(Trim(buf)) + i) = lines - Len(Trim(buf)) + i
        BY <1>1, <1>4
      <4> QED
        BY <1>4, <4>2, <4>3
    <3>2. Len(Trim(buf)) <= lines
      BY <1>1, <1>4
    <3> QED
      BY <1>1, <1>4, <2>3, <3>1, <3>2 DEF BufferInv
  <2> QED
    BY <1>2, <2>1, <2>2, <2>3
(* Whatever the buffer has then, it had before.                             *)
<1>6. \A i \in 1 .. Len(buf') : \E k \in 1 .. Len(buf) : buf'[i] = buf[k]
  <2>1. CASE buf' = buf
    BY <2>1
  <2>2. CASE buf' = <<>>
    BY <2>2
  <2>3. CASE buf' = Trim(buf)
    BY <1>1, <1>4, <2>3
  <2> QED
    BY <1>2, <2>1, <2>2, <2>3
<1>7. \A j \in 1 .. Len(sent) : \/ \E k \in 1 .. Len(srvlog) : sent[j] = srvlog[k]
                                \/ \E k \in 1 .. Len(buf) : sent[j] = buf[k]
  BY <1>1, <1>3
<1>8. SentInv'
  <2>1. CASE srvlog' = srvlog
    BY <1>6, <2>1 DEF LogInv, SentInv
  <2>2. CASE srvlog' = sent
    <3>1. \A j \in 1 .. Len(sent) : sent[j] \in 1 .. lines
      <4>1. \A k \in 1 .. Len(buf) : buf[k] \in 1 .. lines
        BY <1>1
      <4> QED
        BY ONLY <1>1, <1>7, <4>1
    <3>2. \A i \in 1 .. Len(buf') : \E j \in 1 .. Len(sent) : sent[j] = buf'[i]
      <4> SUFFICES ASSUME NEW i \in 1 .. Len(buf')
                   PROVE  \E j \in 1 .. Len(sent) : sent[j] = buf'[i]
        OBVIOUS
      <4>1. PICK k \in 1 .. Len(buf) : buf'[i] = buf[k]
        BY <1>6
      <4>2. Len(srvlog) + k \in 1 .. Len(sent) /\ sent[Len(srvlog) + k] = buf[k]
        BY <1>3a
      <4> QED
        BY <4>1, <4>2
    <3> QED
      BY <1>3, <2>2, <3>1, <3>2 DEF SentInv
  <2> QED
    BY <1>2, <2>1, <2>2
<1>9. KeptInv'
  <2> SUFFICES ASSUME ~offline', NEW l \in 1 .. lines, l + MaxLogBuf > lines
               PROVE  \/ \E j \in 1 .. Len(srvlog') : srvlog'[j] = l
                      \/ \E i \in 1 .. Len(buf') : buf'[i] = l
                      \/ l \in unstored'
    BY DEF KeptInv
  <2>1. \/ \E j \in 1 .. Len(srvlog) : srvlog[j] = l
        \/ \E i \in 1 .. Len(buf) : buf[i] = l
        \/ l \in unstored
    BY <1>2 DEF LogInv, KeptInv
  <2>2. ASSUME NEW k \in 1 .. Len(srvlog), srvlog[k] = l
        PROVE  \E j \in 1 .. Len(srvlog') : srvlog'[j] = l
    <3>1. CASE srvlog' = srvlog
      BY ONLY <2>2, <3>1
    <3>2. CASE srvlog' = sent
      BY ONLY <1>3b, <2>2, <3>2
    <3> QED
      BY <1>2, <3>1, <3>2
  <2>3. ASSUME NEW i \in 1 .. Len(buf), buf[i] = l
        PROVE  \/ \E j \in 1 .. Len(srvlog') : srvlog'[j] = l
               \/ \E k \in 1 .. Len(buf') : buf'[k] = l
               \/ l \in unstored'
    <3>1. CASE srvlog' = sent
      <4>1. Len(srvlog) + i \in 1 .. Len(sent) /\ sent[Len(srvlog) + i] = buf[i]
        BY <1>3a
      <4> QED
        BY <2>3, <3>1, <4>1
    <3>2. CASE buf' = buf
      BY <2>3, <3>2
    <3>3. CASE buf' = Trim(buf)
      <4>1. i - (Len(buf) - Len(Trim(buf))) \in 1 .. Len(Trim(buf))
        <5>1. i + MaxLogBuf > Len(buf) /\ i \in Nat /\ i >= 1 /\ i <= Len(buf)
          BY ONLY <1>1, <2>3, Bounds, l \in 1 .. lines, l + MaxLogBuf > lines
        <5> QED
          BY ONLY <5>1, <1>1, <1>4, Bounds
      <4>2. Trim(buf)[i - (Len(buf) - Len(Trim(buf)))] = buf[i]
        BY <1>1, <1>4, <4>1
      <4> QED
        BY <2>3, <3>3, <4>1, <4>2
    <3>4. CASE buf' # buf /\ buf' # Trim(buf) /\ srvlog' # sent
      BY <1>2, <2>3, <3>4
    <3> QED
      BY <1>2, <3>1, <3>2, <3>3, <3>4
  <2> QED
    BY <1>2, <2>1, <2>2, <2>3
<1>10. OrderInv'
  <2>1. CASE srvlog' = srvlog
    BY <2>1 DEF LogInv, OrderInv
  <2>2. CASE srvlog' = sent
    <3> SUFFICES ASSUME NEW j \in 1 .. Len(sent)
                 PROVE  \/ \E i \in 1 .. (j - 1) : sent[i] = sent[j]
                        \/ \A i \in 1 .. (j - 1) : sent[i] < sent[j]
      BY <2>2 DEF OrderInv
    <3>1. CASE j \in 1 .. Len(srvlog)
      <4>1. \A i \in 1 .. j : i \in 1 .. Len(srvlog) /\ sent[i] = srvlog[i]
        BY <1>1, <1>3, <3>1
      <4> QED
        <5>1. \A i \in 1 .. (j - 1) : i \in 1 .. j
          BY <1>1, <3>1
        <5>2. j \in 1 .. j
          BY <1>1, <3>1
        <5> QED
          BY <3>1, <4>1, <5>1, <5>2 DEF LogInv, OrderInv
    <3>2. CASE j \notin 1 .. Len(srvlog)
      <4> DEFINE k == j - Len(srvlog)
      <4>1. k \in 1 .. Len(buf) /\ sent[j] = buf[k]
        BY <1>3, <3>2
      <4>2. CASE \E i \in 1 .. Len(srvlog) : srvlog[i] = buf[k]
        <5>1. \A i \in 1 .. Len(srvlog) : i \in 1 .. (j - 1)
          BY <1>1, <1>3, <4>1
        <5> QED
          BY <1>3, <4>1, <4>2, <5>1
      <4>3. CASE \A i \in 1 .. Len(srvlog) : srvlog[i] < buf[k]
        <5> SUFFICES ASSUME NEW i \in 1 .. (j - 1) PROVE sent[i] < sent[j]
          OBVIOUS
        <5>1. CASE i \in 1 .. Len(srvlog)
          BY <1>3, <4>1, <4>3, <5>1
        <5>2. CASE i \notin 1 .. Len(srvlog)
          <6>1. i \in 1 .. Len(sent) /\ i < j /\ i \in Nat /\ j \in Nat
            BY <1>1, <1>3
          <6>2. i - Len(srvlog) \in 1 .. Len(buf) /\ sent[i] = buf[i - Len(srvlog)]
            BY <1>3, <5>2, <6>1
          <6> QED
            <7>1. i - Len(srvlog) < k
              BY <1>1, <4>1, <6>1
            <7>2. \A a, b \in 1 .. Len(buf) : a < b => buf[a] < buf[b]
              BY ONLY <1>1
            <7> QED
              BY <4>1, <6>2, <7>1, <7>2
        <5> QED
          BY <5>1, <5>2
      <4> QED
        BY <4>1, <4>2, <4>3 DEF LogInv, SentInv
    <3> QED
      BY <3>1, <3>2
  <2> QED
    BY <1>2, <2>1, <2>2
<1>11. UnstoredInv'
  BY <1>2 DEF UnstoredInv
<1> QED
  BY <1>5, <1>8, <1>9, <1>10, <1>11 DEF LogInv

LEMMA LogStep == LogInv /\ [Next]_vars => LogInv'
<1> SUFFICES ASSUME LogInv, [Next]_vars PROVE LogInv'
  OBVIOUS
<1>1. CASE PeriodicFlush \/ ReportFlush \/ StopFlush
  BY <1>1, LogFlush DEF PeriodicFlush, ReportFlush, StopFlush
<1>2. ASSUME NEW t \in Task, AppendLog(t) PROVE LogInv'
  <2>1. /\ lines' = lines + 1 /\ buf' = Append(buf, lines + 1)
        /\ srvlog' = srvlog /\ offline' = offline /\ unstored' = unstored
    BY <1>2 DEF AppendLog
  <2>2. /\ buf \in Seq(Nat) /\ srvlog \in Seq(Nat) /\ lines \in Nat
        /\ Len(buf) \in Nat /\ Len(srvlog) \in Nat /\ Len(buf) <= lines
        /\ \A i \in 1 .. Len(buf) : buf[i] = lines - Len(buf) + i
        /\ \A j \in 1 .. Len(srvlog) : srvlog[j] \in 1 .. lines
    BY DEF LogInv, BufferInv, SentInv
  <2>3. /\ buf' \in Seq(Nat) /\ Len(buf') = Len(buf) + 1
        /\ \A i \in 1 .. Len(buf) : buf'[i] = buf[i]
        /\ buf'[Len(buf) + 1] = lines + 1
    BY <2>1, <2>2
  <2>4. \A i \in 1 .. Len(buf') : i \in 1 .. Len(buf) \/ i = Len(buf) + 1
    BY <2>2, <2>3
  <2>5. BufferInv'
    BY <2>1, <2>2, <2>3, <2>4 DEF BufferInv
  <2>6. SentInv'
    <3>1. \A j \in 1 .. Len(srvlog) : srvlog[j] \in 1 .. (lines + 1) /\ srvlog[j] < lines + 1
      BY <2>2
    <3> QED
      BY <2>1, <2>2, <2>3, <2>4, <3>1 DEF LogInv, SentInv
  <2>7. KeptInv'
    <3> SUFFICES ASSUME ~offline, NEW l \in 1 .. (lines + 1), l + MaxLogBuf > lines + 1
                 PROVE  \/ \E j \in 1 .. Len(srvlog) : srvlog[j] = l
                        \/ \E i \in 1 .. Len(buf') : buf'[i] = l
                        \/ l \in unstored
      BY <2>1 DEF KeptInv
    <3>1. CASE l = lines + 1
      <4>1. Len(buf) + 1 \in 1 .. Len(buf')
        BY ONLY <2>2, <2>3
      <4> QED
        BY ONLY <2>3, <3>1, <4>1
    <3>2. CASE l # lines + 1
      <4>1. l \in 1 .. lines /\ l + MaxLogBuf > lines
        BY <2>2, <3>2, Bounds
      <4>2. \A i \in 1 .. Len(buf) : i \in 1 .. Len(buf') /\ buf'[i] = buf[i]
        BY <2>2, <2>3
      <4> QED
        BY <4>1, <4>2 DEF LogInv, KeptInv
    <3> QED
      BY <3>1, <3>2
  <2>8. OrderInv'
    BY <2>1 DEF LogInv, OrderInv
  <2>9. UnstoredInv'
    BY <2>1, <2>2 DEF LogInv, UnstoredInv
  <2> QED
    BY <2>5, <2>6, <2>7, <2>8, <2>9 DEF LogInv
<1>3. CASE /\ ~PeriodicFlush /\ ~ReportFlush /\ ~StopFlush
           /\ ~(\E t \in Task : AppendLog(t))
  <2>1. /\ UNCHANGED <<lines, buf, srvlog, unstored>>
        /\ offline' = offline \/ offline' = (offline \/ errors' >= MaxErrors)
    <3>1. CASE \E t \in Task : TaskStep(t)
      BY <1>3, <3>1 DEF TaskStep, StartTask, EndTask, SkipTask, OnTaskStart, OnTaskComplete,
         SyncOk, SyncRefused, SyncNetwork
    <3>2. CASE Main
      BY <1>3, <3>2 DEF Main, Setup, AskStatus, StatusAnswered, StatusOffline, RunEnds,
         CheckRemote, RecordVerdict, Exit, Crash, Answered, vstay, SyncOk, SyncRefused,
         SyncNetwork
    <3>3. CASE Signal
      BY <3>3 DEF Signal, Interrupt, RecordCancelled, AskCancel, CancelAnswered, Answered, vsig,
         SyncOk, SyncRefused, SyncNetwork
    <3>4. CASE Server
      BY <3>4 DEF Server, HandlerRead, HandlerWrite, RequestLost, UserCancels
    <3>5. CASE Heartbeat \/ Hb \/ StaleJob
      BY <3>5 DEF Heartbeat, Hb, StaleJob, MarkRemote, RecordRemote, CancelRemote, ListStaleRuns,
         MarkAsStale, vhb
    <3>6. CASE UNCHANGED vars
      BY <3>6
    <3> QED
      BY <1>3, <3>1, <3>2, <3>3, <3>4, <3>5, <3>6 DEF Next
  <2>2. ~offline' => ~offline
    BY ONLY <2>1, Zenon
  <2> QED
    BY <2>1, <2>2 DEF LogInv, BufferInv, SentInv, UnstoredInv, KeptInv, OrderInv
<1> QED
  BY <1>1, <1>2, <1>3

--------------------------------------------------------------------------------
(* Every variable has its type, the counters left aside.                    *)
Statuses == {"pending", "running"} \cup Terminal
RowKind  == [status : Statuses, completed : Nat, failed : Nat, total : Nat,
             beat : BOOLEAN, gone : BOOLEAN]
ServerTypes ==
    /\ row \in RowKind /\ snap \in [Caller -> RowKind]
    /\ result \in [Task -> {"none", "pending", "running", "skipped"} \cup Terminal]
    /\ user \in {"idle", "asked"} /\ listed \in BOOLEAN
    /\ call \in [Caller -> {"none", "read", "write", "ok", "conflict", "lost"}]
    /\ req \in {"none", "start", "total", "final"}
ClientTypes ==
    /\ local \in {"running"} \cup Terminal
    /\ pc \in {"setup", "start", "total", "run", "check", "local", "flush", "final",
               "stop", "exit", "crashed"}
    /\ sig \in {"off", "armed", "local", "remote", "done"}
    /\ hb \in {"on", "mark", "record", "cancel", "off"}
    /\ cancelFn \in BOOLEAN /\ remote \in BOOLEAN /\ ctx \in {"live", "cancelled"}
    /\ stage \in [Task -> {"unplanned", "todo", "running", "done"}]
    /\ out \in [Task -> {"none", "success", "failed", "cancelled", "skipped", "blocked"}]
SyncTypes ==
    /\ lines \in 0 .. MaxLines /\ tries \in 0 .. 3
    /\ offline \in BOOLEAN /\ errors \in Nat /\ faults \in 0 .. MaxSize

TypeInv == ServerTypes /\ ClientTypes /\ SyncTypes

LEMMA FourAreFinite ==
    ASSUME NEW a, NEW b, NEW c, NEW d
    PROVE  IsFiniteSet({a, b, c, d})
<1>1. IsFiniteSet({a} \cup {b}) /\ IsFiniteSet({c} \cup {d})
  BY FS_Singleton, FS_Union
<1>2. {a, b, c, d} = ({a} \cup {b}) \cup ({c} \cup {d})
  OBVIOUS
<1>3. IsFiniteSet(({a} \cup {b}) \cup ({c} \cup {d}))
  BY <1>1, FS_Union
<1> QED
  BY <1>2, <1>3

LEMMA PlanFinite == IsFiniteSet(Plan) /\ Cardinality(Plan) \in Nat
<1>1. IsFiniteSet(Task) /\ Plan \subseteq Task
  BY RemoteSyncAssumption DEF Plan
<1> QED
  BY <1>1, FS_Subset, FS_CardinalityType

(* Faults are bounded.                                                      *)
LEMMA FaultsBounded ==
    ASSUME faults \in 0 .. MaxSize, Fault
    PROVE  faults' \in 0 .. MaxSize
<1> DEFINE S == {<<"user", user # "idle">>, <<"signal", sig \in {"local", "remote", "done"}>>,
                 <<"crash", pc = "crashed">>, <<"late", Alive /\ (listed \/ row.gone)>>}
           D == {c \in S : c[2]}
<1>1. IsFiniteSet(S)
  BY FourAreFinite
<1>2. D \subseteq S
  OBVIOUS
<1>3. Disturbances = faults + Cardinality(D)
  BY DEF Disturbances
<1> HIDE DEF S, D
<1>4. Cardinality(D) \in Nat
  BY <1>1, <1>2, FS_Subset, FS_CardinalityType
<1>5. Cardinality(Plan) + (faults + Cardinality(D)) < MaxSize /\ faults' = faults + 1
  BY <1>3 DEF Fault, MayDisturb
<1> QED
  BY <1>4, <1>5, PlanFinite, Bounds

LEMMA TypeInit == Init => TypeInv
<1> SUFFICES ASSUME Init PROVE TypeInv
  OBVIOUS
<1>1. NewRow \in RowKind
  BY DEF NewRow, RowKind, Statuses
<1>2. ServerTypes
  BY <1>1 DEF Init, ServerTypes
<1>3. ClientTypes
  BY DEF Init, ClientTypes
<1>4. SyncTypes
  <2>1. lines = 0 /\ tries = 0 /\ offline = FALSE /\ errors = 0 /\ faults = 0
    BY DEF Init
  <2>2. 0 \in 0 .. MaxLines /\ 0 \in 0 .. MaxSize /\ 0 \in 0 .. 3 /\ 0 \in Nat
    BY Bounds
  <2> QED
    BY <2>1, <2>2 DEF SyncTypes
<1> QED
  BY <1>2, <1>3, <1>4 DEF TypeInv

(* The counts of errors and faults, and the outcome of a sync operation.    *)
LEMMA SyncStep ==
    ASSUME SyncTypes, NoFault \/ Fault,
           SyncOk \/ SyncRefused \/ SyncNetwork \/ UNCHANGED <<errors, offline>>
    PROVE  offline' \in BOOLEAN /\ errors' \in Nat /\ faults' \in 0 .. MaxSize
<1>1. faults' \in 0 .. MaxSize
  BY FaultsBounded DEF NoFault, SyncTypes
<1>2. errors' \in Nat
  BY DEF SyncTypes, SyncOk, SyncRefused, SyncNetwork, Count
<1>3. offline' = offline \/ offline' = (offline \/ errors' >= MaxErrors)
  BY DEF SyncOk, SyncRefused, SyncNetwork
<1>4. offline' \in BOOLEAN
  BY <1>3 DEF SyncTypes
<1> QED
  BY <1>1, <1>2, <1>4

(* A step leaves the sync state alone or has one outcome.                   *)
LEMMA SyncTypesStep == SyncTypes /\ [Next]_vars => SyncTypes'
<1> SUFFICES ASSUME SyncTypes, [Next]_vars PROVE SyncTypes'
  OBVIOUS
<1>1. UNCHANGED vsync \/ ((NoFault \/ Fault) /\ (SyncOk \/ SyncRefused \/ SyncNetwork
                                                 \/ UNCHANGED <<errors, offline>>))
  <2>1. CASE \E t \in Task : TaskStep(t)
    BY <2>1 DEF TaskStep, StartTask, EndTask, SkipTask, AppendLog, OnTaskStart, OnTaskComplete
  <2>2. CASE Main
    BY <2>2 DEF Main, Setup, AskStatus, StatusAnswered, StatusOffline, RunEnds,
       CheckRemote, RecordVerdict, ReportFlush, StopFlush, Exit, Crash, Answered, vstay,
       FlushLogs, Store, NoFault
  <2>3. CASE Signal
    BY <2>3 DEF Signal, Interrupt, RecordCancelled, AskCancel, CancelAnswered, Answered, vsig,
       NoFault
  <2>4. CASE Server
    BY <2>4 DEF Server, HandlerRead, HandlerWrite, RequestLost, UserCancels
  <2>5. CASE Heartbeat \/ Hb \/ StaleJob \/ PeriodicFlush
    BY <2>5 DEF Heartbeat, Hb, StaleJob, MarkRemote, RecordRemote, CancelRemote, ListStaleRuns,
       MarkAsStale, vhb, PeriodicFlush, FlushLogs, Store
  <2>6. CASE UNCHANGED vars
    BY <2>6
  <2> QED
    BY <2>1, <2>2, <2>3, <2>4, <2>5, <2>6 DEF Next
<1>2. offline' \in BOOLEAN /\ errors' \in Nat /\ faults' \in 0 .. MaxSize
  BY <1>1, SyncStep DEF SyncTypes
<1>3. lines' \in 0 .. MaxLines /\ tries' \in 0 .. 3
  <2>1. CASE \E t \in Task : TaskStep(t)
    BY <2>1, Bounds DEF TaskStep, StartTask, EndTask, SkipTask, AppendLog, SyncTypes
  <2>2. CASE Main
    BY <2>2 DEF Main, Setup, AskStatus, StatusAnswered, StatusOffline, RunEnds,
       CheckRemote, RecordVerdict, ReportFlush, StopFlush, Exit, Crash, vstay, SyncTypes
  <2>3. CASE Signal
    BY <2>3 DEF Signal, Interrupt, RecordCancelled, AskCancel, CancelAnswered, vsig, SyncTypes
  <2>4. CASE Server
    BY <2>4 DEF Server, HandlerRead, HandlerWrite, RequestLost, UserCancels, SyncTypes
  <2>5. CASE Heartbeat \/ Hb \/ StaleJob \/ PeriodicFlush
    BY <2>5 DEF Heartbeat, Hb, StaleJob, MarkRemote, RecordRemote, CancelRemote, ListStaleRuns,
       MarkAsStale, vhb, PeriodicFlush, SyncTypes
  <2>6. CASE UNCHANGED vars
    BY <2>6 DEF SyncTypes
  <2> QED
    BY <2>1, <2>2, <2>3, <2>4, <2>5, <2>6 DEF Next
<1> QED
  BY <1>2, <1>3 DEF SyncTypes

LEMMA ClientTypesStep == ClientTypes /\ [Next]_vars => ClientTypes'
<1> SUFFICES ASSUME ClientTypes, [Next]_vars PROVE ClientTypes'
  OBVIOUS
<1> USE DEF ClientTypes
<1>1. CASE \E t \in Task : TaskStep(t)
  BY <1>1 DEF TaskStep, StartTask, EndTask, SkipTask, AppendLog
<1>2. CASE Main
  <2>1. CASE Setup
    BY <2>1 DEF Setup
  <2>2. CASE AskStatus \/ StatusAnswered \/ StatusOffline
    BY <2>2 DEF AskStatus, StatusAnswered, StatusOffline, Following, vstay
  <2>3. CASE RunEnds \/ CheckRemote \/ ReportFlush
    BY <2>3 DEF RunEnds, CheckRemote, ReportFlush, vstay
  <2>4. CASE RecordVerdict
    BY <2>4 DEF RecordVerdict, vstay, Verdict, Terminal
  <2>5. CASE StopFlush \/ Exit \/ Crash
    BY <2>5 DEF StopFlush, Exit, Crash, vstay
  <2> QED
    BY <1>2, <2>1, <2>2, <2>3, <2>4, <2>5 DEF Main
<1>3. CASE Signal
  BY <1>3 DEF Signal, Interrupt, RecordCancelled, AskCancel, CancelAnswered, vsig, Terminal
<1>4. CASE Server
  BY <1>4 DEF Server, HandlerRead, HandlerWrite, RequestLost, UserCancels
<1>5. CASE Heartbeat \/ Hb \/ StaleJob \/ PeriodicFlush
  <2>1. CASE Heartbeat \/ PeriodicFlush \/ StaleJob
    BY <2>1 DEF Heartbeat, PeriodicFlush, StaleJob, ListStaleRuns, MarkAsStale
  <2>2. CASE MarkRemote
    BY <2>2 DEF MarkRemote, HbStep, vhb
  <2>3. CASE RecordRemote
    BY <2>3 DEF RecordRemote, HbStep, vhb, Terminal
  <2>4. CASE CancelRemote
    BY <2>4 DEF CancelRemote, HbStep, vhb
  <2> QED
    BY <1>5, <2>1, <2>2, <2>3, <2>4 DEF Hb
<1>6. CASE UNCHANGED vars
  BY <1>6
<1> QED
  BY <1>1, <1>2, <1>3, <1>4, <1>5, <1>6 DEF Next

(* The rows that the handlers write are rows.                               *)
LEMMA RowsWritten ==
    ASSUME NEW r \in RowKind, NEW q \in RowKind, NEW s \in Statuses, NEW n \in Nat
    PROVE  /\ [r EXCEPT !.status = s] \in RowKind
           /\ [r EXCEPT !.total = n] \in RowKind
           /\ [r EXCEPT !.beat = q.beat, !.gone = q.gone] \in RowKind
           /\ [r EXCEPT !.beat = TRUE, !.gone = FALSE] \in RowKind
           /\ [r EXCEPT !.gone = TRUE] \in RowKind
           /\ [r EXCEPT !.status = s, !.total = n] \in RowKind
BY DEF RowKind

LEMMA RowCounted ==
    ASSUME NEW r \in RowKind, NEW n \in Nat, NEW m \in Nat
    PROVE  [r EXCEPT !.completed = n, !.failed = m] \in RowKind
BY DEF RowKind

(* An update of a task counts one at most, a failure in both counters.      *)
LEMMA Counting ==
    ASSUME row \in RowKind, NEW t, NEW s, UpdateTaskStatus(t, s)
    PROVE  \E n, m \in {0, 1} :
               m <= n /\ row' = [row EXCEPT !.completed = row.completed + n,
                                           !.failed = row.failed + m]
<1> DEFINE n == IF s \in {"success", "failed"} THEN 1 ELSE 0
           m == IF s = "failed" THEN 1 ELSE 0
<1>1. row' = [row EXCEPT !.completed = row.completed + n, !.failed = row.failed + m]
  BY DEF UpdateTaskStatus
<1>2. n \in {0, 1} /\ m \in {0, 1} /\ m <= n
  OBVIOUS
<1> QED
  BY <1>1, <1>2

LEMMA ServerTypesStep == TypeInv /\ [Next]_vars => ServerTypes'
<1> SUFFICES ASSUME ServerTypes, ClientTypes, [Next]_vars PROVE ServerTypes'
  BY DEF TypeInv
<1>0. NewRow \in RowKind
  BY DEF NewRow, RowKind, Statuses
<1> DEFINE Calls == {"none", "read", "write", "ok", "conflict", "lost"}
           Results == {"none", "pending", "running", "skipped"} \cup Terminal
<1>1. CASE \E t \in Task : TaskStep(t)
  <2> SUFFICES ASSUME NEW t \in Task, TaskStep(t) PROVE ServerTypes'
    BY <1>1
  <2>1. UNCHANGED <<snap, user, listed, call, req>>
    BY DEF TaskStep, StartTask, EndTask, SkipTask, AppendLog
  <2>2. row' \in RowKind
    <3>1. row' = row \/ \E s \in Results : UpdateTaskStatus(t, s)
      BY DEF TaskStep, StartTask, EndTask, SkipTask, AppendLog, OnTaskComplete, Terminal
    <3>2. ASSUME NEW n \in {0, 1}, NEW m \in {0, 1}
          PROVE  [row EXCEPT !.completed = row.completed + n, !.failed = row.failed + m] \in RowKind
      <4>1. row \in RowKind /\ row.completed + n \in Nat /\ row.failed + m \in Nat
        BY DEF ServerTypes, RowKind
      <4> QED
        BY <4>1, RowCounted
    <3> QED
      BY <3>1, <3>2, Counting DEF ServerTypes
  <2>3. result' \in [Task -> Results]
    <3>1. result' = result \/ \E s \in Results : result' = [result EXCEPT ![t] = s]
      BY DEF TaskStep, StartTask, EndTask, SkipTask, AppendLog, OnTaskStart, OnTaskComplete,
         UpdateTaskStatus, Terminal
    <3> QED
      BY <3>1 DEF ServerTypes
  <2> QED
    BY <2>1, <2>2, <2>3 DEF ServerTypes
<1>2. CASE Main \/ Signal
  <2>1. UNCHANGED <<row, result, user, listed, snap>>
    BY <1>2 DEF Main, Setup, AskStatus, StatusAnswered, StatusOffline, RunEnds, CheckRemote,
       RecordVerdict, ReportFlush, StopFlush, Exit, Crash, vstay, Signal, Interrupt,
       RecordCancelled, AskCancel, CancelAnswered, vsig, Answered, Ask
  <2>2. call' = call \/ \E a \in Caller, l \in {"read", "none"} :
                           call' = [call EXCEPT ![a] = l]
    BY <1>2 DEF Main, Setup, AskStatus, StatusAnswered, StatusOffline, RunEnds, CheckRemote,
       RecordVerdict, ReportFlush, StopFlush, Exit, Crash, vstay, Signal, Interrupt,
       RecordCancelled, AskCancel, CancelAnswered, vsig, Answered, Ask, Goto, Caller
  <2>3. req' = req \/ req' \in {"start", "total", "final"}
    BY <1>2 DEF Main, Setup, AskStatus, StatusAnswered, StatusOffline, RunEnds, CheckRemote,
       RecordVerdict, ReportFlush, StopFlush, Exit, Crash, vstay, Signal, Interrupt,
       RecordCancelled, AskCancel, CancelAnswered, vsig, Answered
  <2> QED
    BY <2>1, <2>2, <2>3 DEF ServerTypes
<1>3. ASSUME NEW a \in Caller, HandlerRead(a) \/ RequestLost(a) PROVE ServerTypes'
  <2>1. UNCHANGED <<row, result, user, listed, req>>
        /\ snap' \in {snap, [snap EXCEPT ![a] = row]}
        /\ \E l \in {"conflict", "write", "lost"} : call' = [call EXCEPT ![a] = l]
    BY <1>3 DEF HandlerRead, RequestLost, Goto
  <2> QED
    BY <2>1 DEF ServerTypes
<1>4. ASSUME NEW a \in Caller, HandlerWrite(a) PROVE ServerTypes'
  <2>1. UNCHANGED <<user, listed, req>> /\ snap' = [snap EXCEPT ![a] = NewRow]
        /\ \E l \in {"ok", "lost"} : call' = [call EXCEPT ![a] = l]
    BY <1>4 DEF HandlerWrite, Goto
  <2>2. row \in RowKind /\ \A b \in Caller : snap[b] \in RowKind
    BY DEF ServerTypes
  <2>3. CASE a = "main"
    <3>1. result' = result /\ UpdateRunStatus
      BY <1>4, <2>3 DEF HandlerWrite
    <3>2. Verdict \in Statuses /\ "running" \in Statuses /\ "main" \in Caller
      BY DEF Verdict, Statuses, Terminal, Caller
    <3>3. row' \in RowKind
      <4>1. CASE row' = [row EXCEPT !.status = Verdict]
        BY <2>2, <3>2, <4>1 DEF RowKind
      <4>2. CASE row' = [row EXCEPT !.status = "running",
                               !.total = IF req = "total" THEN Cardinality(Plan) ELSE @]
        BY <2>2, <3>2, <4>2, PlanFinite DEF RowKind
      <4>3. CASE Update([snap["main"] EXCEPT !.total = Cardinality(Plan)])
        BY <2>2, <3>2, <4>3, PlanFinite, RowsWritten DEF Update
      <4> QED
        BY <3>1, <4>1, <4>2, <4>3 DEF UpdateRunStatus
    <3> QED
      BY <1>0, <2>1, <3>1, <3>3 DEF ServerTypes
  <2>4. CASE a # "main"
    <3>1. CancelRun(a)
      BY <1>4, <2>4 DEF HandlerWrite
    <3>2. "cancelled" \in Statuses
      BY DEF Statuses, Terminal
    <3>3. row' \in RowKind
      BY <2>2, <3>1, <3>2, RowsWritten DEF CancelRun, Update
    <3>4. result' \in [Task -> Results]
      BY <3>1 DEF CancelRun, ServerTypes, Terminal
    <3> QED
      BY <1>0, <2>1, <3>3, <3>4 DEF ServerTypes
  <2> QED
    BY <2>3, <2>4
<1>5. CASE UserCancels
  BY <1>5 DEF UserCancels, Ask, Goto, ServerTypes, Caller
<1>6. CASE Heartbeat \/ MarkAsStale
  <2>1. UNCHANGED <<result, user, snap, call, req>> /\ listed' \in BOOLEAN
    BY <1>6 DEF Heartbeat, MarkAsStale, ServerTypes
  <2>2. row' \in RowKind
    <3>1. row \in RowKind
      BY DEF ServerTypes
    <3>2. CASE Heartbeat
      BY <3>1, <3>2 DEF Heartbeat, UpdateHeartbeat, RowKind
    <3>3. CASE MarkAsStale
      BY <3>1, <3>3 DEF MarkAsStale, RowKind
    <3> QED
      BY <1>6, <3>2, <3>3
  <2> QED
    BY <2>1, <2>2 DEF ServerTypes
<1>7. CASE Hb \/ ListStaleRuns \/ PeriodicFlush \/ UNCHANGED vars
  BY <1>7 DEF Hb, MarkRemote, RecordRemote, CancelRemote, vhb, ListStaleRuns, PeriodicFlush,
     ServerTypes
<1> QED
  BY <1>1, <1>2, <1>3, <1>4, <1>5, <1>6, <1>7 DEF Next, Server, StaleJob

LEMMA TypeStep == TypeInv /\ [Next]_vars => TypeInv'
BY SyncTypesStep, ClientTypesStep, ServerTypesStep DEF TypeInv

--------------------------------------------------------------------------------
(* No task is counted twice, not even when a handler writes back the row as *)
(* it was: the counters of the row, and of each copy of it, count tasks     *)
(* that are done.                                                           *)
Done == {t \in Task : stage[t] = "done"}
CountOf(r) ==
    /\ r.failed <= r.completed /\ r.completed <= Cardinality(Done)
    /\ r.total \in {0, Cardinality(Plan)}
CountInv == CountOf(row) /\ \A a \in Caller : CountOf(snap[a])

LEMMA DoneFinite ==
    /\ IsFiniteSet(Done) /\ Cardinality(Done) \in Nat
    /\ Cardinality(Done) <= Cardinality(Plan)
<1>1. Done \subseteq Plan
  BY DEF Done, Plan
<1> QED
  BY <1>1, PlanFinite, FS_Subset, FS_CardinalityType

LEMMA CountInit == Init => CountInv
<1> SUFFICES ASSUME Init PROVE CountInv
  OBVIOUS
<1>1. CountOf(NewRow)
  BY DoneFinite DEF CountOf, NewRow
<1> QED
  BY <1>1 DEF Init, CountInv

(* Only a task's step changes how far a task is.                            *)
LEMMA StageStays ==
    ASSUME [Next]_vars, \A t \in Task : ~StartTask(t) /\ ~EndTask(t) /\ ~SkipTask(t)
    PROVE  UNCHANGED <<stage, out>>
<1>1. CASE Main \/ Signal
  BY <1>1 DEF Main, Setup, AskStatus, StatusAnswered, StatusOffline, RunEnds, CheckRemote,
     RecordVerdict, ReportFlush, StopFlush, Exit, Crash, vstay, Signal, Interrupt,
     RecordCancelled, AskCancel, CancelAnswered, vsig
<1>2. CASE Server \/ Heartbeat \/ Hb \/ StaleJob \/ PeriodicFlush
  BY <1>2 DEF Server, HandlerRead, HandlerWrite, RequestLost, UserCancels, Heartbeat, Hb,
     MarkRemote, RecordRemote, CancelRemote, vhb, StaleJob, ListStaleRuns, MarkAsStale,
     PeriodicFlush
<1>3. CASE UNCHANGED vars
  BY <1>3
<1>4. CASE \E t \in Task : AppendLog(t)
  BY <1>4 DEF AppendLog
<1> QED
  BY <1>1, <1>2, <1>3, <1>4 DEF Next, TaskStep

LEMMA CountStep == TypeInv /\ CountInv /\ [Next]_vars => CountInv'
<1> SUFFICES ASSUME TypeInv, CountInv, [Next]_vars PROVE CountInv'
  OBVIOUS
<1>1. row \in RowKind /\ \A a \in Caller : snap[a] \in RowKind
  BY DEF TypeInv, ServerTypes
<1>2. /\ stage \in [Task -> {"unplanned", "todo", "running", "done"}]
      /\ DOMAIN snap = Caller
  BY DEF TypeInv, ServerTypes, ClientTypes
<1>3. CASE UNCHANGED <<stage, row, snap>>
  BY <1>3 DEF CountInv, CountOf, Done, Plan
<1>4. ASSUME NEW t \in Task, StartTask(t) PROVE CountInv'
  <2>1. /\ stage[t] = "todo" /\ stage' = [stage EXCEPT ![t] = "running"]
        /\ UNCHANGED <<row, snap>>
    BY <1>4 DEF StartTask
  <2>2. Done' = Done /\ Plan' = Plan
    BY <1>2, <2>1 DEF Done, Plan
  <2> QED
    BY <2>1, <2>2 DEF CountInv, CountOf
<1>5. ASSUME NEW t \in Task, EndTask(t) \/ SkipTask(t) PROVE CountInv'
  <2>1. /\ stage[t] \in {"todo", "running"} /\ stage' = [stage EXCEPT ![t] = "done"]
        /\ snap' = snap
        /\ row' = row \/ \E s \in {"success", "failed", "skipped", "cancelled"} :
                                 UpdateTaskStatus(t, s)
    BY <1>5 DEF EndTask, SkipTask, OnTaskComplete
  <2>2. Done' = Done \cup {t} /\ t \notin Done /\ Plan' = Plan
    BY <1>2, <2>1 DEF Done, Plan
  <2>3. Cardinality(Done') = Cardinality(Done) + 1
    BY <2>2, DoneFinite, FS_AddElement
  <2>4. \A a \in Caller : CountOf(snap[a])'
    BY <1>1, <2>1, <2>2, <2>3, DoneFinite DEF CountInv, CountOf, RowKind
  <2>5. CountOf(row)'
    <3>1. CASE row' = row
      BY <1>1, <2>2, <2>3, <3>1, DoneFinite DEF CountInv, CountOf, RowKind
    <3>2. ASSUME NEW n \in {0, 1}, NEW m \in {0, 1}, m <= n,
                 row' = [row EXCEPT !.completed = row.completed + n,
                                    !.failed = row.failed + m]
          PROVE  CountOf(row)'
      <4>1. /\ row'.completed = row.completed + n /\ row'.failed = row.failed + m
            /\ row'.total = row.total
        BY <1>1, <3>2 DEF RowKind
      <4>2. row.completed \in Nat /\ row.failed \in Nat
        BY <1>1 DEF RowKind
      <4> QED
        BY <2>2, <2>3, <3>2, <4>1, <4>2, DoneFinite DEF CountInv, CountOf
    <3> QED
      BY <1>1, <2>1, <3>1, <3>2, Counting
  <2> QED
    BY <2>4, <2>5 DEF CountInv
<1>6. CASE \A t \in Task : ~StartTask(t) /\ ~EndTask(t) /\ ~SkipTask(t)
  <2>1. Done' = Done /\ Plan' = Plan
    BY <1>6, StageStays DEF Done, Plan
  <2>2. ASSUME NEW a \in Caller, HandlerRead(a) PROVE CountInv'
    <3>1. row' = row /\ snap' \in {snap, [snap EXCEPT ![a] = row]}
      BY <2>2 DEF HandlerRead
    <3> QED
      BY <1>2, <2>1, <3>1 DEF CountInv, CountOf
  <2>3. ASSUME NEW a \in Caller, HandlerWrite(a) PROVE CountInv'
    <3>1. snap' = [snap EXCEPT ![a] = NewRow]
      BY <2>3 DEF HandlerWrite
    <3>2. CountOf(NewRow)'
      BY <2>1, DoneFinite DEF CountOf, NewRow
    <3>3. \A b \in Caller : CountOf(snap[b])'
      BY <1>2, <2>1, <3>1, <3>2 DEF CountInv, CountOf
    <3>4. \E r \in {row, snap[a]} :
              /\ row'.completed = r.completed /\ row'.failed = r.failed
              /\ row'.total \in {r.total, Cardinality(Plan)}
      <4>1. CASE a = "main"
        <5>1. UpdateRunStatus /\ "main" \in Caller
          BY <2>3, <4>1 DEF HandlerWrite
        <5> QED
          BY <1>1, <4>1, <5>1 DEF UpdateRunStatus, Update, RowKind
      <4>2. CASE a # "main"
        <5>1. row' = [[snap[a] EXCEPT !.status = "cancelled"]
                          EXCEPT !.beat = row.beat, !.gone = row.gone]
          BY <2>3, <4>2 DEF HandlerWrite, CancelRun, Update
        <5> QED
          BY <1>1, <5>1 DEF RowKind
      <4> QED
        BY <4>1, <4>2
    <3>5. CountOf(row)'
      BY <2>1, <3>4 DEF CountInv, CountOf
    <3> QED
      BY <3>3, <3>5 DEF CountInv
  <2>4. CASE Heartbeat \/ MarkAsStale
    <3>1. /\ row'.completed = row.completed /\ row'.failed = row.failed
          /\ row'.total = row.total /\ snap' = snap
      BY <1>1, <2>4 DEF Heartbeat, UpdateHeartbeat, MarkAsStale, RowKind
    <3> QED
      BY <2>1, <3>1 DEF CountInv, CountOf
  <2>5. CASE UNCHANGED <<row, snap>>
    BY <2>1, <2>5 DEF CountInv, CountOf
  <2>6. CASE Main \/ Signal
    BY <2>5, <2>6 DEF Main, Setup, AskStatus, StatusAnswered, StatusOffline, RunEnds,
       CheckRemote, RecordVerdict, ReportFlush, StopFlush, Exit, Crash, vstay, Signal,
       Interrupt, RecordCancelled, AskCancel, CancelAnswered, vsig, Answered, Ask
  <2>7. CASE \/ Hb \/ ListStaleRuns \/ PeriodicFlush \/ UserCancels \/ UNCHANGED vars
             \/ (\E t \in Task : AppendLog(t)) \/ \E a \in Caller : RequestLost(a)
    BY <2>5, <2>7 DEF Hb, MarkRemote, RecordRemote, CancelRemote, vhb, ListStaleRuns,
       PeriodicFlush, UserCancels, Ask, AppendLog, RequestLost
  <2> QED
    BY <1>6, <2>2, <2>3, <2>4, <2>6, <2>7 DEF Next, Server, StaleJob, TaskStep
<1> QED
  BY <1>4, <1>5, <1>6

--------------------------------------------------------------------------------
(* Why a run that was stopped is not a success.  While no signal came, the  *)
(* context is cancelled only by the heartbeat goroutine, after its note.    *)
Unsignalled == sig \in {"off", "armed"}
NoteInv ==
    /\ Unsignalled /\ ctx = "cancelled" => remote
    /\ hb \in {"record", "cancel"} => remote
    /\ pc = "setup" => sig = "off"

(* A task has an outcome when it is done, and one is blocked only behind a  *)
(* failure: a run whose verdict is a success has no blocked task.           *)
OutcomeInv ==
    /\ \A t \in Task : (out[t] = "none") <=> (stage[t] # "done")
    /\ (\E t \in Task : out[t] = "blocked") => Verdict = "failed"

(* From the return of the scheduler on, a verdict that may be reported is   *)
(* earned; so is what has been requested, recorded and written.             *)
AllRan == \A t \in Plan : stage[t] = "done"
Earned == Unsignalled => Verdict = "failed" \/ AllRan
Closing == {"final", "stop", "exit", "crashed"}
VerdictInv ==
    /\ pc = "check" => remote \/ Earned
    /\ pc \in {"local", "flush", "final"} => Earned
    /\ req = "final" => pc \in Closing /\ Earned
    /\ local = "success" => pc \in Closing \cup {"flush"} /\ Earned /\ Verdict = "success"
    /\ row.status = "success" => pc \in Closing /\ Earned /\ Verdict = "success"
    /\ \A a \in Caller : snap[a].status \notin Terminal

SettleInv == NoteInv /\ OutcomeInv /\ VerdictInv

LEMMA SettleInit == Init => SettleInv
<1> SUFFICES ASSUME Init PROVE SettleInv
  OBVIOUS
<1>1. NoteInv /\ OutcomeInv
  BY DEF Init, NoteInv, OutcomeInv
<1>2. VerdictInv
  BY DEF Init, VerdictInv, NewRow, Terminal
<1> QED
  BY <1>1, <1>2 DEF SettleInv

LEMMA NoteStep == TypeInv /\ NoteInv /\ [Next]_vars => NoteInv'
<1> SUFFICES ASSUME NoteInv, [Next]_vars, ClientTypes PROVE NoteInv'
  BY DEF TypeInv
<1>1. CASE Main
  <2>1. /\ UNCHANGED <<ctx, remote>> /\ hb' \in {hb, "off"}
        /\ \/ sig' = sig /\ pc' # "setup"
           \/ pc = "setup" /\ pc' # "setup" /\ sig' \in {"armed", "off"}
           \/ sig' = sig /\ pc' = pc
    <3>1. CASE Setup
      BY <3>1 DEF Setup, NoteInv
    <3>2. CASE ~Setup
      BY <1>1, <3>2 DEF Main, AskStatus, StatusAnswered, StatusOffline, RunEnds, CheckRemote,
         RecordVerdict, ReportFlush, StopFlush, Exit, Crash, vstay, Following
    <3> QED
      BY <3>1, <3>2
  <2> QED
    BY <2>1 DEF NoteInv, Unsignalled
<1>2. CASE Signal
  <2>1. /\ UNCHANGED <<remote, hb, pc>> /\ sig \notin {"off"}
        /\ \/ ctx' = ctx /\ (Unsignalled' => Unsignalled)
           \/ sig' = "local"
    BY <1>2 DEF Signal, Interrupt, RecordCancelled, AskCancel, CancelAnswered, vsig, Unsignalled
  <2> QED
    BY <2>1 DEF NoteInv, Unsignalled
<1>3. CASE Hb
  <2>1. CASE MarkRemote
    BY <2>1 DEF MarkRemote, HbStep, vhb, NoteInv, Unsignalled
  <2>2. CASE RecordRemote
    BY <2>2 DEF RecordRemote, HbStep, vhb, NoteInv, Unsignalled
  <2>3. CASE CancelRemote
    BY <2>3 DEF CancelRemote, HbStep, vhb, NoteInv, Unsignalled
  <2> QED
    BY <1>3, <2>1, <2>2, <2>3 DEF Hb
<1>4. CASE Heartbeat
  BY <1>4 DEF Heartbeat, NoteInv, Unsignalled
<1>5. CASE Server \/ StaleJob \/ PeriodicFlush
  BY <1>5 DEF Server, HandlerRead, HandlerWrite, RequestLost, UserCancels, StaleJob,
     ListStaleRuns, MarkAsStale, PeriodicFlush, NoteInv, Unsignalled
<1>6. CASE \E t \in Task : TaskStep(t)
  BY <1>6 DEF TaskStep, StartTask, EndTask, SkipTask, AppendLog, NoteInv, Unsignalled
<1>7. CASE UNCHANGED vars
  BY <1>7 DEF NoteInv, Unsignalled
<1> QED
  BY <1>1, <1>2, <1>3, <1>4, <1>5, <1>6, <1>7 DEF Next

(* A task that is skipped needs one that failed or was cancelled, or one    *)
(* that was blocked, behind which there is a failure.                       *)
LEMMA OutcomeStep == TypeInv /\ OutcomeInv /\ [Next]_vars => OutcomeInv'
<1> SUFFICES ASSUME OutcomeInv, [Next]_vars, ClientTypes PROVE OutcomeInv'
  BY DEF TypeInv
<1>1. /\ stage \in [Task -> {"unplanned", "todo", "running", "done"}]
      /\ out \in [Task -> {"none", "success", "failed", "cancelled", "skipped", "blocked"}]
  BY DEF ClientTypes
<1>2. Verdict = "failed" <=> \E t \in Task : out[t] \in {"failed", "cancelled"}
  BY DEF Verdict
<1>3. Verdict' = "failed" <=> \E t \in Task : out'[t] \in {"failed", "cancelled"}
  BY DEF Verdict
<1>4. ASSUME NEW t \in Task, StartTask(t) PROVE OutcomeInv'
  <2>1. stage' = [stage EXCEPT ![t] = "running"] /\ stage[t] = "todo" /\ out' = out
    BY <1>4 DEF StartTask
  <2> QED
    BY <1>1, <1>2, <1>3, <2>1 DEF OutcomeInv
<1>5. ASSUME NEW t \in Task, EndTask(t) \/ SkipTask(t) PROVE OutcomeInv'
  <2>1. /\ stage' = [stage EXCEPT ![t] = "done"] /\ stage[t] # "done"
        /\ out'[t] \in {"success", "failed", "skipped", "cancelled", "blocked"}
        /\ out' = [out EXCEPT ![t] = out'[t]]
        /\ out'[t] = "blocked" =>
               \E n \in Needs[t] : out[n] \in {"failed", "cancelled", "blocked"}
    <3>1. CASE EndTask(t)
      BY <1>1, <3>1 DEF EndTask
    <3>2. CASE SkipTask(t)
      BY <1>1, <3>2 DEF SkipTask
    <3> QED
      BY <1>5, <3>1, <3>2
  <2>2. out[t] = "none"
    BY <2>1 DEF OutcomeInv
  <2>3. Verdict = "failed" => Verdict' = "failed"
    BY <1>1, <1>2, <1>3, <2>1, <2>2
  <2>4. out'[t] = "blocked" => Verdict = "failed"
    <3>1. Needs[t] \subseteq Task
      BY RemoteSyncAssumption
    <3> QED
      BY <1>2, <2>1, <3>1 DEF OutcomeInv
  <2> QED
    BY <1>1, <2>1, <2>2, <2>3, <2>4 DEF OutcomeInv
<1>6. CASE \A t \in Task : ~StartTask(t) /\ ~EndTask(t) /\ ~SkipTask(t)
  BY <1>2, <1>3, <1>6, StageStays DEF OutcomeInv
<1> QED
  BY <1>4, <1>5, <1>6

(* Nobody takes a signal back, and a main goroutine that is closing the run *)
(* goes on doing so.                                                        *)
LEMMA Forward ==
    ASSUME TypeInv, NoteInv, [Next]_vars
    PROVE  /\ Unsignalled' => Unsignalled
           /\ pc \in Closing => pc' \in Closing
           /\ pc = "flush" => pc' \in Closing \cup {"flush"}
<1>1. CASE Main
  <2>1. CASE Setup
    BY <2>1 DEF Setup, Unsignalled, NoteInv, Closing
  <2>2. CASE ~Setup
    BY <1>1, <2>2 DEF Main, AskStatus, StatusAnswered, StatusOffline, RunEnds, CheckRemote,
       RecordVerdict, ReportFlush, StopFlush, Exit, Crash, vstay, Following, Unsignalled,
       Closing
  <2> QED
    BY <2>1, <2>2
<1>2. CASE Signal
  BY <1>2 DEF Signal, Interrupt, RecordCancelled, AskCancel, CancelAnswered, vsig, Unsignalled
<1>3. CASE Server \/ Heartbeat \/ Hb \/ StaleJob \/ PeriodicFlush
  BY <1>3 DEF Server, HandlerRead, HandlerWrite, RequestLost, UserCancels, Heartbeat, Hb,
     MarkRemote, RecordRemote, CancelRemote, vhb, StaleJob, ListStaleRuns, MarkAsStale,
     PeriodicFlush, Unsignalled
<1>4. CASE (\E t \in Task : TaskStep(t)) \/ UNCHANGED vars
  BY <1>4 DEF TaskStep, StartTask, EndTask, SkipTask, AppendLog, Unsignalled
<1> QED
  BY <1>1, <1>2, <1>3, <1>4 DEF Next

LEMMA VerdictStep == TypeInv /\ NoteInv /\ VerdictInv /\ [Next]_vars => VerdictInv'
<1> SUFFICES ASSUME TypeInv, NoteInv, VerdictInv, [Next]_vars PROVE VerdictInv'
  OBVIOUS
<1>1. row \in RowKind /\ \A a \in Caller : snap[a] \in RowKind
  BY DEF TypeInv, ServerTypes
<1>2. DOMAIN snap = Caller /\ (ctx = "live" \/ ctx = "cancelled")
  BY DEF TypeInv, ServerTypes, ClientTypes
<1>3. /\ Unsignalled' => Unsignalled
      /\ pc \in Closing => pc' \in Closing
      /\ pc = "flush" => pc' \in Closing \cup {"flush"}
  BY Forward
<1>4. ASSUME NEW t \in Task, StartTask(t) \/ EndTask(t) \/ SkipTask(t) PROVE VerdictInv'
  <2>1. pc = "run" /\ UNCHANGED <<pc, req, local, snap>>
    BY <1>4 DEF StartTask, EndTask, SkipTask
  <2>2. row'.status = row.status
    <3>1. row' = row \/ \E s \in {"success", "failed", "skipped", "cancelled"} :
                             UpdateTaskStatus(t, s)
      BY <1>4 DEF StartTask, EndTask, SkipTask, OnTaskComplete
    <3> QED
      BY <1>1, <3>1 DEF UpdateTaskStatus, RowKind
  <2> QED
    BY <2>1, <2>2 DEF VerdictInv, Closing
<1>5. CASE \A t \in Task : ~StartTask(t) /\ ~EndTask(t) /\ ~SkipTask(t)
  <2>1. Verdict' = Verdict /\ AllRan' = AllRan
    BY <1>5, StageStays DEF Verdict, AllRan, Plan
  <2>2. Earned => Earned'
    BY <1>3, <2>1 DEF Earned
  <2> HIDE DEF Earned
  <2>3. CASE RunEnds
    <3>1. remote \/ Earned
      BY <2>3, <1>2 DEF RunEnds, NoteInv, Earned, AllRan
    <3>2. pc = "run" /\ pc' = "check" /\ UNCHANGED <<row, req, local, snap, remote>>
      BY <2>3 DEF RunEnds, vstay
    <3> QED
      BY <2>1, <2>2, <3>1, <3>2 DEF VerdictInv, Closing
  <2>4. CASE CheckRemote
    <3>1. pc = "check" /\ pc' = (IF remote THEN "stop" ELSE "local")
          /\ UNCHANGED <<row, req, local, snap, remote>>
      BY <2>4 DEF CheckRemote, vstay
    <3> QED
      BY <2>1, <2>2, <3>1 DEF VerdictInv, Closing
  <2>5. CASE RecordVerdict
    <3>1. pc = "local" /\ pc' = "flush" /\ local' = Verdict
          /\ UNCHANGED <<row, req, snap, remote>>
      BY <2>5 DEF RecordVerdict, vstay
    <3> QED
      BY <2>1, <2>2, <3>1 DEF VerdictInv, Closing
  <2>6. CASE AskStatus
    <3>1. req' = pc /\ UNCHANGED <<row, pc, local, snap, remote>>
      BY <2>6 DEF AskStatus, Ask
    <3> QED
      BY <2>1, <2>2, <3>1 DEF VerdictInv, Closing
  <2>7. CASE \/ Setup \/ StatusAnswered \/ StatusOffline \/ ReportFlush \/ StopFlush \/ Exit
             \/ Crash
    <3>1. UNCHANGED <<row, req, local, snap, remote>>
      BY <2>7 DEF Setup, StatusAnswered, StatusOffline, ReportFlush, StopFlush, Exit, Crash,
         vstay, Answered
    <3>2. /\ pc' # "check" \/ pc' = pc
          /\ pc' \in {"local", "flush", "final"} => pc \in {"local", "flush", "final"}
      BY <2>7 DEF Setup, StatusAnswered, StatusOffline, ReportFlush, StopFlush, Exit, Crash,
         vstay, Following
    <3> QED
      BY <1>3, <2>1, <2>2, <3>1, <3>2 DEF VerdictInv
  <2>8. CASE Signal \/ Hb
    <3>1. /\ UNCHANGED <<row, req, snap, pc>> /\ local' \in {local, "cancelled"}
          /\ remote => remote'
      BY <2>8 DEF Signal, Interrupt, RecordCancelled, AskCancel, CancelAnswered, vsig, Answered,
         Ask, Hb, MarkRemote, RecordRemote, CancelRemote, vhb, HbStep
    <3> QED
      BY <2>1, <2>2, <3>1 DEF VerdictInv
  <2>9. ASSUME NEW a \in Caller, HandlerRead(a) PROVE VerdictInv'
    <3>1. /\ UNCHANGED <<row, req, pc, local, remote>>
          /\ snap' = snap \/ (snap' = [snap EXCEPT ![a] = row] /\ row.status \notin Terminal)
      BY <2>9 DEF HandlerRead
    <3> QED
      BY <1>2, <2>1, <2>2, <3>1 DEF VerdictInv
  <2>10. ASSUME NEW a \in Caller, HandlerWrite(a) PROVE VerdictInv'
    <3>1. /\ UNCHANGED <<req, pc, local, remote>> /\ snap' = [snap EXCEPT ![a] = NewRow]
      BY <2>10 DEF HandlerWrite
    <3>2. NewRow.status \notin Terminal
      BY DEF NewRow, Terminal
    <3>3. \/ req = "final" /\ row'.status = Verdict
          \/ row'.status \in {"running", "cancelled"}
      <4>1. CASE a = "main"
        <5>1. UpdateRunStatus /\ "main" \in Caller
          BY <2>10, <4>1 DEF HandlerWrite
        <5> QED
          BY <1>1, <5>1 DEF UpdateRunStatus, Update, RowKind
      <4>2. CASE a # "main"
        <5>1. row' = [[snap[a] EXCEPT !.status = "cancelled"]
                          EXCEPT !.beat = row.beat, !.gone = row.gone]
          BY <2>10, <4>2 DEF HandlerWrite, CancelRun, Update
        <5> QED
          BY <1>1, <5>1 DEF RowKind
      <4> QED
        BY <4>1, <4>2
    <3> QED
      BY <1>2, <2>1, <2>2, <3>1, <3>2, <3>3 DEF VerdictInv
  <2>11. CASE \/ Heartbeat \/ StaleJob \/ PeriodicFlush \/ UserCancels \/ UNCHANGED vars
              \/ (\E t \in Task : AppendLog(t)) \/ \E a \in Caller : RequestLost(a)
    <3>1. UNCHANGED <<req, pc, local, remote, snap>>
      BY <2>11 DEF Heartbeat, StaleJob, ListStaleRuns, MarkAsStale, PeriodicFlush, UserCancels,
         Ask, AppendLog, RequestLost
    <3>2. row'.status = row.status
      BY <1>1, <2>11 DEF Heartbeat, UpdateHeartbeat, StaleJob, ListStaleRuns, MarkAsStale,
         PeriodicFlush, UserCancels, AppendLog, RequestLost, RowKind
    <3> QED
      BY <2>1, <2>2, <3>1, <3>2 DEF VerdictInv
  <2> QED
    BY <1>5, <2>3, <2>4, <2>5, <2>6, <2>7, <2>8, <2>9, <2>10, <2>11
       DEF Next, Main, Server, TaskStep
<1> QED
  BY <1>4, <1>5

--------------------------------------------------------------------------------
(* Without a loss nobody is offline, and the server knows every task that   *)
(* runs.                                                                    *)
ReachInv ==
    faults = 0 =>
        /\ ~offline /\ \A a \in Caller : call[a] # "lost"
        /\ \A t \in Task : stage[t] = "running" => result[t] # "none"

(* A request of the main goroutine is the one its place asks for; no task   *)
(* has ended before the run; and Stop flushes when the run is over.         *)
PlaceInv ==
    /\ pc \in {"start", "total", "final"} /\ call["main"] # "none" => req = pc
    /\ pc \notin {"start", "total", "final", "crashed"} => call["main"] = "none"
    /\ pc \in {"setup", "start", "total"} => \A t \in Task : out[t] = "none"
    /\ pc \notin {"stop", "exit", "crashed"} => tries = 0

(* While nobody cancels, only the main goroutine writes the status of the   *)
(* row, and it ends the run as it ended here.                               *)
Alone == user = "idle" /\ Unsignalled
AloneInv ==
    Alone =>
        /\ call["user"] = "none" /\ call["signal"] = "none"
        /\ hb \in {"on", "off"} /\ ~remote
        /\ row.status # "cancelled"
        /\ row.status \in Terminal => row.status = Verdict /\ local = Verdict /\ pc \in Closing
        /\ pc \in {"flush", "final"} \/ req = "final" => local = Verdict
        /\ pc \in {"start", "total"} => call["main"] # "conflict"

(* Without a loss the last request ends the row, the second one gives it    *)
(* its total, and the counters count the outcomes.                          *)
Stopping == pc = "stop" \/ (pc = "exit" /\ tries > 0)
Reported == Stopping \/ (pc = "final" /\ call["main"] \in {"ok", "conflict"})
TotalSet ==
    \/ Stopping \/ pc \in {"run", "check", "local", "flush", "final"}
    \/ pc = "total" /\ call["main"] = "ok"
Ended(S) == {t \in Task : out[t] \in S}
FinalInv ==
    faults = 0 =>
        /\ ~remote /\ Reported => row.status \in Terminal
        /\ Alone /\ TotalSet => row.total = Cardinality(Plan)
        /\ Alone /\ pc # "crashed" =>
             /\ row.completed = Cardinality(Ended({"success", "failed"}))
             /\ row.failed = Cardinality(Ended({"failed"}))

ReportInv == ReachInv /\ PlaceInv /\ AloneInv /\ FinalInv

LEMMA NothingEnded ==
    ASSUME \A t \in Task : out[t] = "none"
    PROVE  /\ Cardinality(Ended({"success", "failed"})) = 0
           /\ Cardinality(Ended({"failed"})) = 0
<1>1. Ended({"success", "failed"}) = {} /\ Ended({"failed"}) = {}
  BY DEF Ended
<1> QED
  BY <1>1, FS_EmptySet

LEMMA ReportInit == Init => ReportInv
<1> SUFFICES ASSUME Init PROVE ReportInv
  OBVIOUS
<1>1. ReachInv
  <2>1. \A t \in Task : stage[t] # "running"
    BY DEF Init
  <2> QED
    BY <2>1 DEF Init, ReachInv
<1>2. PlaceInv
  BY DEF Init, PlaceInv, Caller
<1>3. AloneInv
  BY DEF Init, AloneInv, NewRow, Terminal, Caller
<1>4. FinalInv
  <2>1. row.completed = 0 /\ row.failed = 0 /\ pc = "setup" /\ \A t \in Task : out[t] = "none"
    BY DEF Init, NewRow
  <2> QED
    BY <2>1, NothingEnded DEF FinalInv, Reported, Stopping, TotalSet
<1> QED
  BY <1>1, <1>2, <1>3, <1>4 DEF ReportInv

(* A loss is not forgotten.                                                 *)
LEMMA FaultsStay ==
    ASSUME TypeInv, [Next]_vars, faults' = 0
    PROVE  faults = 0 /\ ~Fault
<1>1. ~Fault
  BY DEF Fault, TypeInv, SyncTypes
<1>2. UNCHANGED faults \/ NoFault \/ Fault
  <2>1. CASE \E t \in Task : TaskStep(t)
    BY <2>1 DEF TaskStep, StartTask, EndTask, SkipTask, AppendLog, OnTaskStart, OnTaskComplete
  <2>2. CASE Main
    BY <2>2 DEF Main, Setup, AskStatus, StatusAnswered, StatusOffline, RunEnds,
       CheckRemote, RecordVerdict, ReportFlush, StopFlush, Exit, Crash, Answered, vstay,
       FlushLogs, Store
  <2>3. CASE Signal
    BY <2>3 DEF Signal, Interrupt, RecordCancelled, AskCancel, CancelAnswered, Answered, vsig
  <2>4. CASE Server
    BY <2>4 DEF Server, HandlerRead, HandlerWrite, RequestLost, UserCancels
  <2>5. CASE Heartbeat \/ Hb \/ StaleJob \/ PeriodicFlush
    BY <2>5 DEF Heartbeat, Hb, StaleJob, MarkRemote, RecordRemote, CancelRemote, ListStaleRuns,
       MarkAsStale, vhb, PeriodicFlush, FlushLogs, Store
  <2>6. CASE UNCHANGED vars
    BY <2>6
  <2> QED
    BY <2>1, <2>2, <2>3, <2>4, <2>5, <2>6 DEF Next
<1> QED
  BY <1>1, <1>2 DEF NoFault

(* No line is given up without a fault.                                     *)
LEMMA LossStep == TypeInv /\ LossInv /\ [Next]_vars => LossInv'
<1> SUFFICES ASSUME TypeInv, LossInv, [Next]_vars, faults' = 0 PROVE unstored' = {}
  BY DEF LossInv
<1>1. faults = 0 /\ ~Fault
  BY FaultsStay
<1>2. unstored' = unstored
  <2>1. CASE \E t \in Task : TaskStep(t)
    BY <2>1 DEF TaskStep, StartTask, EndTask, SkipTask, AppendLog
  <2>2. CASE Main
    BY <1>1, <2>2 DEF Main, Setup, AskStatus, StatusAnswered, StatusOffline, RunEnds,
       CheckRemote, RecordVerdict, ReportFlush, StopFlush, Exit, Crash, vstay, FlushLogs,
       Store
  <2>3. CASE Signal
    BY <2>3 DEF Signal, Interrupt, RecordCancelled, AskCancel, CancelAnswered, vsig
  <2>4. CASE Server
    BY <2>4 DEF Server, HandlerRead, HandlerWrite, RequestLost, UserCancels
  <2>5. CASE Heartbeat \/ Hb \/ StaleJob \/ PeriodicFlush
    BY <1>1, <2>5 DEF Heartbeat, Hb, StaleJob, MarkRemote, RecordRemote, CancelRemote,
       ListStaleRuns, MarkAsStale, vhb, PeriodicFlush, FlushLogs, Store
  <2>6. CASE UNCHANGED vars
    BY <2>6
  <2> QED
    BY <2>1, <2>2, <2>3, <2>4, <2>5, <2>6 DEF Next
<1> QED
  BY <1>1, <1>2 DEF LossInv

LEMMA ReachStep == TypeInv /\ ReachInv /\ [Next]_vars => ReachInv'
<1> SUFFICES ASSUME TypeInv, ReachInv, [Next]_vars, faults' = 0
             PROVE  /\ ~offline' /\ \A a \in Caller : call'[a] # "lost"
                    /\ \A t \in Task : stage'[t] = "running" => result'[t] # "none"
  BY DEF ReachInv
<1>1. faults = 0 /\ ~Fault
  BY FaultsStay
<1>2. /\ ~offline /\ \A a \in Caller : call[a] # "lost"
      /\ \A t \in Task : stage[t] = "running" => result[t] # "none"
  BY <1>1 DEF ReachInv
<1>3. /\ call \in [Caller -> {"none", "read", "write", "ok", "conflict", "lost"}]
      /\ stage \in [Task -> {"unplanned", "todo", "running", "done"}]
      /\ result \in [Task -> {"none", "pending", "running", "skipped"} \cup Terminal]
  BY DEF TypeInv, ServerTypes, ClientTypes
<1>4. CASE \E t \in Task : StartTask(t) \/ EndTask(t) \/ SkipTask(t)
  <2> SUFFICES ASSUME NEW t \in Task, StartTask(t) \/ EndTask(t) \/ SkipTask(t)
               PROVE  /\ ~offline' /\ \A a \in Caller : call'[a] # "lost"
                      /\ \A u \in Task : stage'[u] = "running" => result'[u] # "none"
    BY <1>4
  <2>1. call' = call /\ offline' = offline
    BY <1>1, <1>2 DEF StartTask, EndTask, SkipTask, OnTaskStart, OnTaskComplete, SyncOk,
       SyncRefused
  <2>2. CASE StartTask(t)
    <3>1. stage' = [stage EXCEPT ![t] = "running"] /\ result' = [result EXCEPT ![t] = "running"]
      BY <1>1, <1>2, <2>2 DEF StartTask, OnTaskStart
    <3> QED
      BY <1>2, <1>3, <2>1, <3>1
  <2>3. CASE EndTask(t) \/ SkipTask(t)
    <3>1. stage' = [stage EXCEPT ![t] = "done"] /\ \A u \in Task \ {t} : result'[u] = result[u]
      BY <1>3, <2>3 DEF EndTask, SkipTask, OnTaskComplete, UpdateTaskStatus
    <3> QED
      BY <1>2, <1>3, <2>1, <3>1
  <2> QED
    BY <2>2, <2>3
<1>5. CASE \A t \in Task : ~StartTask(t) /\ ~EndTask(t) /\ ~SkipTask(t)
  <2>1. stage' = stage
    BY <1>5, StageStays
  <2>2. CASE Server
    <3>1. /\ offline' = offline
          /\ call' = call \/ \E a \in Caller, l \in {"read", "write", "ok", "conflict"} :
                                 call' = [call EXCEPT ![a] = l]
      BY <1>1, <2>2 DEF Server, HandlerRead, HandlerWrite, RequestLost, UserCancels, Ask, Goto,
         Caller
    <3>2. \A t \in Task : result[t] # "none" => result'[t] # "none"
      BY <1>3, <2>2 DEF Server, HandlerRead, HandlerWrite, RequestLost, UserCancels, CancelRun,
         Terminal
    <3> QED
      BY <1>2, <1>3, <2>1, <3>1, <3>2
  <2>3. CASE Main \/ Signal
    <3>1. /\ result' = result
          /\ call' = call \/ \E a \in Caller, l \in {"read", "none"} :
                                 call' = [call EXCEPT ![a] = l]
      BY <2>3 DEF Main, Setup, AskStatus, StatusAnswered, StatusOffline, RunEnds, CheckRemote,
         RecordVerdict, ReportFlush, StopFlush, Exit, Crash, vstay, Signal, Interrupt,
         RecordCancelled, AskCancel, CancelAnswered, vsig, Answered, Ask, Goto, Caller
    <3>2. offline' = offline
      <4>1. ~(\E a \in Caller : Answered(a) /\ call[a] = "lost")
        BY <1>2
      <4>2. CASE StatusAnswered \/ CancelAnswered
        BY <1>2, <4>2 DEF StatusAnswered, CancelAnswered, Answered, Caller, SyncOk, SyncRefused
      <4>3. CASE ~StatusAnswered /\ ~CancelAnswered
        BY <1>1, <2>3, <4>3 DEF Main, Setup, AskStatus, StatusOffline, RunEnds, CheckRemote,
           RecordVerdict, ReportFlush, StopFlush, Exit, Crash, Signal, Interrupt,
           RecordCancelled, AskCancel, FlushLogs, SyncOk
      <4> QED
        BY <4>2, <4>3
    <3> QED
      BY <1>2, <1>3, <2>1, <3>1, <3>2
  <2>4. CASE PeriodicFlush
    BY <1>1, <1>2, <2>1, <2>4 DEF PeriodicFlush, FlushLogs, SyncOk
  <2>5. CASE \/ Heartbeat \/ Hb \/ StaleJob \/ UNCHANGED vars
             \/ (\E t \in Task : AppendLog(t))
    BY <1>2, <2>1, <2>5 DEF Heartbeat, Hb, MarkRemote, RecordRemote, CancelRemote, vhb, StaleJob,
       ListStaleRuns, MarkAsStale, AppendLog
  <2> QED
    BY <1>5, <2>2, <2>3, <2>4, <2>5 DEF Next, TaskStep
<1> QED
  BY <1>4, <1>5

LEMMA PlaceStep == TypeInv /\ PlaceInv /\ [Next]_vars => PlaceInv'
<1> SUFFICES ASSUME TypeInv, PlaceInv, [Next]_vars PROVE PlaceInv'
  OBVIOUS
<1>1. /\ call \in [Caller -> {"none", "read", "write", "ok", "conflict", "lost"}]
      /\ "main" \in Caller /\ "signal" \in Caller /\ "user" \in Caller
  BY DEF TypeInv, ServerTypes, Caller
<1>2. CASE \E t \in Task : TaskStep(t)
  <2>1. UNCHANGED <<call, pc, req, tries>> /\ (out' = out \/ pc = "run")
    BY <1>2 DEF TaskStep, StartTask, EndTask, SkipTask, AppendLog
  <2> QED
    BY <2>1 DEF PlaceInv
<1>3. ASSUME NEW a \in Caller, HandlerRead(a) \/ HandlerWrite(a) \/ RequestLost(a)
      PROVE  PlaceInv'
  <2>1. /\ UNCHANGED <<pc, req, tries, out>> /\ call[a] # "none"
        /\ \E l \in {"write", "ok", "conflict", "lost"} : call' = [call EXCEPT ![a] = l]
    BY <1>3 DEF HandlerRead, HandlerWrite, RequestLost, Goto
  <2> QED
    BY <1>1, <2>1 DEF PlaceInv
<1>4. CASE UserCancels \/ Signal
  <2>1. /\ UNCHANGED <<pc, req, tries, out>>
        /\ call' = call \/ \E a \in {"user", "signal"}, l \in {"read", "none"} :
                               call' = [call EXCEPT ![a] = l]
    BY <1>4 DEF UserCancels, Signal, Interrupt, RecordCancelled, AskCancel, CancelAnswered, vsig,
       Answered, Ask, Goto
  <2> QED
    BY <1>1, <2>1 DEF PlaceInv
<1>5. CASE Main
  <2>1. CASE Setup \/ Crash
    BY <2>1 DEF Setup, Crash, vstay, PlaceInv
  <2>2. CASE AskStatus
    BY <2>2 DEF AskStatus, Ask, PlaceInv
  <2>3. CASE StatusAnswered \/ StatusOffline
    <3>1. /\ pc \in {"start", "total", "final"} /\ pc' = Following(pc) /\ call'["main"] = "none"
          /\ UNCHANGED <<tries, out, req>>
      BY <1>1, <2>3 DEF StatusAnswered, StatusOffline, Answered, Goto, vstay
    <3> QED
      BY <3>1 DEF PlaceInv, Following
  <2>4. CASE RunEnds \/ CheckRemote \/ RecordVerdict \/ ReportFlush \/ StopFlush \/ Exit
    <3>1. /\ pc \in {"run", "check", "local", "flush", "stop"} /\ UNCHANGED <<call, req, out>>
          /\ pc' \in {"check", "local", "flush", "final", "stop", "exit"}
          /\ tries' = tries \/ (pc' = "stop" /\ pc = "stop")
          /\ pc = "stop" => pc' \in {"stop", "exit"}
      BY <2>4 DEF RunEnds, CheckRemote, RecordVerdict, ReportFlush, StopFlush, Exit, vstay
    <3> QED
      BY <3>1 DEF PlaceInv
  <2> QED
    BY <1>5, <2>1, <2>2, <2>3, <2>4 DEF Main
<1>6. CASE Heartbeat \/ Hb \/ StaleJob \/ PeriodicFlush \/ UNCHANGED vars
  BY <1>6 DEF Heartbeat, Hb, MarkRemote, RecordRemote, CancelRemote, vhb, StaleJob,
     ListStaleRuns, MarkAsStale, PeriodicFlush, PlaceInv
<1> QED
  BY <1>2, <1>3, <1>4, <1>5, <1>6 DEF Next, Server

LEMMA AloneStep ==
    TypeInv /\ SettleInv /\ PlaceInv /\ AloneInv /\ [Next]_vars => AloneInv'
<1> SUFFICES ASSUME TypeInv, NoteInv, VerdictInv, PlaceInv, AloneInv, [Next]_vars, Alone'
             PROVE  /\ call'["user"] = "none" /\ call'["signal"] = "none"
                    /\ hb' \in {"on", "off"} /\ ~remote'
                    /\ row'.status # "cancelled"
                    /\ row'.status \in Terminal =>
                           row'.status = Verdict' /\ local' = Verdict' /\ pc' \in Closing
                    /\ pc' \in {"flush", "final"} \/ req' = "final" => local' = Verdict'
                    /\ pc' \in {"start", "total"} => call'["main"] # "conflict"
  BY DEF AloneInv, SettleInv
<1>1. /\ call \in [Caller -> {"none", "read", "write", "ok", "conflict", "lost"}]
      /\ "main" \in Caller /\ "signal" \in Caller /\ "user" \in Caller
      /\ row \in RowKind /\ \A a \in Caller : snap[a] \in RowKind
  BY DEF TypeInv, ServerTypes, Caller
<1>2. user = "idle" /\ Unsignalled
  <2>1. Unsignalled' => Unsignalled
    BY Forward
  <2>2. user' = "idle" => user = "idle"
    <3>1. user' = user \/ user' = "asked"
      <4>1. CASE \E t \in Task : TaskStep(t)
        BY <4>1 DEF TaskStep, StartTask, EndTask, SkipTask, AppendLog
      <4>2. CASE Main \/ Signal
        BY <4>2 DEF Main, Setup, AskStatus, StatusAnswered, StatusOffline, RunEnds, CheckRemote,
           RecordVerdict, ReportFlush, StopFlush, Exit, Crash, vstay, Signal, Interrupt,
           RecordCancelled, AskCancel, CancelAnswered, vsig
      <4>3. CASE Server \/ Heartbeat \/ Hb \/ StaleJob \/ PeriodicFlush \/ UNCHANGED vars
        BY <4>3 DEF Server, HandlerRead, HandlerWrite, RequestLost, UserCancels, Heartbeat, Hb,
           MarkRemote, RecordRemote, CancelRemote, vhb, StaleJob, ListStaleRuns, MarkAsStale,
           PeriodicFlush
      <4> QED
        BY <4>1, <4>2, <4>3 DEF Next
    <3> QED
      BY <3>1
  <2> QED
    BY <2>1, <2>2 DEF Alone
<1>3. /\ call["user"] = "none" /\ call["signal"] = "none"
      /\ hb \in {"on", "off"} /\ ~remote
      /\ row.status # "cancelled"
      /\ row.status \in Terminal => row.status = Verdict /\ local = Verdict /\ pc \in Closing
      /\ pc \in {"flush", "final"} \/ req = "final" => local = Verdict
      /\ pc \in {"start", "total"} => call["main"] # "conflict"
  BY <1>2 DEF AloneInv, Alone
<1>4. Verdict \in {"success", "failed"}
  BY DEF Verdict
<1>5. ASSUME NEW t \in Task, StartTask(t) \/ EndTask(t) \/ SkipTask(t)
      PROVE  /\ UNCHANGED <<call, hb, remote, local, req, pc>> /\ pc = "run"
             /\ row'.status = row.status
  <2>1. row' = row \/ \E s \in {"success", "failed", "skipped", "cancelled"} :
                          UpdateTaskStatus(t, s)
    BY <1>5 DEF StartTask, EndTask, SkipTask, OnTaskComplete
  <2>2. row'.status = row.status
    BY <1>1, <2>1 DEF UpdateTaskStatus, RowKind
  <2> QED
    BY <1>5, <2>2 DEF StartTask, EndTask, SkipTask
<1>6. CASE \E t \in Task : StartTask(t) \/ EndTask(t) \/ SkipTask(t)
  <2>1. req # "final"
    BY <1>5, <1>6 DEF VerdictInv, Closing
  <2> QED
    BY <1>3, <1>5, <1>6, <2>1 DEF Closing
<1>7. CASE \A t \in Task : ~StartTask(t) /\ ~EndTask(t) /\ ~SkipTask(t)
  <2>1. Verdict' = Verdict
    BY <1>7, StageStays DEF Verdict
  <2>2. ASSUME NEW a \in Caller, HandlerRead(a) \/ RequestLost(a)
        PROVE  /\ a = "main" /\ UNCHANGED <<row, hb, remote, local, req, pc>>
               /\ call' = [call EXCEPT ![a] = call'[a]]
               /\ call'[a] = "conflict" => row.status \in Terminal
    BY <1>1, <1>3, <2>2 DEF HandlerRead, RequestLost, Goto, Caller
  <2>3. CASE \E a \in Caller : HandlerRead(a) \/ RequestLost(a)
    <3>1. /\ UNCHANGED <<row, hb, remote, local, req, pc>>
          /\ call' = [call EXCEPT !["main"] = call'["main"]]
          /\ call'["main"] = "conflict" => row.status \in Terminal
      BY <2>2, <2>3
    <3> QED
      BY <1>1, <1>3, <2>1, <3>1 DEF Closing
  <2>4. CASE \E a \in Caller : HandlerWrite(a)
    <3>1. /\ HandlerWrite("main") /\ UpdateRunStatus
          /\ UNCHANGED <<hb, remote, local, req, pc>>
          /\ \E l \in {"ok", "lost"} : call' = [call EXCEPT !["main"] = l]
      BY <1>3, <2>4 DEF HandlerWrite, Goto, Caller
    <3>2. (req = "final" /\ row'.status = Verdict) \/ row'.status = "running"
      BY <1>1, <3>1 DEF UpdateRunStatus, Update, RowKind
    <3> QED
      BY <1>1, <1>3, <1>4, <2>1, <3>1, <3>2 DEF VerdictInv, Terminal
  <2>5. CASE Main
    <3>1. UNCHANGED <<row, remote>> /\ hb' \in {hb, "off"}
      BY <2>5 DEF Main, Setup, AskStatus, StatusAnswered, StatusOffline, RunEnds, CheckRemote,
         RecordVerdict, ReportFlush, StopFlush, Exit, Crash, vstay
    <3>2. /\ call'["user"] = "none" /\ call'["signal"] = "none"
          /\ call'["main"] = "conflict" => call["main"] = "conflict"
      <4>1. call' = call \/ \E l \in {"read", "none"} : call' = [call EXCEPT !["main"] = l]
        BY <2>5 DEF Main, Setup, AskStatus, StatusAnswered, StatusOffline, RunEnds, CheckRemote,
           RecordVerdict, ReportFlush, StopFlush, Exit, Crash, Ask, Answered, Goto
      <4> QED
        BY <1>1, <1>3, <4>1
    <3>3. CASE RecordVerdict
      <4>1. /\ pc = "local" /\ pc' = "flush" /\ local' = Verdict /\ req' = req
        BY <3>3 DEF RecordVerdict
      <4> QED
        BY <1>3, <2>1, <3>1, <3>2, <4>1 DEF Closing
    <3>4. CASE ~RecordVerdict
      <4>1. local' = local
        BY <2>5, <3>4 DEF Main, Setup, AskStatus, StatusAnswered, StatusOffline, RunEnds,
           CheckRemote, ReportFlush, StopFlush, Exit, Crash, vstay
      <4>2. pc' \in {"flush", "final"} \/ req' = "final" =>
                pc \in {"flush", "final"} \/ req = "final"
        BY <2>5, <3>4 DEF Main, Setup, AskStatus, StatusAnswered, StatusOffline, RunEnds,
           CheckRemote, ReportFlush, StopFlush, Exit, Crash, vstay, Following, Answered
      <4>3. pc' \in {"start", "total"} /\ pc' # pc => call'["main"] # "conflict"
        BY <1>1, <2>5, <3>4 DEF Main, Setup, AskStatus, StatusAnswered, StatusOffline, RunEnds,
           CheckRemote, ReportFlush, StopFlush, Exit, Crash, vstay, Following, Answered, Goto,
           PlaceInv
      <4>4. pc \in Closing => pc' \in Closing
        BY Forward
      <4> QED
        BY <1>3, <2>1, <3>1, <3>2, <4>1, <4>2, <4>3, <4>4
    <3> QED
      BY <3>3, <3>4
  <2>6. CASE Signal
    <3>1. ~Signal
      BY <1>1, <1>2, <1>3 DEF Signal, Interrupt, RecordCancelled, AskCancel, CancelAnswered,
         Answered, Unsignalled, Alone
    <3> QED
      BY <2>6, <3>1
  <2>7. CASE Heartbeat
    <3>1. /\ UNCHANGED <<call, remote, local, req, pc>> /\ row'.status = row.status
          /\ hb' = (IF row.status = "cancelled" THEN "mark" ELSE "on")
      BY <1>1, <2>7 DEF Heartbeat, UpdateHeartbeat, RowKind
    <3> QED
      BY <1>3, <2>1, <3>1
  <2>8. CASE Hb \/ UserCancels
    BY <1>3, <2>8 DEF Hb, MarkRemote, RecordRemote, CancelRemote, HbStep, UserCancels, Alone
  <2>9. CASE \/ StaleJob \/ PeriodicFlush \/ UNCHANGED vars \/ (\E t \in Task : AppendLog(t))
    <3>1. UNCHANGED <<call, remote, local, req, pc, hb>> /\ row'.status = row.status
      BY <1>1, <2>9 DEF StaleJob, ListStaleRuns, MarkAsStale, PeriodicFlush, AppendLog, RowKind
    <3> QED
      BY <1>3, <2>1, <3>1
  <2> QED
    BY <1>7, <2>3, <2>4, <2>5, <2>6, <2>7, <2>8, <2>9 DEF Next, Server, TaskStep
<1> QED
  BY <1>6, <1>7

(* A task that ends is counted by the server as it is here.                 *)
LEMMA Counted ==
    ASSUME TypeInv, OutcomeInv, ReachInv, faults = 0, ~Fault, NEW t \in Task,
           StartTask(t) \/ EndTask(t) \/ SkipTask(t),
           row.completed = Cardinality(Ended({"success", "failed"})),
           row.failed = Cardinality(Ended({"failed"}))
    PROVE  /\ row'.completed = Cardinality(Ended({"success", "failed"})')
           /\ row'.failed = Cardinality(Ended({"failed"})')
<1>1. /\ stage \in [Task -> {"unplanned", "todo", "running", "done"}]
      /\ out \in [Task -> {"none", "success", "failed", "cancelled", "skipped", "blocked"}]
      /\ row \in RowKind
  BY DEF TypeInv, ServerTypes, ClientTypes
<1>2. /\ ~offline /\ \A u \in Task : stage[u] = "running" => result[u] # "none"
  BY DEF ReachInv
<1>3. ASSUME NEW S, S \subseteq {"success", "failed"}
      PROVE  IsFiniteSet(Ended(S)) /\ Cardinality(Ended(S)) \in Nat
  <2>1. IsFiniteSet(Task) /\ Ended(S) \subseteq Task
    BY RemoteSyncAssumption DEF Ended
  <2> QED
    BY <2>1, FS_Subset, FS_CardinalityType
<1>4. CASE StartTask(t)
  <2>1. row' = row /\ out' = out
    BY <1>4 DEF StartTask
  <2> QED
    BY <2>1 DEF Ended
<1>5. CASE SkipTask(t)
  <2>1. out' = [out EXCEPT ![t] = "blocked"] /\ out[t] = "none"
    BY <1>5 DEF SkipTask, OutcomeInv
  <2>2. /\ Ended({"success", "failed"})' = Ended({"success", "failed"})
        /\ Ended({"failed"})' = Ended({"failed"})
    BY <1>1, <2>1 DEF Ended
  <2>3. row' = row \/ UpdateTaskStatus(t, "skipped")
    BY <1>5 DEF SkipTask, OnTaskComplete
  <2>4. row'.completed = row.completed /\ row'.failed = row.failed
    <3>1. row.completed \in Nat /\ row.failed \in Nat
      BY <1>1 DEF RowKind
    <3>2. CASE UpdateTaskStatus(t, "skipped")
      <4>1. /\ row'.completed = row.completed + 0 /\ row'.failed = row.failed + 0
        BY <1>1, <3>2 DEF UpdateTaskStatus, RowKind
      <4> QED
        BY ONLY <3>1, <4>1
    <3> QED
      BY <2>3, <3>2
  <2> QED
    BY <2>2, <2>4
<1>6. CASE EndTask(t)
  <2>1. PICK o \in {"success", "failed", "skipped", "cancelled"} :
            out' = [out EXCEPT ![t] = o] /\ OnTaskComplete(t, o)
    BY <1>6 DEF EndTask
  <2>2. stage[t] = "running" /\ out[t] = "none" /\ result[t] # "none"
    BY <1>2, <1>6 DEF EndTask, OutcomeInv
  <2>3. UpdateTaskStatus(t, o)
    BY <1>2, <2>1, <2>2 DEF OnTaskComplete
  <2>4. ASSUME NEW S, S \subseteq {"success", "failed"}
        PROVE  Cardinality(Ended(S)') = Cardinality(Ended(S)) + (IF o \in S THEN 1 ELSE 0)
    <3>1. t \notin Ended(S) /\ Ended(S)' = (IF o \in S THEN Ended(S) \cup {t} ELSE Ended(S))
      BY <1>1, <2>1, <2>2, <2>4 DEF Ended
    <3>2. CASE o \in S
      BY <1>3, <2>4, <3>1, <3>2, FS_AddElement
    <3>3. CASE o \notin S
      <4>1. Ended(S)' = Ended(S) /\ Cardinality(Ended(S)) \in Nat
        BY <1>3, <2>4, <3>1, <3>3
      <4>2. Cardinality(Ended(S)) + (IF o \in S THEN 1 ELSE 0) = Cardinality(Ended(S))
        BY ONLY <3>3, <4>1
      <4> QED
        BY <4>1, <4>2
    <3> QED
      BY <3>2, <3>3
  <2>5. /\ row'.completed = row.completed + (IF o \in {"success", "failed"} THEN 1 ELSE 0)
        /\ row'.failed = row.failed + (IF o \in {"failed"} THEN 1 ELSE 0)
    BY <1>1, <2>3 DEF UpdateTaskStatus, RowKind
  <2> QED
    BY <2>4, <2>5
<1> QED
  BY <1>4, <1>5, <1>6

LEMMA FinalStep ==
    TypeInv /\ CountInv /\ SettleInv /\ ReportInv /\ [Next]_vars => FinalInv'
<1> SUFFICES ASSUME TypeInv, CountInv, NoteInv, OutcomeInv, VerdictInv, ReachInv, PlaceInv,
                    AloneInv, FinalInv, [Next]_vars, faults' = 0
             PROVE  /\ ~remote' /\ Reported' => row'.status \in Terminal
                    /\ Alone' /\ TotalSet' => row'.total = Cardinality(Plan')
                    /\ Alone' /\ pc' # "crashed" =>
                         /\ row'.completed = Cardinality(Ended({"success", "failed"})')
                         /\ row'.failed = Cardinality(Ended({"failed"})')
  BY DEF FinalInv, SettleInv, ReportInv
<1>1. faults = 0 /\ ~Fault
  BY FaultsStay
<1>2. /\ ~remote /\ Reported => row.status \in Terminal
      /\ Alone /\ TotalSet => row.total = Cardinality(Plan)
      /\ Alone /\ pc # "crashed" =>
           /\ row.completed = Cardinality(Ended({"success", "failed"}))
           /\ row.failed = Cardinality(Ended({"failed"}))
  BY <1>1 DEF FinalInv
<1>3. ~offline /\ \A a \in Caller : call[a] # "lost"
  BY <1>1 DEF ReachInv
<1>4. /\ call \in [Caller -> {"none", "read", "write", "ok", "conflict", "lost"}]
      /\ "main" \in Caller /\ "signal" \in Caller /\ "user" \in Caller
      /\ row \in RowKind /\ \A a \in Caller : snap[a] \in RowKind
      /\ stage \in [Task -> {"unplanned", "todo", "running", "done"}]
  BY DEF TypeInv, ServerTypes, ClientTypes, Caller
<1>5. CASE \E t \in Task : StartTask(t) \/ EndTask(t) \/ SkipTask(t)
  <2> SUFFICES ASSUME NEW t \in Task, StartTask(t) \/ EndTask(t) \/ SkipTask(t)
               PROVE  /\ ~remote' /\ Reported' => row'.status \in Terminal
                      /\ Alone' /\ TotalSet' => row'.total = Cardinality(Plan')
                      /\ Alone' /\ pc' # "crashed" =>
                           /\ row'.completed = Cardinality(Ended({"success", "failed"})')
                           /\ row'.failed = Cardinality(Ended({"failed"})')
    BY <1>5
  <2>1. pc = "run" /\ UNCHANGED <<pc, call, user, sig, remote>>
    BY DEF StartTask, EndTask, SkipTask
  <2>2. Plan' = Plan
    <3>1. \E s \in {"running", "done"} : stage' = [stage EXCEPT ![t] = s]
      BY DEF StartTask, EndTask, SkipTask
    <3>2. stage[t] # "unplanned"
      BY DEF StartTask, EndTask, SkipTask
    <3> QED
      BY <1>4, <3>1, <3>2 DEF Plan
  <2>3. row'.total = row.total
    <3>1. row' = row \/ \E s \in {"success", "failed", "skipped", "cancelled"} :
                            UpdateTaskStatus(t, s)
      BY DEF StartTask, EndTask, SkipTask, OnTaskComplete
    <3> QED
      BY <1>4, <3>1 DEF UpdateTaskStatus, RowKind
  <2>4. Alone' <=> Alone
    BY <2>1 DEF Alone, Unsignalled
  <2>5. Alone => /\ row'.completed = Cardinality(Ended({"success", "failed"})')
                 /\ row'.failed = Cardinality(Ended({"failed"})')
    BY <1>1, <1>2, <2>1, Counted
  <2> QED
    BY <1>2, <2>1, <2>2, <2>3, <2>4, <2>5 DEF Reported, Stopping, TotalSet
<1>6. CASE \A t \in Task : ~StartTask(t) /\ ~EndTask(t) /\ ~SkipTask(t)
  <2>1. Plan' = Plan /\ Ended({"success", "failed"})' = Ended({"success", "failed"})
                     /\ Ended({"failed"})' = Ended({"failed"})
    BY <1>6, StageStays DEF Plan, Ended
  <2>2. ASSUME NEW a \in Caller, HandlerRead(a)
        PROVE  /\ ~remote' /\ Reported' => row'.status \in Terminal
               /\ Alone' /\ TotalSet' => row'.total = Cardinality(Plan')
               /\ Alone' /\ pc' # "crashed" =>
                    /\ row'.completed = Cardinality(Ended({"success", "failed"})')
                    /\ row'.failed = Cardinality(Ended({"failed"})')
    <3>1. /\ UNCHANGED <<row, pc, tries, user, sig, remote>>
          /\ \/ call' = [call EXCEPT ![a] = "conflict"] /\ row.status \in Terminal
             \/ call' = [call EXCEPT ![a] = "write"]
      BY <2>2 DEF HandlerRead, Goto
    <3>2. Alone' <=> Alone
      BY <3>1 DEF Alone, Unsignalled
    <3>3. /\ call'["main"] = "ok" => call["main"] = "ok"
          /\ call'["main"] = "conflict" => call["main"] = "conflict" \/ row.status \in Terminal
      BY <1>4, <3>1
    <3>4. /\ Reported' => Reported \/ row.status \in Terminal
          /\ TotalSet' => TotalSet
      BY <3>1, <3>3 DEF Reported, Stopping, TotalSet
    <3> QED
      BY <1>2, <2>1, <3>1, <3>2, <3>4
  <2>3. ASSUME NEW a \in Caller, HandlerWrite(a), a # "main"
        PROVE  /\ ~remote' /\ Reported' => row'.status \in Terminal
               /\ ~Alone'
    <3>1. /\ call[a] = "write" /\ UNCHANGED <<user, sig>>
          /\ row' = [[snap[a] EXCEPT !.status = "cancelled"]
                        EXCEPT !.beat = row.beat, !.gone = row.gone]
      BY <2>3 DEF HandlerWrite, CancelRun, Update
    <3>2. row'.status = "cancelled"
      BY <1>4, <3>1 DEF RowKind
    <3>3. ~Alone
      BY <2>3, <3>1 DEF AloneInv, Caller
    <3> QED
      BY <3>1, <3>2, <3>3 DEF Terminal, Alone, Unsignalled
  <2>4. CASE HandlerWrite("main")
    <3>1. /\ call["main"] = "write" /\ UpdateRunStatus
          /\ UNCHANGED <<req, pc, tries, user, sig, remote>>
          /\ \E l \in {"ok", "lost"} : call' = [call EXCEPT !["main"] = l]
      BY <2>4 DEF HandlerWrite, Goto
    <3>2. /\ pc \in {"start", "total", "final", "crashed"}
          /\ pc # "crashed" => req = pc
      BY <3>1 DEF PlaceInv
    <3>3. Alone' <=> Alone
      BY <3>1 DEF Alone, Unsignalled
    <3>4. ASSUME pc = "final"
          PROVE  /\ row'.status = Verdict /\ row'.total = row.total
                 /\ row'.completed = row.completed /\ row'.failed = row.failed
      BY <1>4, <3>1, <3>2, <3>4 DEF UpdateRunStatus, RowKind
    <3>5. ASSUME pc = "total" PROVE row'.total = Cardinality(Plan)
      BY <1>4, <3>1, <3>2, <3>5 DEF UpdateRunStatus, Update, RowKind
    <3>6. ASSUME pc \in {"start", "total"}
          PROVE  row'.completed = 0 /\ row'.failed = 0 /\ \A t \in Task : out[t] = "none"
      <4>1. \A t \in Task : out[t] = "none"
        BY <3>6 DEF PlaceInv
      <4>2. Done = {}
        BY <4>1 DEF Done, OutcomeInv
      <4>3. Cardinality(Done) = 0
        BY <4>2, FS_EmptySet
      <4>4. \A r \in RowKind : CountOf(r) => r.completed = 0 /\ r.failed = 0
        BY <4>3 DEF CountOf, RowKind
      <4>5. /\ row.completed = 0 /\ row.failed = 0
            /\ snap["main"].completed = 0 /\ snap["main"].failed = 0
        BY <1>4, <4>4 DEF CountInv
      <4>6. \E r \in {row, snap["main"]} : row'.completed = r.completed /\ row'.failed = r.failed
        BY <1>4, <3>1 DEF UpdateRunStatus, Update, RowKind
      <4> QED
        BY <4>1, <4>5, <4>6
    <3>7. Verdict \in Terminal
      BY DEF Verdict, Terminal
    <3>8. ~Stopping' /\ (TotalSet' => pc \in {"total", "final"}) /\ (Reported' => pc = "final")
      BY <3>1, <3>2 DEF Reported, Stopping, TotalSet
    <3>9. CASE pc \in {"start", "total"}
      BY <2>1, <3>1, <3>3, <3>5, <3>6, <3>8, <3>9, NothingEnded
    <3>10. CASE pc = "final"
      BY <1>2, <2>1, <3>1, <3>3, <3>4, <3>7, <3>8, <3>10 DEF TotalSet
    <3>11. CASE pc = "crashed"
      BY <3>1, <3>8, <3>11
    <3> QED
      BY <3>2, <3>9, <3>10, <3>11
  <2>5. CASE Heartbeat \/ MarkAsStale
    <3>1. /\ UNCHANGED <<pc, tries, call, user, sig, remote>>
          /\ row'.status = row.status /\ row'.total = row.total
          /\ row'.completed = row.completed /\ row'.failed = row.failed
      BY <1>4, <2>5 DEF Heartbeat, UpdateHeartbeat, MarkAsStale, RowKind
    <3> QED
      BY <1>2, <2>1, <3>1 DEF Reported, Stopping, TotalSet, Alone, Unsignalled
  <2>6. CASE Signal \/ UserCancels
    <3>1. /\ UNCHANGED <<row, pc, tries, remote>> /\ call'["main"] = call["main"]
          /\ (user' = user \/ user' = "asked")
      BY <1>4, <2>6 DEF Signal, Interrupt, RecordCancelled, AskCancel, CancelAnswered, vsig,
         UserCancels, Answered, Ask, Goto
    <3>2. Alone' => Alone
      BY <3>1, Forward DEF Alone
    <3> QED
      BY <1>2, <2>1, <3>1, <3>2 DEF Reported, Stopping, TotalSet
  <2>7. CASE \/ Hb \/ ListStaleRuns \/ PeriodicFlush \/ UNCHANGED vars
             \/ (\E t \in Task : AppendLog(t))
    <3>1. UNCHANGED <<row, pc, tries, call, user, sig>> /\ (~remote' => ~remote)
      BY <2>7 DEF Hb, MarkRemote, RecordRemote, CancelRemote, vhb, ListStaleRuns,
         PeriodicFlush, AppendLog
    <3> QED
      BY <1>2, <2>1, <3>1 DEF Reported, Stopping, TotalSet, Alone, Unsignalled
  <2>8. CASE Main
    <3>1. UNCHANGED <<row, user, remote>>
      BY <2>8 DEF Main, Setup, AskStatus, StatusAnswered, StatusOffline, RunEnds, CheckRemote,
         RecordVerdict, ReportFlush, StopFlush, Exit, Crash, vstay
    <3>2. Alone' => Alone
      BY <3>1, Forward DEF Alone
    <3>3. pc' # "crashed" => pc # "crashed"
      BY <2>8 DEF Main, Setup, AskStatus, StatusAnswered, StatusOffline, RunEnds, CheckRemote,
         RecordVerdict, ReportFlush, StopFlush, Exit, Crash, vstay
    <3>4. (~remote /\ Reported' => Reported) /\ (Alone /\ TotalSet' => TotalSet)
      <4>1. CASE Setup
        BY <4>1 DEF Setup, PlaceInv, Reported, Stopping, TotalSet
      <4>2. CASE AskStatus
        BY <1>4, <4>2 DEF AskStatus, Ask, Goto, Reported, Stopping, TotalSet
      <4>3. CASE StatusAnswered
        <5>1. /\ call["main"] \in {"ok", "conflict"} /\ pc' = Following(pc)
              /\ call'["main"] = "none" /\ pc \in {"start", "total", "final"}
          BY <1>3, <1>4, <4>3 DEF StatusAnswered, Answered, Goto
        <5>2. Alone /\ pc = "total" => call["main"] = "ok"
          BY <5>1 DEF AloneInv
        <5> QED
          BY <5>1, <5>2 DEF Following, Reported, Stopping, TotalSet
      <4>4. CASE StatusOffline
        BY <1>3, <4>4 DEF StatusOffline
      <4>5. CASE RunEnds \/ CheckRemote \/ RecordVerdict \/ ReportFlush
        <5>1. /\ pc \in {"run", "check", "local", "flush"} /\ call'["main"] = call["main"]
              /\ pc' \in {"check", "local", "flush", "final", "stop"}
              /\ pc' = "stop" => remote
          BY <4>5 DEF RunEnds, CheckRemote, RecordVerdict, ReportFlush, vstay
        <5>2. call["main"] = "none"
          BY <5>1 DEF PlaceInv
        <5> QED
          BY <5>1, <5>2 DEF Reported, Stopping, TotalSet
      <4>6. CASE StopFlush \/ Exit \/ Crash
        BY <4>6 DEF StopFlush, Exit, Crash, Reported, Stopping, TotalSet, vstay
      <4> QED
        BY <2>8, <4>1, <4>2, <4>3, <4>4, <4>5, <4>6 DEF Main
    <3> QED
      BY <1>2, <2>1, <3>1, <3>2, <3>3, <3>4
  <2>9. ~(\E a \in Caller : RequestLost(a))
    BY <1>1 DEF RequestLost
  <2> QED
    BY <1>6, <2>2, <2>3, <2>4, <2>5, <2>6, <2>7, <2>8, <2>9 DEF Next, Server, StaleJob, TaskStep
<1> QED
  BY <1>5, <1>6

--------------------------------------------------------------------------------
IInv == TypeInv /\ CountInv /\ LogInv /\ LossInv /\ SettleInv /\ ReportInv

(* The inductive invariant: types, counters, the log and the verdict of a   *)
(* run of the CLI (remote_sync.go, run.go, and the handlers of runs.go).    *)
THEOREM Invariance == Spec => []IInv
<1>1. Init => IInv
  BY TypeInit, CountInit, LogInit, SettleInit, ReportInit DEF IInv
<1>2. IInv /\ [Next]_vars => IInv'
  BY TypeStep, CountStep, LogStep, LossStep, NoteStep, OutcomeStep, VerdictStep, ReachStep, PlaceStep,
     AloneStep, FinalStep DEF IInv, SettleInv, ReportInv
<1> QED
  BY <1>1, <1>2, PTL DEF Spec

(* Every variable keeps its type; the row never counts more tasks than the  *)
(* run has, nor more failures than completions (runs.go, UpdateTaskStatus). *)
THEOREM TypeCorrect == Spec => []TypeOK
<1>1. IInv => TypeOK
  <2> SUFFICES ASSUME IInv PROVE TypeOK
    OBVIOUS
  <2> DEFINE p == Cardinality(Plan)
  <2>1. /\ p \in Nat /\ Cardinality(Done) \in Nat /\ Cardinality(Done) <= p
    BY PlanFinite, DoneFinite
  <2>2. ASSUME NEW r \in RowKind, CountOf(r) PROVE r \in RowType /\ r.failed <= r.completed
    <3>1. /\ r.completed \in 0 .. p /\ r.failed \in 0 .. p /\ r.total \in {0, p}
          /\ r.failed <= r.completed
      BY <2>1, <2>2 DEF RowKind, CountOf
    <3> QED
      BY <3>1, <2>2 DEF RowKind, RowType, Statuses
  <2>3. row \in RowType /\ row.failed <= row.completed /\ snap \in [Caller -> RowType]
    BY <2>2 DEF IInv, TypeInv, ServerTypes, CountInv
  <2>4. /\ \A i \in DOMAIN srvlog : srvlog[i] \in 1 .. lines
        /\ \A i \in DOMAIN buf : buf[i] \in 1 .. lines
        /\ unstored \subseteq 1 .. lines
    <3>1. /\ DOMAIN srvlog = 1 .. Len(srvlog) /\ DOMAIN buf = 1 .. Len(buf)
          /\ lines \in Nat /\ Len(buf) \in Nat /\ Len(buf) <= lines
      BY DEF IInv, LogInv, BufferInv, SentInv
    <3>2. \A i \in 1 .. Len(buf) : buf[i] = lines - Len(buf) + i
      BY DEF IInv, LogInv, BufferInv
    <3>3. \A i \in 1 .. Len(srvlog) : srvlog[i] \in 1 .. lines
      BY DEF IInv, LogInv, SentInv
    <3>4. unstored \subseteq 1 .. lines
      BY DEF IInv, LogInv, UnstoredInv
    <3> QED
      BY ONLY <3>1, <3>2, <3>3, <3>4
  <2>5. {cancelFn, remote, offline} \subseteq BOOLEAN
    BY DEF IInv, TypeInv, ClientTypes, SyncTypes
  <2> QED
    BY <2>3, <2>4, <2>5 DEF IInv, TypeInv, ServerTypes, ClientTypes, SyncTypes, TypeOK
<1> QED
  BY <1>1, Invariance, PTL

(* A run that was stopped from the dashboard before its tasks had run is    *)
(* neither recorded nor reported as a success: the note comes before the    *)
(* cancellation and the look at it after the return of the scheduler        *)
(* (remote_sync.go 594-598, run.go 245).                                    *)
THEOREM StoppedNotSuccess == Spec => []StoppedIsNotSuccess
<1>1. IInv => StoppedIsNotSuccess
  <2> SUFFICES ASSUME IInv, sig \in {"off", "armed"}, "success" \in {row.status, local},
                      NEW t \in Plan
               PROVE  out[t] \in {"success", "skipped"}
    BY DEF StoppedIsNotSuccess
  <2>1. Verdict = "success" /\ Earned
    BY DEF IInv, SettleInv, VerdictInv
  <2>2. stage[t] = "done" /\ t \in Task
    BY <2>1 DEF Earned, Unsignalled, AllRan, Plan
  <2>3. out[t] \notin {"none", "blocked"}
    BY <2>1, <2>2 DEF IInv, SettleInv, OutcomeInv
  <2>4. out[t] \notin {"failed", "cancelled"}
    BY <2>1, <2>2 DEF Verdict
  <2> QED
    BY <2>2, <2>3, <2>4 DEF IInv, TypeInv, ClientTypes
<1> QED
  BY <1>1, Invariance, PTL

(* The CLI leaves no run open unless a report was lost or whoever cancelled  *)
(* the run has ended it, and a run that nobody cancelled ends on the server  *)
(* as it did locally, with its total and the counts of its tasks             *)
(* (run.go 240-255, remote_sync.go, and UpdateRunStatus of runs.go).         *)
THEOREM ReportsAgree == Spec => []ReportAgrees
<1>1. IInv => ReportAgrees
  <2> SUFFICES ASSUME IInv, pc = "exit", tries > 0 PROVE ReportAgrees
    BY DEF ReportAgrees
  <2>1. Reported /\ TotalSet
    BY DEF Reported, TotalSet, Stopping
  <2>2. faults = 0 /\ ~remote => row.status \in Terminal
    BY <2>1 DEF IInv, ReportInv, FinalInv
  <2>3. ASSUME sig = "armed", user = "idle"
        PROVE  /\ row.status \in Terminal => row.status = local
               /\ faults = 0 =>
                    /\ row.total = Cardinality(Plan)
                    /\ row.completed = Cardinality(Ended({"success", "failed"}))
                    /\ row.failed = Cardinality(Ended({"failed"}))
    <3>1. Alone
      BY <2>3 DEF Alone, Unsignalled
    <3> QED
      BY <2>1, <3>1 DEF IInv, ReportInv, AloneInv, FinalInv
  <2>4. Ended({"failed"}) = {t \in Task : out[t] = "failed"}
    BY DEF Ended
  <2> QED
    BY <2>2, <2>3, <2>4 DEF ReportAgrees, Ended
<1> QED
  BY <1>1, Invariance, PTL

(* A log line is on the server or in the buffer until later lines push it   *)
(* out or the CLI goes offline, unless the server has answered OK for it    *)
(* without storing it (handlers/runs.go 2004-2006), and repetitions aside   *)
(* the server has the lines in order, whatever requests and answers are     *)
(* lost (flushLogsLocked and the periodic, reporting and final flushes of   *)
(* remote_sync.go).                                                         *)
THEOREM LinesKept == Spec => []NoLineLost
<1>1. IInv => NoLineLost
  <2> SUFFICES ASSUME LogInv, LossInv PROVE NoLineLost
    BY DEF IInv
  <2>1. DOMAIN srvlog = 1 .. Len(srvlog) /\ DOMAIN buf = 1 .. Len(buf)
    BY DEF LogInv, BufferInv, SentInv
  <2>2. ASSUME ~offline, NEW l \in 1 .. lines, l + MaxLogBuf > lines
        PROVE  l \in Range(srvlog) \cup Range(buf) \cup unstored
    BY <2>1, <2>2 DEF LogInv, KeptInv, Range
  <2>3. ASSUME NEW j \in DOMAIN srvlog
        PROVE  LET before == {srvlog[i] : i \in 1 .. j - 1} IN
               srvlog[j] \in before \/ \A l \in before : l < srvlog[j]
    BY <2>1, <2>3 DEF LogInv, OrderInv
  <2> QED
    BY <2>2, <2>3 DEF NoLineLost, LossInv
<1> QED
  BY <1>1, Invariance, PTL
================================================================================
