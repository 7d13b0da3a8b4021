-------------------------- MODULE RpcTransport_proofs --------------------------
(***************************************************************************)
(* Theorems about the connection of a plugin, for every number of callers  *)
(* and every capacity: the PendingMap holds exactly the requests somebody  *)
(* waits for; the channels keep their bounds; an answer that was written   *)
(* is read before its request times out; and what the plugin wrote is in   *)
(* the log when its run has ended.                                         *)
(***************************************************************************)
EXTENDS RpcTransport, FiniteSetTheorems, TLAPS

\* The part of the state the property is about, typed.
PendingType ==
    /\ ask \in [Rid -> Phase]
    /\ pending \in SUBSET Rid

\* The serving loop has not issued its ping and its shutdown when it is about
\* to; otherwise issuing would refuse a request that is still in the map.
LoopInv ==
    /\ serve \in {"init", "select", "notify", "reply", "host"} =>
           ask["ping"] = "new" /\ ask["stop"] = "new"
    /\ serve = "ping" => ask["stop"] = "new"

PInv == PendingType /\ PendingMatchesWaiters /\ LoopInv

\* What a step of one request or of the readers may do: no request leaves
\* "new", and the serving loop stays where it is.
Late == /\ \A r \in Rid : ask[r] = "new" => ask'[r] = "new"
        /\ UNCHANGED serve

LEMMA LateKeeps == LoopInv /\ Late => LoopInv'
BY DEF LoopInv, Late, Rid

LEMMA PInvInit == Init => PInv
BY DEF Init, PInv, PendingType, PendingMatchesWaiters, LoopInv, Open, Phase, Rid

\* Steps that touch none of it.
LEMMA AsideKeeps == PInv /\ UNCHANGED <<ask, pending, reader, serve>> => PInv'
BY DEF PInv, PendingType, PendingMatchesWaiters, LoopInv

\* Issuing a request that nobody waits for.
LEMMA IssueKeeps ==
    ASSUME PInv, NEW r \in Rid, ask[r] = "new", Issue(r), UNCHANGED reader
    PROVE  PendingType' /\ PendingMatchesWaiters'
BY DEF PInv, PendingType, PendingMatchesWaiters, Issue, Inserts, Phase

LEMMA SendKeeps == ASSUME PInv, NEW r \in Rid, Send(r) PROVE PInv'
<1>1. PendingType' /\ PendingMatchesWaiters'
  BY DEF PInv, PendingType, PendingMatchesWaiters, Send, Phase
<1>2. Late
  BY DEF PInv, PendingType, Send, Late
<1> QED
  BY <1>1, <1>2, LateKeeps DEF PInv

LEMMA TimeOutKeeps == ASSUME PInv, NEW r \in Rid, TimeOut(r) PROVE PInv'
<1>1. PendingType' /\ PendingMatchesWaiters'
  BY DEF PInv, PendingType, PendingMatchesWaiters, TimeOut, Phase
<1>2. Late
  BY DEF PInv, PendingType, TimeOut, Late
<1> QED
  BY <1>1, <1>2, LateKeeps DEF PInv

LEMMA CallerKeeps ==
    ASSUME PInv, NEW c \in Caller, Call(c) \/ Stopped(c)
    PROVE  PInv'
<1>0. c \in Rid /\ c # "ping" /\ c # "stop"
  BY TransportAssumption DEF Rid
<1>1. PendingType' /\ PendingMatchesWaiters'
  <2>1. CASE Call(c)
    BY <1>0, <2>1, IssueKeeps DEF Call
  <2>2. CASE Stopped(c)
    BY <1>0, <2>2 DEF PInv, PendingType, PendingMatchesWaiters, Stopped, Phase
  <2> QED
    BY <2>1, <2>2
<1>2. ask'["ping"] = ask["ping"] /\ ask'["stop"] = ask["stop"] /\ serve' = serve
  BY <1>0 DEF PInv, PendingType, Call, Issue, Inserts, Stopped, Rid
<1>3. LoopInv'
  BY <1>2 DEF PInv, LoopInv
<1> QED
  BY <1>1, <1>3 DEF PInv

LEMMA ReadersKeep == PInv /\ Readers => PInv'
<1> SUFFICES ASSUME PInv, Readers PROVE PInv'
  OBVIOUS
<1>1. CASE ReadAnswer
  <2>1. \A r \in Rid : ask'[r] = IF r \in pending /\ r = Head(stdout).id
                                 THEN "answered" ELSE ask[r]
    BY <1>1 DEF ReadAnswer, Complete, PInv, PendingType
  <2>2. ask' \in [Rid -> Phase]
    BY <1>1 DEF ReadAnswer, Complete, PInv, PendingType, Phase
  <2>3. PendingType' /\ PendingMatchesWaiters'
    BY <1>1, <2>1, <2>2 DEF ReadAnswer, Complete, PInv, PendingType, PendingMatchesWaiters
  <2>4. Late
    BY <1>1, <2>1 DEF ReadAnswer, PInv, PendingMatchesWaiters, Late
  <2> QED
    BY <2>3, <2>4, LateKeeps DEF PInv
<1>2. CASE ReadEnd
  <2>1. PendingType' /\ PendingMatchesWaiters'
    BY <1>2 DEF ReadEnd, FailAll, PInv, PendingType, PendingMatchesWaiters, Phase
  <2>2. Late
    BY <1>2 DEF ReadEnd, FailAll, Late
  <2> QED
    BY <2>1, <2>2, LateKeeps DEF PInv
<1>3. CASE ReportEnd
  BY <1>3 DEF ReportEnd, PInv, PendingType, PendingMatchesWaiters, LoopInv
<1>4. CASE ReadLine \/ ReadStderr
  BY <1>4, AsideKeeps DEF ReadLine, ReadStderr
<1> QED
  BY <1>1, <1>2, <1>3, <1>4 DEF Readers

\* The serving loop: it issues a request, finishes a ping, or only moves.
LEMMA LoopKeeps == PInv /\ (Loop \/ Tick \/ TakeCommand) => PInv'
<1> SUFFICES ASSUME PInv, Loop \/ Tick \/ TakeCommand PROVE PInv'
  OBVIOUS
<1>0. {"ping", "stop"} \subseteq Rid
  BY DEF Rid
<1>1. CASE Tick \/ TakeShutdown
  <2>1. PendingType' /\ PendingMatchesWaiters'
    BY <1>0, <1>1, IssueKeeps DEF Tick, TakeShutdown, PInv, LoopInv
  <2>2. LoopInv'
    BY <1>0, <1>1 DEF Tick, TakeShutdown, Issue, Inserts, PInv, PendingType, LoopInv
  <2> QED
    BY <2>1, <2>2 DEF PInv
<1>2. CASE Pong
  BY <1>0, <1>2 DEF Pong, Answered, PInv, PendingType, PendingMatchesWaiters, LoopInv, Phase
<1>3. CASE ~(Tick \/ TakeShutdown \/ Pong)
  <2>1. UNCHANGED <<ask, pending, reader>>
    BY <1>3 DEF Loop, TakeCommand, ServeOnly, Initialized, InitFailed, TakeIncoming,
                HostAnswers, Put, PingFailed, StopReturned, Reap, ReadersDone,
                Flush, Over
  <2>2. LoopInv'
    BY <1>3, <2>1 DEF PInv, LoopInv, Loop, TakeCommand, Initialized, InitFailed,
                TakeIncoming, HostAnswers, Put, PingFailed, StopReturned, Reap,
                ReadersDone, Flush, Over
  <2> QED
    BY <2>1, <2>2 DEF PInv, PendingType, PendingMatchesWaiters
<1> QED
  BY <1>1, <1>2, <1>3

LEMMA PInvStep == PInv /\ [Next]_vars => PInv'
<1> SUFFICES ASSUME PInv, [Next]_vars PROVE PInv'
  OBVIOUS
<1>1. ASSUME NEW r \in Rid, Send(r) \/ TimeOut(r) PROVE PInv'
  BY <1>1, SendKeeps, TimeOutKeeps
<1>2. CASE Readers
  BY <1>2, ReadersKeep
<1>3. CASE Loop \/ Tick \/ TakeCommand
  BY <1>3, LoopKeeps
<1>4. ASSUME NEW c \in Caller, Call(c) \/ Stopped(c) PROVE PInv'
  BY <1>4, CallerKeeps
<1>5. CASE Write \/ PluginReads \/ PluginAnswers \/ PluginLeaves \/ PluginSpeaks
              \/ PluginExits \/ PluginHangs \/ Forward \/ AskStop
  BY <1>5, AsideKeeps DEF Write, PluginReads, PluginAnswers, PluginLeaves,
       PluginSpeaks, PluginExits, PluginHangs, Forward, AskStop, coreVars
<1>6. CASE GraceOver \/ DrainTimesOut \/ Abort
  BY <1>6 DEF GraceOver, DrainTimesOut, Abort, ServeOnly, PInv, PendingType,
       PendingMatchesWaiters, LoopInv
<1>7. CASE UNCHANGED vars
  BY <1>7, AsideKeeps DEF vars, coreVars
<1> QED
  BY <1>1, <1>2, <1>3, <1>4, <1>5, <1>6, <1>7 DEF Next, Prompt, Timers

\* In every reachable state an entry of the PendingMap has its waiter and,
\* while stdout is read, every waiter has its entry (rpc.rs).
THEOREM PendingCorrect == Spec => []PendingMatchesWaiters
<1>1. PInv => PendingMatchesWaiters
  BY DEF PInv
<1> QED
  BY <1>1, PInvInit, PInvStep, PTL DEF Spec
--------------------------------------------------------------------------------
\* Lines of a channel or a pipe.

\* Appending a line adds it; it does so twice only if it was there.
LEMMA AppendLine ==
    ASSUME NEW S, NEW s \in Seq(S), NEW line \in S
    PROVE  /\ Append(s, line) \in Seq(S) /\ Len(Append(s, line)) = Len(s) + 1
           /\ Len(s) \in Nat
           /\ Lines(Append(s, line)) = Lines(s) \cup {line}
<1> DEFINE t == Append(s, line)
<1>1. /\ DOMAIN t = 1 .. Len(s) + 1 /\ DOMAIN s = 1 .. Len(s) /\ Len(s) \in Nat
      /\ \A i \in 1 .. Len(s) : t[i] = s[i]
      /\ t[Len(s) + 1] = line /\ t \in Seq(S) /\ Len(t) = Len(s) + 1
  OBVIOUS
<1> HIDE DEF t
<1>2. Lines(t) \subseteq Lines(s) \cup {line}
  <2> SUFFICES ASSUME NEW i \in DOMAIN t PROVE t[i] \in Lines(s) \cup {line}
    BY DEF Lines
  <2> QED
    BY <1>1 DEF Lines
<1>3. Lines(s) \cup {line} \subseteq Lines(t)
  BY <1>1 DEF Lines
<1> QED
  BY <1>1, <1>2, <1>3 DEF t

LEMMA TakeLine ==
    ASSUME NEW S, NEW s \in Seq(S), s # <<>>
    PROVE  /\ Head(s) \in S /\ Tail(s) \in Seq(S) /\ Len(Tail(s)) = Len(s) - 1
           /\ Lines(s) = {Head(s)} \cup Lines(Tail(s))
<1> DEFINE t == Tail(s)
<1>1. /\ t \in Seq(S) /\ Head(s) \in S /\ Head(s) = s[1]
      /\ Len(s) \in Nat /\ Len(s) >= 1 /\ Len(t) = Len(s) - 1
      /\ DOMAIN t = 1 .. Len(s) - 1 /\ DOMAIN s = 1 .. Len(s)
      /\ \A i \in 1 .. Len(s) - 1 : t[i] = s[i + 1]
  OBVIOUS
<1> HIDE DEF t
<1>2. Lines(s) \subseteq {Head(s)} \cup Lines(t)
  <2> SUFFICES ASSUME NEW i \in DOMAIN s, i # 1 PROVE s[i] \in Lines(t)
    BY <1>1 DEF Lines
  <2>1. i - 1 \in DOMAIN t /\ t[i - 1] = s[i]
    BY <1>1
  <2> QED
    BY <2>1 DEF Lines
<1>3. {Head(s)} \cup Lines(t) \subseteq Lines(s)
  <2>1. \A i \in DOMAIN t : i + 1 \in DOMAIN s /\ t[i] = s[i + 1]
    BY <1>1
  <2> QED
    BY <1>1, <2>1 DEF Lines
<1> QED
  BY <1>1, <1>2, <1>3 DEF t

LEMMA NoLine == \A S : <<>> \in Seq(S) /\ Len(<<>>) = 0 /\ Lines(<<>>) = {}
BY DEF Lines

\* A line that occurs at most once.
Once(s, line) == \A i, j \in DOMAIN s : s[i] = line /\ s[j] = line => i = j

LEMMA OnceAppend ==
    ASSUME NEW S, NEW s \in Seq(S), NEW line \in S, NEW l, Once(s, l),
           l # line \/ l \notin Lines(s)
    PROVE  Once(Append(s, line), l)
<1> DEFINE t == Append(s, line)
<1>1. /\ DOMAIN t = 1 .. Len(s) + 1 /\ DOMAIN s = 1 .. Len(s) /\ Len(s) \in Nat
      /\ \A i \in 1 .. Len(s) : t[i] = s[i]
      /\ t[Len(s) + 1] = line
  OBVIOUS
<1> HIDE DEF t
<1>2. Once(t, l)
  BY <1>1 DEF Once, Lines
<1> QED
  BY <1>2 DEF t

LEMMA OnceTail ==
    ASSUME NEW S, NEW s \in Seq(S), s # <<>>, NEW l, Once(s, l)
    PROVE  Once(Tail(s), l) /\ (Head(s) = l => l \notin Lines(Tail(s)))
<1> DEFINE t == Tail(s)
<1>1. /\ Head(s) = s[1] /\ Len(s) \in Nat /\ Len(s) >= 1
      /\ DOMAIN t = 1 .. Len(s) - 1 /\ DOMAIN s = 1 .. Len(s)
      /\ \A i \in 1 .. Len(s) - 1 : t[i] = s[i + 1]
  OBVIOUS
<1> HIDE DEF t
<1>2. \A i \in DOMAIN t : i + 1 \in DOMAIN s /\ i + 1 # 1 /\ t[i] = s[i + 1]
  BY <1>1
<1>3. Once(t, l)
  <2> SUFFICES ASSUME NEW i \in DOMAIN t, NEW j \in DOMAIN t, t[i] = l, t[j] = l
               PROVE  i = j
    BY DEF Once
  <2>1. i + 1 = j + 1
    BY <1>2 DEF Once
  <2> QED
    BY <1>1, <2>1
<1>4. Head(s) = l => l \notin Lines(t)
  BY <1>1, <1>2 DEF Once, Lines
<1> QED
  BY <1>3, <1>4 DEF t

\* The lines of the plugin's own, counted as they are written and read.
Spoken(s) == {i \in 1 .. Len(s) : IsUnsolicited(s[i])}

LEMMA SpokenFinite ==
    ASSUME NEW S, NEW s \in Seq(S)
    PROVE  IsFiniteSet(Spoken(s)) /\ Cardinality(Spoken(s)) \in Nat
<1>1. IsFiniteSet(1 .. Len(s))
  BY FS_Interval
<1>2. Spoken(s) \subseteq 1 .. Len(s)
  BY DEF Spoken
<1>3. IsFiniteSet(Spoken(s))
  BY <1>1, <1>2, FS_Subset
<1> QED
  BY <1>3, FS_CardinalityType

LEMMA SpokenAppend ==
    ASSUME NEW S, NEW s \in Seq(S), NEW line \in S
    PROVE  Cardinality(Spoken(Append(s, line))) =
               Cardinality(Spoken(s)) + IF IsUnsolicited(line) THEN 1 ELSE 0
<1> DEFINE t == Append(s, line)
<1>1. /\ Len(t) = Len(s) + 1 /\ Len(s) \in Nat
      /\ \A i \in 1 .. Len(s) : t[i] = s[i]
      /\ t[Len(s) + 1] = line
  OBVIOUS
<1> HIDE DEF t
<1>2. Len(s) + 1 \notin Spoken(s)
  BY <1>1 DEF Spoken
<1>3. Spoken(t) = IF IsUnsolicited(line) THEN Spoken(s) \cup {Len(s) + 1} ELSE Spoken(s)
  BY <1>1 DEF Spoken
<1>4. IsFiniteSet(Spoken(s)) /\ Cardinality(Spoken(s)) \in Nat
  BY SpokenFinite
<1>5. Cardinality(Spoken(s) \cup {Len(s) + 1}) = Cardinality(Spoken(s)) + 1
  BY <1>2, <1>4, FS_AddElement
<1> QED
  BY <1>3, <1>4, <1>5 DEF t

LEMMA SpokenTail ==
    ASSUME NEW S, NEW s \in Seq(S), s # <<>>
    PROVE  Cardinality(Spoken(s)) =
               Cardinality(Spoken(Tail(s))) + IF IsUnsolicited(Head(s)) THEN 1 ELSE 0
<1> DEFINE t == Tail(s)
           R == Spoken(s) \ {1}
           f == [i \in R |-> i - 1]
<1>1. /\ t \in Seq(S) /\ Head(s) = s[1] /\ Len(s) \in Nat /\ Len(s) >= 1
      /\ Len(t) = Len(s) - 1
      /\ \A i \in 1 .. Len(s) - 1 : t[i] = s[i + 1]
  OBVIOUS
<1> HIDE DEF t
<1>2. R \subseteq Int
  BY <1>1 DEF Spoken
<1>3. \A i \in R : i - 1 \in Spoken(t)
  <2> SUFFICES ASSUME NEW i \in R PROVE i - 1 \in Spoken(t)
    OBVIOUS
  <2>1. i - 1 \in 1 .. Len(t) /\ t[i - 1] = s[i] /\ IsUnsolicited(s[i])
    BY <1>1 DEF Spoken
  <2> QED
    BY <2>1 DEF Spoken
<1>4. \A j \in Spoken(t) : j + 1 \in R /\ (j + 1) - 1 = j
  BY <1>1 DEF Spoken
<1>5. f \in Bijection(R, Spoken(t))
  <2>1. f \in [R -> Spoken(t)]
    BY <1>3
  <2>2. \A i, j \in R : f[i] = f[j] => i = j
    BY <1>2
  <2>3. \A j \in Spoken(t) : \E i \in R : f[i] = j
    BY <1>4
  <2> HIDE DEF f, R
  <2> QED
    BY <2>1, <2>2, <2>3 DEF Bijection, Injection, Surjection, IsInjective
<1>6. IsFiniteSet(Spoken(s))
  BY SpokenFinite
<1>7. IsFiniteSet(R) /\ Cardinality(R) = Cardinality(Spoken(t))
  <2>1. IsFiniteSet(R)
    BY <1>6, FS_RemoveElement
  <2>2. ExistsBijection(R, Spoken(t))
    BY <1>5 DEF ExistsBijection
  <2> QED
    BY <2>1, <2>2, FS_Bijection
<1>8. Cardinality(R) = IF 1 \in Spoken(s) THEN Cardinality(Spoken(s)) - 1
                                          ELSE Cardinality(Spoken(s))
  BY <1>6, FS_RemoveElement
<1>9. 1 \in Spoken(s) <=> IsUnsolicited(Head(s))
  BY <1>1 DEF Spoken
<1> QED
  BY <1>7, <1>8, <1>9, SpokenFinite DEF t
--------------------------------------------------------------------------------
\* Types.  On the way to the plugin there are requests and the core's own
\* lines, on the way back answers and the plugin's own.
Sent    == {Request(r) : r \in Rid} \cup {Plain("notify"), Plain("reply")}
Written == {Answer(r) : r \in Rid} \cup {Plain("say"), Plain("call")}
Message == {"say", "call", "log", "eof"}

LoopType   == serve \in Serve /\ stopAsked \in BOOLEAN
OutType    == out \in Seq(Sent) /\ Len(out) <= OutCap /\ writer \in BOOLEAN
StdinType  == stdin \in Seq(Sent) /\ Len(stdin) <= PipeCap /\ owed \in SUBSET Rid
StdoutType == stdout \in Seq(Written) /\ Len(stdout) <= PipeCap + 1
ReaderType == /\ reader \in {"up", "eof", "done"}
              /\ stderr \in 0 .. PipeCap
              /\ incoming \in Seq(Message) /\ Len(incoming) <= InCap
PluginType == alive \in BOOLEAN /\ hung \in BOOLEAN

TInv == /\ PendingType /\ LoopType /\ OutType /\ StdinType /\ StdoutType
        /\ ReaderType /\ PluginType

\* What the lines are told apart by.
LEMMA LineFacts ==
    /\ \A r \in Rid : /\ Request(r) \in Sent /\ Request(r).kind = "request"
                      /\ Request(r).id = r
                      /\ Answer(r) \in Written /\ Answer(r).kind = "answer"
                      /\ Answer(r).id = r /\ ~IsUnsolicited(Answer(r))
    /\ \A kind \in {"notify", "reply"} :
           Plain(kind) \in Sent /\ Plain(kind).kind # "request"
    /\ \A kind \in {"say", "call"} :
           /\ Plain(kind) \in Written /\ Plain(kind).kind # "answer"
           /\ IsUnsolicited(Plain(kind))
    /\ TooLong \in Written /\ TooLong.kind # "answer" /\ IsUnsolicited(TooLong)
    /\ \A line \in Sent : line.kind = "request" => line.id \in Rid /\ line = Request(line.id)
    /\ \A line \in Written :
           IF line.kind = "answer" THEN line.id \in Rid /\ line = Answer(line.id)
                                   ELSE IsUnsolicited(line) /\ line.kind \in {"say", "call"}
BY DEF Sent, Written, Request, Answer, Plain, TooLong, IsUnsolicited

LEMMA CapFacts == /\ InCap \in Nat \ {0} /\ OutCap \in Nat \ {0} /\ PipeCap \in Nat \ {0}
                  /\ Quiet \in Nat /\ Patient \in BOOLEAN /\ Threaded \in BOOLEAN
                  /\ {"init", "ping", "stop"} \subseteq Rid /\ Caller \subseteq Rid
BY TransportAssumption DEF Rid

LEMMA TypeInit == Init => TInv
<1> SUFFICES ASSUME Init PROVE TInv
  OBVIOUS
<1>1. out \in Seq(Sent) /\ stdin \in Seq(Sent) /\ stdout \in Seq(Written) /\ incoming \in Seq(Message)
  BY NoLine DEF Init
<1>2. Len(out) = 0 /\ Len(stdin) = 0 /\ Len(stdout) = 0 /\ Len(incoming) = 0
  BY NoLine DEF Init
<1>3. PendingType /\ LoopType /\ PluginType
  BY CapFacts DEF Init, PendingType, LoopType, PluginType, Open, Phase, Serve
<1>4. OutType /\ StdinType /\ StdoutType /\ ReaderType
  BY <1>1, <1>2, CapFacts DEF Init, OutType, StdinType, StdoutType, ReaderType
<1> QED
  BY <1>3, <1>4 DEF TInv

\* A line more in the outgoing channel.
LEMMA TypePut ==
    ASSUME OutType, NEW line \in Sent, writer /\ Len(out) < OutCap,
           out' = Append(out, line), UNCHANGED writer
    PROVE  OutType'
<1>1. out' \in Seq(Sent) /\ Len(out') = Len(out) + 1 /\ Len(out) \in Nat
  BY AppendLine DEF OutType
<1> QED
  BY <1>1, CapFacts DEF OutType

LEMMA TypeSend == ASSUME TInv, NEW r \in Rid, Send(r) PROVE OutType'
<1>1. Request(r) \in Sent
  BY LineFacts
<1>2. CASE out' = Append(out, Request(r)) /\ writer /\ Len(out) < OutCap
  BY <1>1, <1>2, TypePut DEF TInv, Send
<1>3. CASE UNCHANGED out
  BY <1>3 DEF TInv, Send, OutType
<1> QED
  BY <1>2, <1>3 DEF Send

LEMMA TypeWrite == ASSUME TInv, Write PROVE OutType' /\ StdinType'
<1>1. /\ Head(out) \in Sent /\ Tail(out) \in Seq(Sent)
      /\ Len(Tail(out)) = Len(out) - 1 /\ Len(out) \in Nat
  BY TakeLine DEF Write, TInv, OutType
<1>2. CASE alive
  <2>0. stdin \in Seq(Sent) /\ stdin' = Append(stdin, Head(out)) /\ Len(stdin) < PipeCap
    BY <1>2 DEF Write, TInv, StdinType
  <2>1. stdin' \in Seq(Sent) /\ Len(stdin') = Len(stdin) + 1 /\ Len(stdin) \in Nat
    BY <1>1, <2>0, AppendLine
  <2>2. StdinType'
    BY <1>2, <2>0, <2>1, CapFacts DEF Write, TInv, StdinType
  <2> QED
    BY <1>1, <1>2, <2>2, CapFacts DEF Write, TInv, OutType
<1>3. CASE ~alive
  <2>0. out' = <<>> /\ writer' \in BOOLEAN
    BY <1>3 DEF Write
  <2>1. out' \in Seq(Sent) /\ Len(out') <= OutCap
    BY <2>0, NoLine, CapFacts
  <2>2. StdinType'
    BY <1>3 DEF Write, TInv, StdinType
  <2> QED
    BY <2>0, <2>1, <2>2 DEF OutType
<1> QED
  BY <1>2, <1>3

\* A line more in the pipe of stdout, by the plugin when it is not writing.
LEMMA TypeWritten ==
    ASSUME StdoutType, NEW line \in Written, ~Writing, stdout' = Append(stdout, line)
    PROVE  StdoutType'
<1>1. /\ stdout' \in Seq(Written) /\ Len(stdout') = Len(stdout) + 1
      /\ Len(stdout) \in Nat
  BY AppendLine DEF StdoutType
<1> QED
  BY <1>1, CapFacts DEF StdoutType, Writing

LEMMA TypePlugin ==
    ASSUME TInv, PluginReads \/ PluginAnswers \/ PluginSpeaks
    PROVE  StdinType' /\ StdoutType' /\ ReaderType'
<1>1. CASE PluginReads
  <2>1. /\ Head(stdin) \in Sent /\ Tail(stdin) \in Seq(Sent)
        /\ Len(Tail(stdin)) = Len(stdin) - 1 /\ Len(stdin) \in Nat
    BY <1>1, TakeLine DEF PluginReads, TInv, StdinType
  <2>2. StdinType'
    BY <1>1, <2>1, LineFacts, CapFacts DEF PluginReads, TInv, StdinType
  <2> QED
    BY <1>1, <2>2 DEF PluginReads, TInv, StdoutType, ReaderType, coreVars
<1>2. CASE PluginAnswers
  <2>1. PICK r \in owed : /\ owed' = owed \ {r}
                          /\ \/ stdout' = Append(stdout, Answer(r))
                             \/ stdout' = Append(stdout, TooLong)
    BY <1>2 DEF PluginAnswers
  <2>2. r \in Rid
    BY DEF TInv, StdinType
  <2>3. Answer(r) \in Written /\ TooLong \in Written
    BY <2>2, LineFacts
  <2>4. StdoutType'
    BY <1>2, <2>1, <2>3, TypeWritten DEF PluginAnswers, TInv
  <2> QED
    BY <1>2, <2>1, <2>4 DEF PluginAnswers, TInv, StdinType, ReaderType, coreVars
<1>3. CASE PluginSpeaks
  <2>1. StdoutType'
    <3>1. CASE UNCHANGED stdout
      BY <3>1 DEF TInv, StdoutType
    <3>2. CASE \E kind \in {"say", "call"} : stdout' = Append(stdout, Plain(kind))
      BY <1>3, <3>2, LineFacts, TypeWritten DEF PluginSpeaks, TInv
    <3> QED
      BY <1>3, <3>1, <3>2 DEF PluginSpeaks
  <2>2. stderr' \in 0 .. PipeCap
    BY <1>3, CapFacts DEF PluginSpeaks, TInv, ReaderType
  <2> QED
    BY <1>3, <2>1, <2>2 DEF PluginSpeaks, TInv, StdinType, ReaderType, coreVars
<1> QED
  BY <1>1, <1>2, <1>3

LEMMA TypeReaders == ASSUME TInv, Readers PROVE StdoutType' /\ ReaderType'
<1>0. stdout # <<>> => /\ Head(stdout) \in Written /\ Tail(stdout) \in Seq(Written)
                       /\ Len(Tail(stdout)) = Len(stdout) - 1 /\ Len(stdout) \in Nat
  BY TakeLine DEF TInv, StdoutType
<1>1. CASE ReadAnswer
  BY <1>0, <1>1, CapFacts DEF ReadAnswer, TInv, StdoutType, ReaderType
<1>2. CASE ReadLine
  <2>1. Head(stdout).kind \in Message
    BY <1>2 DEF ReadLine, IsUnsolicited, Message
  <2> QED
    BY <1>0, <1>2, <2>1, CapFacts DEF ReadLine, TInv, StdoutType, ReaderType
<1>3. CASE ReadEnd
  BY <1>3 DEF ReadEnd, TInv, StdoutType, ReaderType, pluginVars
<1>4. CASE ReportEnd
  BY <1>4, CapFacts DEF ReportEnd, TInv, StdoutType, ReaderType, pluginVars, Message
<1>5. CASE ReadStderr
  BY <1>5, CapFacts DEF ReadStderr, TInv, StdoutType, ReaderType, Message
<1> QED
  BY <1>1, <1>2, <1>3, <1>4, <1>5 DEF Readers

LEMMA TypePing == /\ {"init", "ping", "stop"} \subseteq Rid
                  /\ \A kind \in {"notify", "reply"} : Plain(kind) \in Sent
BY LineFacts, CapFacts

\* The serving loop.
LEMMA TypeLoop ==
    ASSUME TInv, Loop \/ Tick \/ TakeCommand \/ Forward \/ AskStop \/ GraceOver
                 \/ DrainTimesOut \/ Abort
    PROVE  LoopType' /\ OutType' /\ StdinType' /\ StdoutType' /\ ReaderType' /\ PluginType'
<1>1. CASE Put \/ Forward
  <2>1. LoopType' /\ StdinType' /\ StdoutType' /\ ReaderType' /\ PluginType'
    BY <1>1 DEF Put, Forward, TInv, LoopType, StdinType, StdoutType, ReaderType,
       PluginType, pluginVars, Serve
  <2>2. CASE UNCHANGED <<out, writer>>
    BY <2>1, <2>2 DEF TInv, OutType
  <2>3. CASE \E kind \in {"notify", "reply"} : /\ writer /\ Len(out) < OutCap
                                                 /\ out' = Append(out, Plain(kind))
                                                 /\ UNCHANGED writer
    BY <2>1, <2>3, TypePing, TypePut DEF TInv
  <2> QED
    BY <1>1, <2>2, <2>3 DEF Put, Forward
<1>2. CASE TakeIncoming \/ Flush
  <2>1. incoming' \in Seq(Message) /\ Len(incoming') <= InCap
    <3>1. /\ Tail(incoming) \in Seq(Message) /\ Len(Tail(incoming)) = Len(incoming) - 1
          /\ Len(incoming) \in Nat
      BY <1>2, TakeLine DEF TakeIncoming, Flush, TInv, ReaderType
    <3> QED
      BY <1>2, <3>1, CapFacts DEF TakeIncoming, Flush, TInv, ReaderType
  <2>2. serve' \in Serve
    BY <1>2 DEF TakeIncoming, Flush, ServeOnly, TInv, LoopType, Serve
  <2> QED
    BY <1>2, <2>1, <2>2 DEF TakeIncoming, Flush, TInv, LoopType, OutType, StdinType,
       StdoutType, ReaderType, PluginType, pluginVars
<1>3. CASE Over \/ Abort
  <2>0. \A S : /\ <<>> \in Seq(S) /\ Len(<<>>) <= OutCap /\ Len(<<>>) <= InCap
    BY NoLine, CapFacts
  <2>1. out' \in Seq(Sent) /\ Len(out') <= OutCap /\ incoming' \in Seq(Message)
        /\ Len(incoming') <= InCap
    BY <1>3, <2>0 DEF Over, Abort, TInv, OutType, ReaderType
  <2> QED
    BY <1>3, <2>1 DEF Over, Abort, TInv, LoopType, OutType, StdinType,
       StdoutType, ReaderType, PluginType, pluginVars, Serve
<1>4. CASE ~(Put \/ Forward \/ TakeIncoming \/ Flush \/ Over \/ Abort)
  <2>1. serve' \in Serve /\ stopAsked' \in BOOLEAN /\ alive' \in BOOLEAN
    BY <1>4 DEF TInv, LoopType, PluginType, Serve, Loop, Tick, TakeCommand, AskStop,
       GraceOver, DrainTimesOut, ServeOnly, Initialized, InitFailed, TakeShutdown,
       HostAnswers, Pong, PingFailed, StopReturned, Reap, ReadersDone, coreVars, pluginVars
  <2>2. UNCHANGED <<out, writer, stdin, owed, stdout, stderr, reader, incoming, hung>>
    BY <1>4 DEF Loop, Tick, TakeCommand, AskStop, GraceOver, DrainTimesOut, ServeOnly,
       Initialized, InitFailed, TakeShutdown, HostAnswers, Pong, PingFailed,
       StopReturned, Reap, ReadersDone, coreVars, pluginVars
  <2> QED
    BY <2>1, <2>2 DEF TInv, LoopType, OutType, StdinType, StdoutType, ReaderType, PluginType
<1> QED
  BY <1>1, <1>2, <1>3, <1>4

LEMMA TypeStep == ASSUME TInv, PInv', [Next]_vars PROVE TInv'
<1>0. PendingType'
  BY DEF PInv
<1>1. ASSUME NEW r \in Rid, Send(r) PROVE TInv'
  BY <1>0, <1>1, TypeSend DEF Send, TInv, LoopType, StdinType, StdoutType, ReaderType,
     PluginType, pluginVars
<1>2. CASE Write
  BY <1>0, <1>2, TypeWrite DEF Write, TInv, LoopType, StdoutType, ReaderType, PluginType
<1>3. CASE PluginReads \/ PluginAnswers \/ PluginSpeaks
  BY <1>0, <1>3, TypePlugin DEF PluginReads, PluginAnswers, PluginSpeaks, TInv, LoopType,
     OutType, PluginType, coreVars
<1>4. CASE Readers
  <2>1. UNCHANGED <<serve, stopAsked, out, writer, stdin, owed, alive, hung>>
    BY <1>4 DEF Readers, ReadAnswer, ReadLine, ReadEnd, ReportEnd, ReadStderr, pluginVars
  <2> QED
    BY <1>0, <1>4, <2>1, TypeReaders DEF TInv, LoopType, OutType, StdinType, PluginType
<1>5. CASE Loop \/ Tick \/ TakeCommand \/ Forward \/ AskStop \/ GraceOver
           \/ DrainTimesOut \/ Abort
  BY <1>0, <1>5, TypeLoop DEF TInv
<1>6. CASE PluginLeaves \/ PluginExits \/ PluginHangs
  BY <1>0, <1>6 DEF PluginLeaves, PluginExits, PluginHangs, TInv, LoopType, OutType,
     StdinType, StdoutType, ReaderType, PluginType, coreVars
<1>7. CASE \/ \E r \in Rid : TimeOut(r)
           \/ \E c \in Caller : Call(c) \/ Stopped(c)
           \/ UNCHANGED vars
  <2>1. UNCHANGED <<serve, stopAsked, out, writer, reader, incoming, stdin, owed, stdout,
                    stderr, alive, hung>>
    BY <1>7 DEF TimeOut, Call, Stopped, vars, coreVars, pluginVars
  <2> QED
    BY <1>0, <2>1 DEF TInv, LoopType, OutType, StdinType, StdoutType, ReaderType, PluginType
<1> QED
  BY <1>1, <1>2, <1>3, <1>4, <1>5, <1>6, <1>7 DEF Next, Prompt, Timers

LEMMA TypesHold == TInv => TypeOK
<1> SUFFICES ASSUME TInv PROVE TypeOK
  OBVIOUS
<1>1. Sent \subseteq Line /\ Written \subseteq Line
  BY DEF Sent, Written, Request, Answer, Plain, Line
<1>2. out \in Seq(Line) /\ stdin \in Seq(Line) /\ stdout \in Seq(Line)
  BY <1>1 DEF TInv, OutType, StdinType, StdoutType
<1> QED
  BY <1>2 DEF TInv, TypeOK, PendingType, LoopType, OutType, StdinType, StdoutType,
     ReaderType, PluginType, Message
--------------------------------------------------------------------------------
\* The end of a run: the process is dead once the serving loop no longer serves
\* or a task met the end of a pipe, and stdout was read to its end unless its
\* receiver was gone.
EndInv ==
    /\ serve \in {"drain", "flush", "over"} => ~alive
    /\ ~writer => ~alive
    /\ reader # "up" => ~alive /\ (stdout = <<>> \/ serve = "over")

\* The plugin's own lines, but for the report of the end of stdout, are within
\* the bound.
Share    == Cardinality(Spoken(stdout)) + stderr + Len(incoming)
BoundInv == Share <= IF reader = "done" THEN Quiet + 1 ELSE Quiet

LEMMA EndInit == Init => EndInv /\ BoundInv
<1> SUFFICES ASSUME Init PROVE EndInv /\ BoundInv
  OBVIOUS
<1>1. Spoken(stdout) = {} /\ Len(incoming) = 0
  BY NoLine DEF Init, Spoken
<1>2. Share = 0
  BY <1>1, FS_EmptySet DEF Init, Share
<1>3. BoundInv
  BY <1>2, CapFacts DEF Init, BoundInv
<1>4. EndInv
  BY DEF Init, EndInv
<1> QED
  BY <1>3, <1>4

LEMMA EndStep == ASSUME TInv, EndInv, [Next]_vars PROVE EndInv'
<1>1. CASE \/ \E r \in Rid : Send(r) \/ TimeOut(r)
           \/ \E c \in Caller : Call(c) \/ Stopped(c)
           \/ AskStop \/ PluginHangs \/ ReadStderr \/ UNCHANGED vars
  <2>1. UNCHANGED <<serve, alive, writer, reader, stdout>>
    BY <1>1 DEF Send, TimeOut, Call, Stopped, AskStop, PluginHangs, ReadStderr, vars,
       coreVars, pluginVars
  <2> QED
    BY <2>1 DEF EndInv
<1>2. CASE Write
  BY <1>2 DEF Write, EndInv
<1>3. CASE PluginReads \/ PluginAnswers \/ PluginSpeaks \/ PluginLeaves \/ PluginExits
  BY <1>3 DEF PluginReads, PluginAnswers, PluginSpeaks, PluginLeaves, PluginExits,
     Responsive, EndInv, coreVars
<1>4. CASE ReadAnswer \/ ReadLine
  BY <1>4 DEF ReadAnswer, ReadLine, EndInv
<1>5. CASE ReadEnd
  BY <1>5 DEF ReadEnd, EndInv, Receiving, pluginVars
<1>6. CASE ReportEnd
  BY <1>6 DEF ReportEnd, EndInv, pluginVars
<1>7. CASE Over \/ Reap \/ Abort
  BY <1>7 DEF Over, Reap, Abort, EndInv, pluginVars
<1>8. CASE \/ Loop /\ ~Over /\ ~Reap
           \/ Tick \/ TakeCommand \/ Forward \/ GraceOver \/ DrainTimesOut
  <2>1. UNCHANGED <<alive, writer, reader, stdout>>
    BY <1>8 DEF Loop, Tick, TakeCommand, Forward, GraceOver, DrainTimesOut, ServeOnly,
       Initialized, InitFailed, TakeShutdown, TakeIncoming, HostAnswers, Put, Pong,
       PingFailed, StopReturned, ReadersDone, Flush, pluginVars
  <2>2. serve' \in {"drain", "flush", "over"} => serve \in {"drain", "flush", "over"}
    BY <1>8 DEF Loop, Tick, TakeCommand, Forward, GraceOver, DrainTimesOut, ServeOnly,
       Initialized, InitFailed, TakeShutdown, TakeIncoming, HostAnswers, Put, Pong,
       PingFailed, StopReturned, ReadersDone, Flush
  <2>3. serve # "over"
    BY <1>8 DEF Loop, Tick, TakeCommand, Forward, GraceOver, DrainTimesOut, SessionUp,
       Initialized, InitFailed, TakeShutdown, TakeIncoming, HostAnswers, Put, Pong,
       PingFailed, StopReturned, ReadersDone, Flush
  <2> QED
    BY <2>1, <2>2, <2>3 DEF EndInv
<1> QED
  BY <1>1, <1>2, <1>3, <1>4, <1>5, <1>6, <1>7, <1>8 DEF Next, Prompt, Timers, Readers

Counted == /\ Cardinality(Spoken(stdout)) \in Nat /\ stderr \in Nat /\ Len(incoming) \in Nat
           /\ Share \in Nat

LEMMA ShareCounted == TInv => Counted
<1> SUFFICES ASSUME TInv PROVE Cardinality(Spoken(stdout)) \in Nat /\ stderr \in Nat
                               /\ Len(incoming) \in Nat
  BY DEF Counted, Share
<1> QED
  BY SpokenFinite, CapFacts DEF TInv, StdoutType, ReaderType

LEMMA ShareType ==
    TInv => /\ Cardinality(Spoken(stdout)) \in Nat /\ stderr \in Nat /\ Len(incoming) \in Nat
            /\ Share \in Nat
BY ShareCounted DEF Counted

LEMMA BoundStep == ASSUME TInv, TInv', EndInv, BoundInv, [Next]_vars PROVE BoundInv'
<1>0. /\ Cardinality(Spoken(stdout)) \in Nat /\ stderr \in Nat /\ Len(incoming) \in Nat
      /\ Share \in Nat /\ Quiet \in Nat
  BY ShareType, CapFacts
<1>1. /\ Share' \in Nat /\ Cardinality(Spoken(stdout')) \in Nat /\ stderr' \in Nat
      /\ Len(incoming') \in Nat
  <2>1. Counted'
    BY ShareCounted, PTL
  <2> QED
    BY <2>1 DEF Counted
<1>2. CASE PluginAnswers \/ PluginSpeaks
  <2>1. Outstanding = Share
    BY DEF Outstanding, Share, Unsolicited, Spoken
  <2>2. reader = "up"
    BY <1>2 DEF PluginAnswers, PluginSpeaks, Responsive, EndInv
  <2>3. UNCHANGED <<incoming, reader>>
    BY <1>2 DEF PluginAnswers, PluginSpeaks, coreVars
  <2>4. ASSUME NEW line \in Written, stdout' = Append(stdout, line), UNCHANGED stderr,
               IsUnsolicited(line) => Share < Quiet
        PROVE  BoundInv'
    <3>1. Share' = Share + IF IsUnsolicited(line) THEN 1 ELSE 0
      BY <1>0, <2>3, <2>4, SpokenAppend DEF Share, TInv, StdoutType
    <3> QED
      BY <1>0, <2>2, <2>3, <2>4, <3>1 DEF BoundInv
  <2>5. CASE UNCHANGED stdout /\ stderr' = stderr + 1 /\ Share < Quiet
    <3>1. Share' = Share + 1
      BY <1>0, <2>3, <2>5 DEF Share
    <3> QED
      BY <1>0, <2>2, <2>3, <2>5, <3>1 DEF BoundInv
  <2>6. CASE PluginAnswers
    <3>1. PICK r \in owed : \/ stdout' = Append(stdout, Answer(r))
                            \/ Outstanding < Quiet /\ stdout' = Append(stdout, TooLong)
      BY <2>6 DEF PluginAnswers
    <3>2. r \in Rid
      BY DEF TInv, StdinType
    <3>3. /\ Answer(r) \in Written /\ ~IsUnsolicited(Answer(r)) /\ TooLong \in Written
      BY <3>2, LineFacts
    <3> QED
      BY <2>1, <2>4, <2>6, <3>1, <3>3 DEF PluginAnswers
  <2>7. CASE PluginSpeaks
    BY <2>1, <2>4, <2>5, <2>7, LineFacts DEF PluginSpeaks
  <2> QED
    BY <1>2, <2>6, <2>7
<1>3. CASE ReadAnswer \/ ReadLine
  <2>1. stdout # <<>> /\ stdout' = Tail(stdout) /\ UNCHANGED <<stderr, reader>>
    BY <1>3 DEF ReadAnswer, ReadLine
  <2>2. Cardinality(Spoken(stdout)) = Cardinality(Spoken(stdout'))
                                          + IF IsUnsolicited(Head(stdout)) THEN 1 ELSE 0
    BY <2>1, SpokenTail DEF TInv, StdoutType
  <2>3. Len(incoming') <= Len(incoming) + IF IsUnsolicited(Head(stdout)) THEN 1 ELSE 0
    <3>1. CASE ReadAnswer
      BY <1>0, <3>1 DEF ReadAnswer
    <3>2. CASE ReadLine
      <4>1. incoming' = Append(incoming, Head(stdout).kind) /\ incoming \in Seq(Message)
            /\ Head(stdout).kind \in Message /\ IsUnsolicited(Head(stdout))
        BY <3>2 DEF ReadLine, TInv, ReaderType, IsUnsolicited, Message
      <4> QED
        BY <4>1, AppendLine
    <3> QED
      BY <1>3, <3>1, <3>2
  <2>4. Share' <= Share
    BY <1>0, <1>1, <2>1, <2>2, <2>3 DEF Share
  <2> QED
    BY <1>0, <1>1, <2>1, <2>4 DEF BoundInv
<1>4. CASE ReportEnd \/ ReadStderr
  <2>1. UNCHANGED stdout
    BY <1>4 DEF ReportEnd, ReadStderr, pluginVars
  <2>2. Len(incoming') <= Len(incoming) + 1
    <3>1. CASE \E m \in Message : incoming' = Append(incoming, m)
      BY <3>1, AppendLine DEF TInv, ReaderType
    <3>2. CASE UNCHANGED incoming
      BY <3>2, <1>0
    <3> QED
      BY <1>4, <3>1, <3>2 DEF ReportEnd, ReadStderr, Message
  <2>3. CASE ReportEnd
    <3>1. stderr' = stderr /\ reader = "eof" /\ reader' = "done"
      BY <2>3 DEF ReportEnd, pluginVars
    <3>2. Cardinality(Spoken(stdout')) = Cardinality(Spoken(stdout))
      BY <2>1
    <3>3. Share' <= Share + 1
      BY <1>0, <1>1, <2>2, <3>1, <3>2 DEF Share
    <3> QED
      BY <1>0, <1>1, <3>1, <3>3 DEF BoundInv
  <2>4. CASE ReadStderr
    <3>1. stderr' = stderr - 1 /\ UNCHANGED reader
      BY <2>4 DEF ReadStderr
    <3>2. Cardinality(Spoken(stdout')) = Cardinality(Spoken(stdout))
      BY <2>1
    <3>3. Share' <= Share
      BY <1>0, <1>1, <2>2, <3>1, <3>2 DEF Share
    <3> QED
      BY <1>0, <1>1, <3>1, <3>3 DEF BoundInv
  <2> QED
    BY <1>4, <2>3, <2>4
<1>5. CASE TakeIncoming \/ Flush \/ Abort
  <2>1. UNCHANGED <<stdout, stderr, reader>>
    BY <1>5 DEF TakeIncoming, Flush, Abort, pluginVars
  <2>2. Len(incoming') <= Len(incoming)
    <3>1. CASE incoming # <<>> /\ incoming' = Tail(incoming)
      BY <3>1, TakeLine DEF TInv, ReaderType
    <3>2. CASE incoming' = <<>>
      BY <1>0, <3>2, NoLine
    <3> QED
      BY <1>5, <3>1, <3>2 DEF TakeIncoming, Flush, Abort
  <2>3. Share' <= Share
    BY <1>0, <1>1, <2>1, <2>2 DEF Share
  <2> QED
    BY <1>0, <1>1, <2>1, <2>3 DEF BoundInv
<1>6. CASE ReadEnd
  <2>1. Share' = Share /\ reader' # "done" /\ reader # "done"
    BY <1>6 DEF ReadEnd, Share, pluginVars
  <2> QED
    BY <2>1 DEF BoundInv
<1>7. CASE UNCHANGED <<stdout, stderr, incoming, reader>>
  BY <1>7 DEF BoundInv, Share
<1>8. CASE ~(PluginAnswers \/ PluginSpeaks \/ Readers \/ TakeIncoming \/ Flush \/ Abort)
  BY <1>7, <1>8 DEF Next, Prompt, Timers, Loop, Send, Write, PluginReads, PluginLeaves,
     PluginExits, PluginHangs, TakeCommand, Tick, Forward, AskStop, Call, Stopped, TimeOut,
     GraceOver, DrainTimesOut, ServeOnly, Initialized, InitFailed, TakeShutdown,
     HostAnswers, Put, Pong, PingFailed, StopReturned, Reap, ReadersDone, Over,
     vars, coreVars, pluginVars
<1> QED
  BY <1>2, <1>3, <1>4, <1>5, <1>6, <1>8 DEF Readers
--------------------------------------------------------------------------------
\* The way of a request: it and its answer are in one place only.
Ahead(r)    == Request(r) \in Lines(out) \cup Lines(stdin) \/ r \in owed
HasAnswer(r) == Answer(r) \in Lines(stdout)
SentOnce(r) ==
    /\ Once(out, Request(r)) /\ Once(stdin, Request(r)) /\ Once(stdout, Answer(r))
    /\ Request(r) \in Lines(out) => Request(r) \notin Lines(stdin)
    /\ Request(r) \in Lines(out) \cup Lines(stdin) => r \notin owed
    /\ Ahead(r) => ~HasAnswer(r)

\* Of a request that is still to be sent, or was answered, nothing is under way.
\* Nobody waits for an answer that is left in a stdout nobody reads, and a
\* request that timed out gets no answer any more.
Way(r) ==
    /\ ask[r] \in {"new", "sending", "answered"} => ~Ahead(r) /\ ~HasAnswer(r)
    /\ reader # "up" /\ ask[r] = "waiting" => ~HasAnswer(r)
    /\ ask[r] = "timeout" => ~HasAnswer(r) /\ (Responsive => ~Ahead(r))

TravelInv == \A r \in Rid : SentOnce(r) /\ Way(r)

LEMMA TravelInit == Init => TravelInv
<1> SUFFICES ASSUME Init, NEW r \in Rid PROVE SentOnce(r) /\ Way(r)
  BY DEF TravelInv
<1>1. Lines(out) = {} /\ Lines(stdin) = {} /\ Lines(stdout) = {} /\ owed = {}
  BY NoLine DEF Init
<1>2. \A line : Once(out, line) /\ Once(stdin, line) /\ Once(stdout, line)
  BY DEF Init, Once
<1> QED
  BY <1>1, <1>2 DEF SentOnce, Way, Ahead, HasAnswer

\* Steps that move a line on or drop it, and those that change what a request is
\* to its sender without sending it.
Eases(r) ==
    \/ ask'[r] = ask[r]
    \/ ask[r] \in {"new", "answered"} /\ ask'[r] \in {"new", "sending"}
    \/ ask'[r] \in {"closed", "busy", "stopped"}

LEMMA TravelFrame ==
    ASSUME TravelInv, (Responsive' => Responsive), (reader' # "up" => reader # "up"),
           \A r \in Rid : /\ SentOnce(r)' /\ Eases(r)
                          /\ Ahead(r)' => Ahead(r)
                          /\ HasAnswer(r)' => HasAnswer(r)
    PROVE  TravelInv'
BY DEF TravelInv, Way, Eases

\* Where the pipes stay as they are.
LEMMA TravelAside ==
    ASSUME TravelInv, UNCHANGED <<out, stdin, owed, stdout>>, (Responsive' => Responsive),
           (reader' # "up" => reader # "up"), \A r \in Rid : Eases(r)
    PROVE  TravelInv'
<1>1. \A r \in Rid : SentOnce(r)' /\ (Ahead(r)' <=> Ahead(r)) /\ (HasAnswer(r)' <=> HasAnswer(r))
  BY DEF TravelInv, SentOnce, Ahead, HasAnswer, Once, Lines
<1> QED
  BY <1>1, TravelFrame

LEMMA TravelIssue ==
    ASSUME PendingType, NEW r \in Rid, ask[r] = "new", Issue(r)
    PROVE  \A q \in Rid : Eases(q)
BY DEF PendingType, Issue, Inserts, Eases

\* A line of the core's own in the outgoing channel.
LEMMA TravelPut ==
    ASSUME TInv, TravelInv, NEW kind \in {"notify", "reply"},
           out' = Append(out, Plain(kind)), UNCHANGED <<stdin, owed, stdout, ask, alive, hung, reader>>
    PROVE  TravelInv'
<1>1. out \in Seq(Sent) /\ Plain(kind) \in Sent /\ \A r \in Rid : Request(r) # Plain(kind)
  BY LineFacts DEF TInv, OutType
<1>2. \A r \in Rid : /\ Request(r) \in Lines(out') <=> Request(r) \in Lines(out)
                     /\ Once(out, Request(r)) => Once(out', Request(r))
  <2>1. Lines(out') = Lines(out) \cup {Plain(kind)}
    BY <1>1, AppendLine
  <2> QED
    BY <1>1, <2>1, OnceAppend
<1>3. \A r \in Rid : SentOnce(r)' /\ (Ahead(r)' <=> Ahead(r)) /\ (HasAnswer(r)' <=> HasAnswer(r))
  BY <1>2 DEF TravelInv, SentOnce, Ahead, HasAnswer
<1> QED
  BY <1>3, TravelFrame DEF Eases, Responsive

LEMMA TravelSend == ASSUME TInv, TravelInv, NEW r \in Rid, Send(r) PROVE TravelInv'
<1>0. UNCHANGED <<stdin, owed, stdout, alive, hung, reader>>
  BY DEF Send, pluginVars
<1>1. CASE UNCHANGED out
  <2>1. \A q \in Rid : Eases(q)
    BY <1>1 DEF Send, Eases, TInv, PendingType, TravelInv
  <2> QED
    BY <1>0, <1>1, <2>1, TravelAside DEF Responsive
<1>2. CASE out' = Append(out, Request(r))
  <2>1. out \in Seq(Sent) /\ Request(r) \in Sent /\ \A q \in Rid : Request(q) = Request(r) => q = r
    BY LineFacts DEF TInv, OutType
  <2>2. Lines(out') = Lines(out) \cup {Request(r)}
    BY <1>2, <2>1, AppendLine
  <2>3. ~Ahead(r) /\ ~HasAnswer(r) /\ SentOnce(r)
    BY DEF TravelInv, Way, Send
  <2>4. \A q \in Rid : Once(out', Request(q))
    BY <1>2, <2>1, <2>3, OnceAppend DEF TravelInv, SentOnce, Ahead
  <2>5. \A q \in Rid : SentOnce(q)'
    BY <1>0, <2>1, <2>2, <2>3, <2>4 DEF TravelInv, SentOnce, Ahead, HasAnswer
  <2>6. ask'[r] \in {"waiting", "closed"} /\ \A q \in Rid \ {r} : ask'[q] = ask[q]
    BY <1>2 DEF Send, TInv, PendingType
  <2>7. \A q \in Rid : q # r => (Ahead(q)' <=> Ahead(q))
    BY <1>0, <2>1, <2>2 DEF Ahead
  <2>8. \A q \in Rid : HasAnswer(q)' <=> HasAnswer(q)
    BY <1>0 DEF HasAnswer
  <2>9. Way(r)'
    BY <2>3, <2>6, <2>8 DEF Way
  <2>10. \A q \in Rid \ {r} : Way(q)'
    BY <1>0, <2>6, <2>7, <2>8 DEF TravelInv, Way, Responsive
  <2> QED
    BY <2>5, <2>9, <2>10 DEF TravelInv
<1> QED
  BY <1>1, <1>2 DEF Send

LEMMA TravelWrite == ASSUME TInv, TravelInv, Write PROVE TravelInv'
<1>0. UNCHANGED <<owed, stdout, alive, hung, reader, ask>>
  BY DEF Write
<1>1. CASE alive
  <2>1. /\ out # <<>> /\ out' = Tail(out) /\ stdin' = Append(stdin, Head(out))
        /\ out \in Seq(Sent) /\ stdin \in Seq(Sent)
    BY <1>1 DEF Write, TInv, OutType, StdinType
  <2>2. Head(out) \in Sent /\ Lines(out) = {Head(out)} \cup Lines(out')
    BY <2>1, TakeLine
  <2>3. Lines(stdin') = Lines(stdin) \cup {Head(out)}
    BY <2>1, <2>2, AppendLine
  <2>4. \A r \in Rid : /\ Once(out', Request(r))
                       /\ Head(out) = Request(r) => Request(r) \notin Lines(out')
    BY <2>1, OnceTail DEF TravelInv, SentOnce
  <2>5. \A r \in Rid : Once(stdin', Request(r))
    BY <2>1, <2>2, OnceAppend DEF TravelInv, SentOnce
  <2>6. \A r \in Rid : (Ahead(r)' <=> Ahead(r)) /\ (HasAnswer(r)' <=> HasAnswer(r))
    BY <1>0, <2>2, <2>3 DEF Ahead, HasAnswer
  <2>7. \A r \in Rid : SentOnce(r)'
    BY <1>0, <2>2, <2>3, <2>4, <2>5, <2>6 DEF TravelInv, SentOnce, Ahead
  <2> QED
    BY <1>0, <2>6, <2>7, TravelFrame DEF Eases, Responsive
<1>2. CASE ~alive
  <2>1. out' = <<>> /\ UNCHANGED stdin
    BY <1>2 DEF Write
  <2>2. Lines(out') = {} /\ \A r \in Rid : Once(out', Request(r))
    BY <2>1, NoLine DEF Once
  <2>3. \A r \in Rid : SentOnce(r)' /\ (Ahead(r)' => Ahead(r)) /\ (HasAnswer(r)' <=> HasAnswer(r))
    BY <1>0, <2>1, <2>2 DEF TravelInv, SentOnce, Ahead, HasAnswer
  <2> QED
    BY <1>0, <2>3, TravelFrame DEF Eases, Responsive
<1> QED
  BY <1>1, <1>2

LEMMA TravelReads == ASSUME TInv, TravelInv, PluginReads PROVE TravelInv'
<1>0. UNCHANGED <<out, stdout, alive, hung, reader, ask>>
  BY DEF PluginReads, coreVars
<1>1. stdin # <<>> /\ stdin' = Tail(stdin) /\ stdin \in Seq(Sent)
  BY DEF PluginReads, TInv, StdinType
<1>2. Head(stdin) \in Sent /\ Lines(stdin) = {Head(stdin)} \cup Lines(stdin')
  BY <1>1, TakeLine
<1>3. \A r \in Rid : /\ Once(stdin', Request(r))
                     /\ Head(stdin) = Request(r) => Request(r) \notin Lines(stdin')
  BY <1>1, OnceTail DEF TravelInv, SentOnce
<1>4. \A r \in Rid : r \in owed' <=> r \in owed \/ Head(stdin) = Request(r)
  BY <1>2, LineFacts DEF PluginReads
<1>5. \A r \in Rid : (Ahead(r)' <=> Ahead(r)) /\ (HasAnswer(r)' <=> HasAnswer(r))
  BY <1>0, <1>2, <1>4 DEF Ahead, HasAnswer
<1>6. \A r \in Rid : SentOnce(r)'
  BY <1>0, <1>2, <1>3, <1>4, <1>5 DEF TravelInv, SentOnce, Ahead
<1> QED
  BY <1>0, <1>5, <1>6, TravelFrame DEF Eases, Responsive

\* The plugin writes a line that is no answer.
LEMMA TravelSpeaks ==
    ASSUME TInv, TravelInv, NEW line \in Written, line.kind # "answer",
           stdout' = Append(stdout, line), owed' \subseteq owed,
           UNCHANGED <<out, stdin, alive, hung, reader, ask>>
    PROVE  TravelInv'
<1>1. stdout \in Seq(Written) /\ \A r \in Rid : Answer(r) # line
  BY LineFacts DEF TInv, StdoutType
<1>2. Lines(stdout') = Lines(stdout) \cup {line} /\ \A r \in Rid : Once(stdout', Answer(r))
  BY <1>1, AppendLine, OnceAppend DEF TravelInv, SentOnce
<1>3. \A r \in Rid : (Ahead(r)' => Ahead(r)) /\ (HasAnswer(r)' <=> HasAnswer(r))
  BY <1>1, <1>2 DEF Ahead, HasAnswer
<1>4. \A r \in Rid : SentOnce(r)'
  BY <1>2, <1>3 DEF TravelInv, SentOnce
<1> QED
  BY <1>3, <1>4, TravelFrame DEF Eases, Responsive

LEMMA TravelAnswers == ASSUME TInv, EndInv, TravelInv, PluginAnswers PROVE TravelInv'
<1>0. UNCHANGED <<out, stdin, alive, hung, reader, ask>> /\ Responsive
  BY DEF PluginAnswers, coreVars
<1>1. PICK r \in owed : /\ owed' = owed \ {r}
                        /\ stdout' = Append(stdout, Answer(r)) \/ stdout' = Append(stdout, TooLong)
  BY DEF PluginAnswers
<1>2. CASE stdout' = Append(stdout, TooLong)
  BY <1>0, <1>1, <1>2, TravelSpeaks, LineFacts
<1>3. CASE stdout' = Append(stdout, Answer(r))
  <2>1. r \in Rid /\ stdout \in Seq(Written)
    BY DEF TInv, StdinType, StdoutType
  <2>2. Answer(r) \in Written /\ \A q \in Rid : Answer(q) = Answer(r) => q = r
    BY <2>1, LineFacts
  <2>3. Lines(stdout') = Lines(stdout) \cup {Answer(r)}
    BY <1>3, <2>1, <2>2, AppendLine
  <2>4. Ahead(r) /\ ~HasAnswer(r) /\ SentOnce(r) /\ Way(r)
    BY <2>1 DEF TravelInv, SentOnce, Ahead
  <2>5. \A q \in Rid : Once(stdout', Answer(q))
    BY <1>3, <2>1, <2>2, <2>4, OnceAppend DEF TravelInv, SentOnce, HasAnswer
  <2>6. \A q \in Rid : SentOnce(q)'
    BY <1>0, <1>1, <2>2, <2>3, <2>4, <2>5 DEF TravelInv, SentOnce, Ahead, HasAnswer
  <2>7. \A q \in Rid \ {r} : (Ahead(q)' <=> Ahead(q)) /\ (HasAnswer(q)' <=> HasAnswer(q))
    BY <1>0, <1>1, <2>2, <2>3 DEF Ahead, HasAnswer
  <2>8. \A q \in Rid \ {r} : Way(q)'
    BY <1>0, <2>7 DEF TravelInv, Way, Responsive
  <2>9. Way(r)'
    BY <1>0, <2>4 DEF Way, EndInv, Responsive
  <2> QED
    BY <2>6, <2>8, <2>9 DEF TravelInv
<1> QED
  BY <1>1, <1>2, <1>3

\* The first line of stdout is taken, and nobody else's request touched.
LEMMA TravelTaken ==
    ASSUME TInv, TravelInv, stdout # <<>>, stdout' = Tail(stdout),
           UNCHANGED <<out, stdin, owed, alive, hung, reader>>
    PROVE  \A r \in Rid :
               /\ SentOnce(r)' /\ (Ahead(r)' <=> Ahead(r))
               /\ HasAnswer(r)' => HasAnswer(r)
               /\ Head(stdout) = Answer(r) => ~Ahead(r)' /\ ~HasAnswer(r)'
<1>1. stdout \in Seq(Written)
  BY DEF TInv, StdoutType
<1>2. Lines(stdout) = {Head(stdout)} \cup Lines(stdout')
  BY <1>1, TakeLine
<1>3. \A r \in Rid : /\ Once(stdout', Answer(r))
                     /\ Head(stdout) = Answer(r) => Answer(r) \notin Lines(stdout')
  BY <1>1, OnceTail DEF TravelInv, SentOnce
<1> QED
  BY <1>2, <1>3 DEF TravelInv, SentOnce, Ahead, HasAnswer

LEMMA TravelReadAnswer == ASSUME TInv, TravelInv, ReadAnswer PROVE TravelInv'
<1>0. /\ stdout # <<>> /\ stdout' = Tail(stdout)
      /\ UNCHANGED <<out, stdin, owed, alive, hung, reader>>
  BY DEF ReadAnswer
<1>1. \A q \in Rid : SentOnce(q)' /\ (Ahead(q)' <=> Ahead(q)) /\ (HasAnswer(q)' => HasAnswer(q))
  BY <1>0, TravelTaken
<1>2. PICK r \in Rid : Head(stdout) = Answer(r) /\ Complete(r)
  <2>1. Head(stdout) \in Written
    BY <1>0, TakeLine DEF TInv, StdoutType
  <2> QED
    BY <2>1, LineFacts DEF ReadAnswer
<1>3. ~Ahead(r)' /\ ~HasAnswer(r)'
  BY <1>0, <1>2, TravelTaken
<1>4. \A q \in Rid \ {r} : ask'[q] = ask[q]
  BY <1>2 DEF Complete, TInv, PendingType
<1>5. Way(r)'
  BY <1>3 DEF Way
<1>6. \A q \in Rid \ {r} : Way(q)'
  BY <1>0, <1>1, <1>4 DEF TravelInv, Way, Responsive
<1> QED
  BY <1>1, <1>5, <1>6 DEF TravelInv

LEMMA TravelReadEnd == ASSUME TInv, PInv, EndInv, TravelInv, ReadEnd PROVE TravelInv'
<1>0. /\ UNCHANGED <<out, stdin, owed, stdout, alive, hung>> /\ reader = "up"
      /\ ask' = [r \in Rid |-> IF r \in pending /\ ask[r] = "waiting" THEN "closed" ELSE ask[r]]
  BY DEF ReadEnd, FailAll, pluginVars
<1>1. \A r \in Rid : SentOnce(r)' /\ (Ahead(r)' <=> Ahead(r)) /\ (HasAnswer(r)' <=> HasAnswer(r))
  BY <1>0 DEF TravelInv, SentOnce, Ahead, HasAnswer, Once, Lines
<1>2. \A r \in Rid : ask'[r] # "waiting" /\ (ask'[r] = ask[r] \/ ask'[r] = "closed")
  BY <1>0 DEF PInv, PendingMatchesWaiters
<1>3. \A r \in Rid : Way(r)'
  BY <1>0, <1>1, <1>2 DEF TravelInv, Way, Responsive
<1> QED
  BY <1>1, <1>3 DEF TravelInv

\* Nothing of the core's own is left to do when a timer runs out, and so nothing
\* of a request is under way, or the plugin does not respond any more.
LEMMA TravelTimeOut ==
    ASSUME Patient, Quiet <= InCap, TInv, PInv, EndInv, BoundInv, TravelInv,
           NEW r \in Rid, TimeOut(r)
    PROVE  TravelInv'
<1>0. /\ UNCHANGED <<out, stdin, owed, stdout, alive, hung, reader>> /\ ~Runnable
      /\ ask[r] \in {"sending", "waiting"} /\ ask' = [ask EXCEPT ![r] = "timeout"]
  BY DEF TimeOut, pluginVars, Clock
<1>1. \A q \in Rid : SentOnce(q)' /\ (Ahead(q)' <=> Ahead(q)) /\ (HasAnswer(q)' <=> HasAnswer(q))
  BY <1>0 DEF TravelInv, SentOnce, Ahead, HasAnswer, Once, Lines
<1>2. reader = "up" => stdout = <<>>
  <2> SUFFICES ASSUME reader = "up", stdout # <<>> PROVE FALSE
    OBVIOUS
  <2>1. Head(stdout).kind # "answer" /\ Len(incoming) >= InCap
    <3>1. Head(stdout).kind # "answer" /\ ~HasRoom
      BY <1>0 DEF Runnable, Takes
    <3> QED
      BY <3>1, ShareType, CapFacts DEF HasRoom
  <2>2. IsUnsolicited(Head(stdout))
    <3>1. Head(stdout) \in Written
      BY TakeLine DEF TInv, StdoutType
    <3> QED
      BY <2>1, <3>1, LineFacts
  <2>3. Cardinality(Spoken(stdout)) = Cardinality(Spoken(Tail(stdout))) + 1
    BY <2>2, SpokenTail DEF TInv, StdoutType
  <2>4. Cardinality(Spoken(Tail(stdout))) \in Nat
    BY TakeLine, SpokenFinite DEF TInv, StdoutType
  <2>5. Share <= Quiet
    BY DEF BoundInv
  <2> QED
    BY <2>1, <2>3, <2>4, <2>5, ShareType, CapFacts DEF Share
<1>3. ~HasAnswer(r)
  <2>1. CASE stdout = <<>>
    BY <2>1, NoLine DEF HasAnswer
  <2>2. CASE reader # "up"
    BY <1>0, <2>2 DEF TravelInv, Way
  <2> QED
    BY <1>2, <2>1, <2>2
<1>4. Responsive => ~Ahead(r)
  <2> SUFFICES ASSUME Responsive PROVE ~Ahead(r)
    OBVIOUS
  <2>1. alive /\ writer /\ reader = "up"
    BY DEF EndInv, Responsive
  <2>2. stdout = <<>>
    BY <1>2, <2>1
  <2>3. ~Writing
    BY <2>2, NoLine, CapFacts DEF Writing
  <2>4. stdin = <<>> /\ owed = {}
    BY <1>0, <2>3 DEF Runnable, Takes
  <2>5. Len(stdin) < PipeCap
    BY <2>4, NoLine, CapFacts
  <2>6. out = <<>>
    BY <1>0, <2>1, <2>5 DEF Runnable, Takes
  <2> QED
    BY <2>4, <2>6, NoLine DEF Ahead
<1>5. Way(r)'
  BY <1>0, <1>1, <1>3, <1>4 DEF Way, Responsive, TInv, PendingType
<1>6. \A q \in Rid \ {r} : Way(q)'
  BY <1>0, <1>1 DEF TravelInv, Way, Responsive, TInv, PendingType
<1> QED
  BY <1>1, <1>5, <1>6 DEF TravelInv

LEMMA TravelStep ==
    ASSUME Patient, Quiet <= InCap, TInv, PInv, EndInv, BoundInv, TravelInv, [Next]_vars
    PROVE  TravelInv'
<1>1. ASSUME NEW r \in Rid, Send(r) \/ TimeOut(r) PROVE TravelInv'
  BY <1>1, TravelSend, TravelTimeOut
<1>2. CASE Write
  BY <1>2, TravelWrite
<1>3. CASE PluginReads
  BY <1>3, TravelReads
<1>4. CASE PluginAnswers
  BY <1>4, TravelAnswers
<1>5. CASE PluginSpeaks
  <2>1. CASE UNCHANGED stdout
    BY <1>5, <2>1, TravelAside DEF PluginSpeaks, coreVars, Responsive, Eases
  <2>2. CASE \E kind \in {"say", "call"} : stdout' = Append(stdout, Plain(kind))
    BY <1>5, <2>2, TravelSpeaks, LineFacts DEF PluginSpeaks, coreVars
  <2> QED
    BY <1>5, <2>1, <2>2 DEF PluginSpeaks
<1>6. CASE ReadAnswer
  BY <1>6, TravelReadAnswer
<1>7. CASE ReadLine
  <2>1. \A r \in Rid : SentOnce(r)' /\ (Ahead(r)' <=> Ahead(r)) /\ (HasAnswer(r)' => HasAnswer(r))
    BY <1>7, TravelTaken DEF ReadLine
  <2> QED
    BY <1>7, <2>1, TravelFrame DEF ReadLine, Eases, Responsive
<1>8. CASE ReadEnd
  BY <1>8, TravelReadEnd
<1>9. CASE Put \/ Forward
  <2>1. CASE UNCHANGED out
    BY <1>9, <2>1, TravelAside DEF Put, Forward, pluginVars, Responsive, Eases
  <2>2. CASE \E kind \in {"notify", "reply"} : out' = Append(out, Plain(kind))
    BY <1>9, <2>2, TravelPut DEF Put, Forward, pluginVars
  <2> QED
    BY <1>9, <2>1, <2>2 DEF Put, Forward
<1>10. CASE Over
  <2>1. out' = <<>> /\ UNCHANGED <<stdin, owed, stdout, ask, alive, hung, reader>>
    BY <1>10 DEF Over, pluginVars
  <2>2. Lines(out') = {} /\ \A r \in Rid : Once(out', Request(r))
    BY <2>1, NoLine DEF Once
  <2>3. \A r \in Rid : SentOnce(r)' /\ (Ahead(r)' => Ahead(r)) /\ (HasAnswer(r)' <=> HasAnswer(r))
    BY <2>1, <2>2 DEF TravelInv, SentOnce, Ahead, HasAnswer
  <2> QED
    BY <2>1, <2>3, TravelFrame DEF Eases, Responsive
<1>11. CASE TakeShutdown \/ Tick \/ \E c \in Caller : Call(c)
  <2>1. \A q \in Rid : Eases(q)
    BY <1>11, CapFacts, TravelIssue DEF TakeShutdown, Tick, Call, PInv, LoopInv
  <2> QED
    BY <1>11, <2>1, TravelAside DEF TakeShutdown, Tick, Call, pluginVars, Responsive
<1>12. CASE Pong \/ \E c \in Caller : Stopped(c)
  <2>1. \A q \in Rid : Eases(q)
    BY <1>12 DEF Pong, Answered, Stopped, Eases, PInv, PendingType
  <2> QED
    BY <1>12, <2>1, TravelAside DEF Pong, Stopped, pluginVars, Responsive
<1>13. CASE PluginExits \/ PluginHangs \/ PluginLeaves \/ Reap \/ Abort
  BY <1>13, TravelAside DEF PluginExits, PluginHangs, PluginLeaves, Reap, Abort, coreVars,
     Responsive, Eases
<1>14. CASE \/ ReportEnd \/ ReadStderr \/ TakeCommand \/ AskStop \/ GraceOver \/ DrainTimesOut
            \/ Initialized \/ InitFailed \/ TakeIncoming \/ HostAnswers \/ PingFailed
            \/ StopReturned \/ ReadersDone \/ Flush \/ UNCHANGED vars
  <2>1. UNCHANGED <<out, stdin, owed, stdout, ask, alive, hung>>
    BY <1>14 DEF ReportEnd, ReadStderr, TakeCommand, AskStop, GraceOver, DrainTimesOut,
       Initialized, InitFailed, TakeIncoming, HostAnswers, PingFailed, StopReturned,
       ReadersDone, Flush, ServeOnly, vars, coreVars, pluginVars
  <2>2. reader' # "up" => reader # "up"
    BY <1>14 DEF ReportEnd, ReadStderr, TakeCommand, AskStop, GraceOver, DrainTimesOut,
       Initialized, InitFailed, TakeIncoming, HostAnswers, PingFailed, StopReturned,
       ReadersDone, Flush, ServeOnly, vars, coreVars
  <2> QED
    BY <2>1, <2>2, TravelAside DEF Responsive, Eases
<1> QED
  BY <1>1, <1>2, <1>3, <1>4, <1>5, <1>6, <1>7, <1>8, <1>9, <1>10, <1>11, <1>12, <1>13,
     <1>14 DEF Next, Prompt, Timers, Readers, Loop
--------------------------------------------------------------------------------
\* What the model's own types say, for every number of callers and every capacity.
BaseInv == TInv /\ PInv /\ EndInv /\ BoundInv

LEMMA BaseInit == Init => BaseInv
BY TypeInit, PInvInit, EndInit DEF BaseInv

LEMMA BaseStep == BaseInv /\ [Next]_vars => BaseInv'
<1> SUFFICES ASSUME BaseInv, [Next]_vars PROVE BaseInv'
  OBVIOUS
<1>1. PInv'
  BY PInvStep DEF BaseInv
<1>2. TInv'
  BY <1>1, TypeStep DEF BaseInv
<1> QED
  BY <1>1, <1>2, EndStep, BoundStep DEF BaseInv

\* The channels and pipes of a connection stay within their capacities, and only
\* lines of their kind travel in them (runner.rs: the channels; rpc.rs).
THEOREM TransportTypeCorrect == Spec => []TypeOK
<1>1. BaseInv => TypeOK
  BY TypesHold DEF BaseInv
<1> QED
  BY <1>1, BaseInit, BaseStep, PTL DEF Spec

\* While the plugin has no more lines of its own on the way than the incoming
\* channel holds, and timers run out only when nothing can move, no request
\* times out whose answer the plugin has written or will write: the readers get
\* to every answer, whatever the serving loop waits for (rpc.rs, runner.rs).
THEOREM AnswersArriveCorrect ==
    ASSUME Patient, Quiet <= InCap
    PROVE  Spec => []AnswersArrive
<1>1. Init => BaseInv /\ TravelInv
  BY BaseInit, TravelInit
<1>2. (BaseInv /\ TravelInv) /\ [Next]_vars => (BaseInv /\ TravelInv)'
  BY BaseStep, TravelStep DEF BaseInv
<1>3. TravelInv => AnswersArrive
  BY DEF TravelInv, Way, HasAnswer, AnswersArrive
<1> QED
  BY <1>1, <1>2, <1>3, PTL DEF Spec

\* A run that drains is quiet once its drain is over.
FlushInv == serve = "flush" => ~alive /\ stderr = 0 /\ reader # "up" /\ stdout = <<>>

\* The readers are patiently waited for: when the drain times out, there is
\* nothing left to read that has room.
LEMMA DrainedIsEmpty ==
    ASSUME Patient, Quiet < InCap, BaseInv, DrainTimesOut
    PROVE  FlushInv'
<1>0. /\ serve = "drain" /\ ~Runnable /\ ~alive
      /\ UNCHANGED <<alive, stderr, reader, stdout>> /\ Receiving
  BY DEF DrainTimesOut, Clock, ServeOnly, pluginVars, BaseInv, EndInv, Receiving
<1>1. TInv /\ EndInv /\ BoundInv
  BY DEF BaseInv
<1>2. reader # "up"
  <2> SUFFICES ASSUME reader = "up" PROVE FALSE
    OBVIOUS
  <2>1. stdout # <<>> /\ Head(stdout).kind # "answer" /\ ~HasRoom
    BY <1>0 DEF Runnable, Takes
  <2>2. Share <= Quiet
    BY <1>1 DEF BoundInv
  <2> QED
    BY <1>0, <1>1, <2>1, <2>2, ShareType, CapFacts DEF HasRoom, Share
<1>3. stderr = 0
  <2> SUFFICES ASSUME stderr > 0 PROVE FALSE
    BY <1>1, ShareType
  <2>1. ~HasRoom
    BY <1>0 DEF Runnable, Takes
  <2>2. Share <= Quiet + 1
    BY <1>1, CapFacts, ShareType DEF BoundInv
  <2>3. Len(incoming) >= InCap
    BY <1>0, <1>1, <2>1, ShareType, CapFacts DEF HasRoom
  <2> QED
    BY <1>1, <2>2, <2>3, ShareType, CapFacts DEF Share
<1>4. stdout = <<>>
  BY <1>0, <1>1, <1>2 DEF EndInv
<1> QED
  BY <1>0, <1>2, <1>3, <1>4 DEF FlushInv

LEMMA FlushStep ==
    ASSUME Patient, Quiet < InCap, BaseInv, FlushInv, [Next]_vars
    PROVE  FlushInv'
<1>0. TInv /\ EndInv
  BY DEF BaseInv
<1>1. CASE DrainTimesOut
  BY <1>1, DrainedIsEmpty
<1>2. CASE ReadersDone
  BY <1>0, <1>2 DEF ReadersDone, ServeOnly, FlushInv, EndInv, pluginVars
<1>3. CASE Write \/ PluginReads \/ PluginAnswers \/ PluginSpeaks \/ PluginExits
           \/ PluginHangs \/ PluginLeaves
  BY <1>3 DEF Write, PluginReads, PluginAnswers, PluginSpeaks, PluginExits, PluginHangs,
     PluginLeaves, Responsive, FlushInv, coreVars
<1>4. CASE Readers
  BY <1>0, <1>4 DEF Readers, ReadAnswer, ReadLine, ReadEnd, ReportEnd, ReadStderr, FlushInv,
     pluginVars
<1>5. CASE Loop /\ ~ReadersDone
  BY <1>5 DEF Loop, ServeOnly, Initialized, InitFailed, TakeShutdown, TakeIncoming,
     HostAnswers, Put, Pong, PingFailed, StopReturned, Reap, Flush, Over, FlushInv, pluginVars
<1>6. CASE \/ \E r \in Rid : Send(r) \/ TimeOut(r)
           \/ \E c \in Caller : Call(c) \/ Stopped(c)
           \/ TakeCommand \/ Tick \/ Forward \/ AskStop \/ GraceOver \/ Abort \/ UNCHANGED vars
  BY <1>6 DEF Send, TimeOut, Call, Stopped, TakeCommand, Tick, Forward, AskStop, GraceOver,
     Abort, ServeOnly, FlushInv, vars, coreVars, pluginVars
<1> QED
  BY <1>1, <1>2, <1>3, <1>4, <1>5, <1>6 DEF Next, Prompt, Timers

\* A run that is not aborted ends with every line of the plugin taken over for
\* its log, while the incoming channel has room for those lines and the report
\* of the end (runner.rs, the end of run_once).
THEOREM OutputLogged ==
    ASSUME Patient, Quiet < InCap
    PROVE  Spec => OutputReachesLog
<1>1. Init => BaseInv /\ FlushInv
  BY BaseInit DEF Init, FlushInv
<1>2. (BaseInv /\ FlushInv) /\ [Next]_vars => (BaseInv /\ FlushInv)'
  BY BaseStep, FlushStep
<1>3. BaseInv /\ FlushInv /\ [Next]_vars =>
        [serve = "flush" /\ serve' = "over" =>
           stderr = 0 /\ ~\E line \in Lines(stdout) : IsUnsolicited(line)]_vars
  BY NoLine DEF FlushInv
<1> QED
  BY <1>1, <1>2, <1>3, PTL DEF Spec, OutputReachesLog
================================================================================
