----------------------------- MODULE RpcTransport -----------------------------
(***************************************************************************)
(* The JSON-RPC connection between smabar-core and one plugin process:     *)
(* plugins/{rpc,runner,commands}.rs under src/crates/smabar-core/src.      *)
(*                                                                         *)
(* Four tasks of the core meet here, over bounded channels and OS pipes:   *)
(* the serving loop of the plugin, the writer to its stdin, the readers of *)
(* its stdout and stderr, and callers of plugin commands.  The serving     *)
(* loop is the only one that drains the incoming channel, and it does so   *)
(* only between two of its own steps: while it waits for an answer or for  *)
(* room in the outgoing channel nobody drains it.                          *)
(*                                                                         *)
(*   callers, serve --> out --> (writer) --> stdin --> plugin              *)
(*   serve <-- incoming <-- (readers) <-- stdout, stderr <-- plugin        *)
(*                                                                         *)
(* A line a task holds while it waits for room is counted as one more line *)
(* of the pipe it comes from or goes to.                                   *)
(***************************************************************************)
EXTENDS Naturals, Sequences, FiniteSets

CONSTANTS Caller,      \* calls of plugin commands, one request each
          InCap,       \* capacity of the incoming channel (64)
          OutCap,      \* capacity of the outgoing channel (64)
          PipeCap,     \* lines that fit a pipe of the OS
          MaxPending,  \* requests in flight (32)
          Quiet,       \* bound: unsolicited lines of the plugin not yet served
          Threaded,    \* whether the plugin reads while it waits to write
          MayHang,     \* whether the plugin may stop responding
          MayDie,      \* whether the plugin may exit on its own
          Patient      \* whether timers run out only when nothing else can move

ASSUME TransportAssumption ==
    /\ Caller \cap {"init", "ping", "stop"} = {}
    /\ {InCap, OutCap, PipeCap, MaxPending} \subseteq Nat \ {0}
    /\ Quiet \in Nat
    /\ {Threaded, MayHang, MayDie, Patient} \subseteq BOOLEAN

\* The requests of the core: of the serving loop and of the callers.  A ping
\* is sent again only after the last one was answered, so one name suffices.
Rid == Caller \cup {"init", "ping", "stop"}

VARIABLES
    serve,    \* where run_once is
    ask,      \* progress of each request, as its sender sees it
    pending,  \* the PendingMap
    out,      \* the outgoing channel
    writer,   \* whether the writer task still runs
    stdin,    \* the pipe to the plugin
    owed,     \* requests the plugin has read and not answered
    stdout,   \* the pipe from the plugin; over PipeCap: being written
    stderr,   \* number of stderr lines not yet read
    reader,   \* the stdout reader: up, past fail_all, done
    incoming, \* the incoming channel
    alive,    \* the plugin process
    hung,     \* the process runs and does nothing any more
    stopAsked \* the supervisor has sent Shutdown

coreVars   == <<serve, ask, pending, out, writer, reader, incoming>>
pluginVars == <<stdin, owed, stdout, stderr, alive, hung>>
vars == <<coreVars, pluginVars, stopAsked>>

Serve == {"init", "select", "notify", "reply", "host", "ping", "stop",
          "grace", "reap", "drain", "flush", "over"}
Phase == {"new", "sending", "waiting", "answered", "closed", "timeout",
          "busy", "stopped"}
Line  == [kind : {"request", "answer", "notify", "reply", "say", "call"},
          id : Rid \cup {"none"}]
Plain(kind) == [kind |-> kind, id |-> "none"]
Request(r)  == [kind |-> "request", id |-> r]
Answer(r)   == [kind |-> "answer", id |-> r]
\* read_bounded_line: of a line over MAX_LINE_BYTES, an answer like any other, the
\* readers keep only that there was one, which is a message for the serving loop.
TooLong == Plain("say")

TypeOK ==
    /\ serve \in Serve
    /\ ask \in [Rid -> Phase]
    /\ pending \in SUBSET Rid
    /\ out \in Seq(Line) /\ Len(out) <= OutCap
    /\ writer \in BOOLEAN
    /\ stdin \in Seq(Line) /\ Len(stdin) <= PipeCap
    /\ owed \in SUBSET Rid
    /\ stdout \in Seq(Line) /\ Len(stdout) <= PipeCap + 1
    /\ stderr \in 0..PipeCap
    /\ reader \in {"up", "eof", "done"}
    /\ incoming \in Seq({"say", "call", "log", "eof"}) /\ Len(incoming) <= InCap
    /\ alive \in BOOLEAN
    /\ hung \in BOOLEAN
    /\ stopAsked \in BOOLEAN

--------------------------------------------------------------------------------
\* Requests: RpcClient::request, cut where it waits.

Open == [r \in Rid |-> "new"]

\* PendingMap::insert: a full map takes no entry.
Inserts(r) == Cardinality(pending) < MaxPending /\ pending' = pending \cup {r}
\* The entry in the map comes first; without it the request is refused.
Issue(r) ==
    \/ Inserts(r) /\ ask' = [ask EXCEPT ![r] = "sending"]
    \/ /\ Cardinality(pending) >= MaxPending
       /\ ask' = [ask EXCEPT ![r] = "busy"] /\ UNCHANGED pending

Init ==
    /\ serve = "init"
    /\ ask = [Open EXCEPT !["init"] = "sending"]
    /\ pending = {"init"}
    /\ out = <<>>
    /\ writer = TRUE
    /\ stdin = <<>>
    /\ owed = {}
    /\ stdout = <<>>
    /\ stderr = 0
    /\ reader = "up"
    /\ incoming = <<>>
    /\ alive = TRUE
    /\ hung = FALSE
    /\ stopAsked = FALSE

\* out_tx.send(line).await: waits for room, fails when the writer is gone.  A
\* request whose entry fail_all has removed in the meantime sees Closed.
Send(r) ==
    /\ ask[r] = "sending"
    /\ \/ /\ ~writer
          /\ ask' = [ask EXCEPT ![r] = "closed"]
          /\ pending' = pending \ {r}
          /\ UNCHANGED out
       \/ /\ writer /\ Len(out) < OutCap
          /\ out' = Append(out, Request(r))
          /\ ask' = [ask EXCEPT ![r] = IF r \in pending THEN "waiting" ELSE "closed"]
          /\ UNCHANGED pending
    /\ UNCHANGED <<serve, writer, reader, incoming, pluginVars, stopAsked>>

\* Writer task: an error of the pipe ends it and closes the channel.
Write ==
    /\ writer /\ out # <<>>
    /\ IF alive
       THEN /\ Len(stdin) < PipeCap
            /\ stdin' = Append(stdin, Head(out))
            /\ out' = Tail(out)
            /\ UNCHANGED writer
       ELSE writer' = FALSE /\ out' = <<>> /\ UNCHANGED stdin
    /\ UNCHANGED <<serve, ask, pending, reader, incoming, owed, stdout, stderr,
                   alive, hung, stopAsked>>

--------------------------------------------------------------------------------
\* The plugin (external).  It is a well-behaved peer: it answers what it reads,
\* each request once, and may write lines of its own at any time.

Writing == Len(stdout) > PipeCap

\* Unsolicited lines the core has not served yet.
IsUnsolicited(line) == line.kind \in {"say", "call"}
Unsolicited == {i \in 1..Len(stdout) : IsUnsolicited(stdout[i])}
Outstanding == Cardinality(Unsolicited) + stderr + Len(incoming)

Responsive == alive /\ ~hung

PluginReads ==
    /\ Responsive /\ stdin # <<>> /\ (Threaded \/ ~Writing)
    /\ stdin' = Tail(stdin)
    /\ owed' = IF Head(stdin).kind = "request" THEN owed \cup {Head(stdin).id}
                                               ELSE owed
    /\ UNCHANGED <<stdout, stderr, alive, hung, coreVars, stopAsked>>

PluginAnswers ==
    /\ Responsive /\ ~Writing
    /\ \E r \in owed :
           /\ owed' = owed \ {r}
           /\ \/ stdout' = Append(stdout, Answer(r))
              \/ Outstanding < Quiet /\ stdout' = Append(stdout, TooLong)
    /\ UNCHANGED <<stdin, stderr, alive, hung, coreVars, stopAsked>>

PluginSpeaks ==
    /\ Responsive /\ ~Writing /\ Outstanding < Quiet
    /\ \/ /\ \E kind \in {"say", "call"} : stdout' = Append(stdout, Plain(kind))
          /\ UNCHANGED stderr
       \/ stderr < PipeCap /\ stderr' = stderr + 1 /\ UNCHANGED stdout
    /\ UNCHANGED <<stdin, owed, alive, hung, coreVars, stopAsked>>

\* A plugin exits once it has answered shutdown, or on its own.
PluginExits ==
    /\ alive /\ (MayDie \/ (stopAsked /\ serve = "grace" /\ ~hung))
    /\ alive' = FALSE
    /\ UNCHANGED <<stdin, owed, stdout, stderr, hung, coreVars, stopAsked>>

PluginHangs ==
    /\ MayHang /\ Responsive
    /\ hung' = TRUE
    /\ UNCHANGED <<stdin, owed, stdout, stderr, alive, coreVars, stopAsked>>

--------------------------------------------------------------------------------
\* The readers.  A response completes its request directly; every other line
\* waits for room in the incoming channel, and holds up what is behind it.

Receiving == serve # "over"

\* Room in the incoming channel, or nobody who reads it.
HasRoom == ~Receiving \/ Len(incoming) < InCap

\* Mutant: a response is completed by the serving loop instead of the reader.
Takes_InLoop(line) ==
    IF line.kind = "answer" THEN serve \in {"init", "select"} ELSE HasRoom

\* What the reader of stdout can be done with, whatever the serving loop waits for.
Takes(line) == line.kind = "answer" \/ HasRoom

\* PendingMap::complete: an answer without an entry is dropped.
Complete(r) ==
    /\ pending' = pending \ {r}
    /\ ask' = IF r \in pending THEN [ask EXCEPT ![r] = "answered"] ELSE ask
ReadAnswer ==
    /\ reader = "up" /\ stdout # <<>> /\ Head(stdout).kind = "answer"
    /\ Takes(Head(stdout))
    /\ Complete(Head(stdout).id)
    /\ stdout' = Tail(stdout)
    /\ UNCHANGED <<serve, out, writer, reader, incoming, stdin, owed, stderr,
                   alive, hung, stopAsked>>

ReadLine ==
    /\ reader = "up" /\ stdout # <<>> /\ IsUnsolicited(Head(stdout))
    /\ Receiving /\ Len(incoming) < InCap
    /\ incoming' = Append(incoming, Head(stdout).kind)
    /\ stdout' = Tail(stdout)
    /\ UNCHANGED <<serve, ask, pending, out, writer, reader, stdin, owed, stderr,
                   alive, hung, stopAsked>>

\* PendingMap::fail_all: every sender is dropped, whoever waits sees Closed.
FailAll ==
    /\ ask' = [r \in Rid |-> IF r \in pending /\ ask[r] = "waiting" THEN "closed"
                                                                    ELSE ask[r]]
    /\ pending' = {}

\* End of stdout, or a receiver that is gone when there is a line to hand over.
ReadEnd ==
    /\ reader = "up"
    /\ \/ ~alive /\ stdout = <<>>
       \/ ~Receiving /\ stdout # <<>> /\ IsUnsolicited(Head(stdout))
    /\ FailAll
    /\ reader' = "eof"
    /\ UNCHANGED <<serve, out, writer, incoming, pluginVars, stopAsked>>

ReportEnd ==
    /\ reader = "eof"
    /\ \/ /\ Receiving /\ Len(incoming) < InCap
          /\ incoming' = Append(incoming, "eof")
       \/ ~Receiving /\ UNCHANGED incoming
    /\ reader' = "done"
    /\ UNCHANGED <<serve, ask, pending, out, writer, pluginVars, stopAsked>>

ReadStderr ==
    /\ stderr > 0
    /\ \/ /\ Receiving /\ Len(incoming) < InCap
          /\ incoming' = Append(incoming, "log")
       \/ ~Receiving /\ UNCHANGED incoming
    /\ stderr' = stderr - 1
    /\ UNCHANGED <<serve, ask, pending, out, writer, reader, stdin, owed, stdout,
                   alive, hung, stopAsked>>

--------------------------------------------------------------------------------
\* The serving loop.

Failed(r)   == ask[r] \in {"closed", "timeout", "busy"}
Answered(r) == ask[r] = "answered"

\* The session is entered with the answer to initialize and left when serve
\* returns; until then callers get through.
SessionUp == serve \in {"select", "notify", "reply", "host", "ping", "stop", "grace"}

ServeOnly == UNCHANGED <<ask, pending, out, writer, reader, incoming, pluginVars,
                         stopAsked>>

\* A valid reply; settings that changed meanwhile are sent once more.
Initialized ==
    /\ serve = "init" /\ Answered("init")
    /\ serve' \in {"select", "notify", "reap"}
    /\ ServeOnly

InitFailed == serve = "init" /\ Failed("init") /\ serve' = "reap" /\ ServeOnly

\* select!: a user action or new settings, handed over by the supervisor.
TakeCommand == serve = "select" /\ serve' = "notify" /\ ServeOnly

TakeShutdown ==
    /\ serve = "select" /\ stopAsked
    /\ Issue("stop")
    /\ serve' = "stop"
    /\ UNCHANGED <<out, writer, reader, incoming, pluginVars, stopAsked>>

\* select!: the next incoming message.  A call is answered at once, or first
\* waits for another service (desktop port, provider hub).
TakeIncoming ==
    /\ serve = "select" /\ incoming # <<>>
    /\ serve' \in CASE Head(incoming) = "eof"  -> {"reap"}
                    [] Head(incoming) = "call" -> {"reply", "host"}
                    [] OTHER                   -> {"select"}
    /\ incoming' = Tail(incoming)
    /\ UNCHANGED <<ask, pending, out, writer, reader, pluginVars, stopAsked>>

HostAnswers == serve = "host" /\ serve' = "reply" /\ ServeOnly

\* notify, respond: no timeout bounds the wait for room.
Put ==
    /\ serve \in {"notify", "reply"}
    /\ \/ ~writer /\ UNCHANGED out
       \/ writer /\ Len(out) < OutCap /\ out' = Append(out, Plain(serve))
    /\ serve' = "select"
    /\ UNCHANGED <<ask, pending, writer, reader, incoming, pluginVars, stopAsked>>

Tick ==
    /\ serve = "select"
    /\ Issue("ping")
    /\ serve' = "ping"
    /\ UNCHANGED <<out, writer, reader, incoming, pluginVars, stopAsked>>

Pong ==
    /\ serve = "ping" /\ Answered("ping")
    /\ ask' = [ask EXCEPT !["ping"] = "new"]
    /\ serve' = "select"
    /\ UNCHANGED <<pending, out, writer, reader, incoming, pluginVars, stopAsked>>

PingFailed == serve = "ping" /\ Failed("ping") /\ serve' = "reap" /\ ServeOnly

\* graceful_shutdown: whatever came of the request, wait for the exit.
StopReturned ==
    /\ serve = "stop" /\ (Answered("stop") \/ Failed("stop"))
    /\ serve' = "grace"
    /\ ServeOnly

\* Forwarders of provider data and desktop services send through the same
\* outgoing channel while the session lasts.
Forward ==
    /\ SessionUp /\ writer /\ Len(out) < OutCap
    /\ out' = Append(out, Plain("notify"))
    /\ UNCHANGED <<serve, ask, pending, writer, reader, incoming, pluginVars,
                   stopAsked>>

\* The end of a run: the group is killed, the readers get a moment to finish,
\* what they captured goes to the log, and the channels are dropped.
Reap ==
    /\ serve = "reap"
    /\ alive' = FALSE
    /\ serve' = "drain"
    /\ UNCHANGED <<ask, pending, out, writer, reader, incoming, stdin, owed, stdout,
                   stderr, hung, stopAsked>>

ReadersDone == serve = "drain" /\ reader = "done" /\ stderr = 0
                 /\ serve' = "flush" /\ ServeOnly

Flush ==
    /\ serve = "flush" /\ incoming # <<>>
    /\ incoming' = Tail(incoming)
    /\ UNCHANGED <<serve, ask, pending, out, writer, reader, pluginVars, stopAsked>>

Over ==
    /\ serve = "flush" /\ incoming = <<>>
    /\ serve' = "over"
    /\ writer' = FALSE /\ out' = <<>>
    /\ UNCHANGED <<ask, pending, reader, incoming, pluginVars, stopAsked>>

AskStop ==
    /\ ~stopAsked /\ serve # "over"
    /\ stopAsked' = TRUE
    /\ UNCHANGED <<coreVars, pluginVars>>

--------------------------------------------------------------------------------
\* Callers of plugin commands: PluginSupervisor::call.

Call(c) ==
    /\ SessionUp /\ ask[c] = "new"
    /\ Issue(c)
    /\ UNCHANGED <<serve, out, writer, reader, incoming, pluginVars, stopAsked>>

\* The session ends first: the request is dropped where it waits, and its
\* entry stays in the map.
Stopped(c) ==
    /\ ~SessionUp /\ ask[c] \in {"sending", "waiting"}
    /\ ask' = [ask EXCEPT ![c] = "stopped"]
    /\ UNCHANGED <<serve, pending, out, writer, reader, incoming, pluginVars,
                   stopAsked>>

--------------------------------------------------------------------------------
\* Timers.  A patient clock lets one run out only when everything that needs
\* neither a timer nor the outside has been done, so that a timeout is never
\* the fault of a slow scheduler.

PluginLeaves == alive /\ ~hung /\ serve = "grace" /\ alive' = FALSE
                  /\ UNCHANGED <<stdin, owed, stdout, stderr, hung, coreVars,
                                 stopAsked>>

Readers == ReadAnswer \/ ReadLine \/ ReadEnd \/ ReportEnd \/ ReadStderr
Loop    == \/ Initialized \/ InitFailed \/ TakeShutdown \/ TakeIncoming
           \/ HostAnswers \/ Put \/ Pong \/ PingFailed \/ StopReturned
           \/ Reap \/ ReadersDone \/ Flush \/ Over
Prompt  == \/ \E r \in Rid : Send(r)
           \/ Write \/ PluginReads \/ PluginAnswers \/ PluginLeaves
           \/ Readers \/ Loop

\* Whether any of that can be done.
LoopCanMove ==
    CASE serve \in {"init", "ping", "stop"}  -> Answered(serve) \/ Failed(serve)
      [] serve = "select"                   -> stopAsked \/ incoming # <<>>
      [] serve \in {"notify", "reply"}      -> ~writer \/ Len(out) < OutCap
      [] serve \in {"host", "reap", "flush"} -> TRUE
      [] serve = "drain"                    -> reader = "done" /\ stderr = 0
      [] OTHER                              -> FALSE
Runnable ==
    \/ \E r \in Rid : ask[r] = "sending" /\ (~writer \/ Len(out) < OutCap)
    \/ writer /\ out # <<>> /\ (alive => Len(stdin) < PipeCap)
    \/ Responsive /\ \/ stdin # <<>> /\ (Threaded \/ ~Writing)
                     \/ owed # {} /\ ~Writing
                     \/ serve = "grace"
    \/ /\ reader = "up"
       /\ IF stdout = <<>> THEN ~alive ELSE Takes(Head(stdout))
    \/ (reader = "eof" \/ stderr > 0) /\ HasRoom
    \/ LoopCanMove

Clock == ~Patient \/ ~Runnable

\* Mutant: the timeout covers the wait for the answer only.
TimeOut_Waiting(r) ==
    /\ ask[r] = "waiting" /\ Clock
    /\ ask' = [ask EXCEPT ![r] = "timeout"]
    /\ pending' = pending \ {r}
    /\ UNCHANGED <<serve, out, writer, reader, incoming, pluginVars, stopAsked>>

\* Mutant: the entry of a request that timed out stays in the map.
TimeOut_Leaks(r) ==
    /\ ask[r] \in {"sending", "waiting"} /\ Clock
    /\ ask' = [ask EXCEPT ![r] = "timeout"]
    /\ UNCHANGED <<serve, pending, out, writer, reader, incoming, pluginVars,
                   stopAsked>>

TimeOut(r) ==
    /\ ask[r] \in {"sending", "waiting"} /\ Clock
    /\ ask' = [ask EXCEPT ![r] = "timeout"]
    /\ pending' = pending \ {r}
    /\ UNCHANGED <<serve, out, writer, reader, incoming, pluginVars, stopAsked>>

\* The grace of graceful_shutdown: a voluntary exit, or a signal to the group.
GraceOver == serve = "grace" /\ (~alive \/ Clock) /\ serve' = "reap" /\ ServeOnly

DrainTimesOut == serve = "drain" /\ Clock /\ serve' = "flush" /\ ServeOnly

\* stop_handle gives up and aborts the lifecycle task; dropping the process
\* handle kills the process.
Abort ==
    /\ stopAsked /\ serve # "over" /\ Clock
    /\ serve' = "over"
    /\ alive' = FALSE
    /\ incoming' = <<>>
    /\ UNCHANGED <<ask, pending, out, writer, reader, stdin, owed, stdout, stderr,
                   hung, stopAsked>>

Timers == (\E r \in Rid : TimeOut(r)) \/ GraceOver \/ DrainTimesOut \/ Abort

Next ==
    \/ Prompt
    \/ PluginSpeaks \/ PluginExits \/ PluginHangs
    \/ TakeCommand \/ Tick \/ Forward \/ AskStop
    \/ \E c \in Caller : Call(c) \/ Stopped(c)
    \/ Timers

\* A finished run leaves nothing to do.
Spec == Init /\ [][Next]_vars

\* Tasks and timers that can go on do so; select! polls its arms at random, so
\* that a message that is there again and again is taken; the plugin is under no
\* obligation beyond answering what it reads.
Fairness ==
    /\ \A r \in Rid : WF_vars(Send(r)) /\ WF_vars(TimeOut(r))
    /\ \A c \in Caller : WF_vars(Stopped(c))
    /\ WF_vars(Write) /\ WF_vars(PluginReads) /\ WF_vars(PluginAnswers)
    /\ WF_vars(PluginLeaves)
    /\ WF_vars(ReadAnswer) /\ WF_vars(ReadLine) /\ WF_vars(ReadEnd)
    /\ WF_vars(ReportEnd) /\ WF_vars(ReadStderr)
    /\ WF_vars(Loop) /\ SF_vars(TakeIncoming)
    /\ WF_vars(GraceOver) /\ WF_vars(DrainTimesOut) /\ WF_vars(Abort)

FairSpec == Spec /\ Fairness

\* The same for the ping's interval, which select! also serves.
PingSpec == FairSpec /\ SF_vars(Tick)

--------------------------------------------------------------------------------
\* Properties.

Lines(s) == {s[i] : i \in DOMAIN s}

\* The PendingMap holds exactly the requests somebody waits for, so that an
\* answer always finds its waiter and the limit counts live requests only; a
\* request abandoned by the end of its session is the one exception
\* (rpc.rs: insert, remove, complete, fail_all).
PendingMatchesWaiters ==
    /\ \A r \in pending : ask[r] \in {"sending", "waiting", "stopped"}
    /\ \A r \in Rid : ask[r] = "waiting" /\ reader = "up" => r \in pending

\* A request whose answer the plugin has written does not time out, timers
\* being patient: nothing of the core's own keeps it from being read
\* (runner.rs: serve awaits its own requests; rpc.rs: the stdout reader).
AnswersArrive ==
    \A r \in Rid : ask[r] = "timeout" => Answer(r) \notin Lines(stdout)

\* When a run ends without being aborted, every line the plugin wrote has been
\* taken out of the channels for its log (runner.rs, the end of run_once).
OutputReachesLog ==
    [][serve = "flush" /\ serve' = "over" =>
        stderr = 0 /\ ~\E line \in Lines(stdout) : IsUnsolicited(line)]_vars

\* Once stdout has ended, nobody waits for an answer until a timeout: the
\* waiters see Closed (rpc.rs: fail_all).
ClosedIsReported ==
    [][\A r \in Rid : ask'[r] = "timeout" /\ ask[r] # "timeout" =>
           reader = "up"]_vars

\* Commands that other callers wait for do not fail the ping (runner.rs: any
\* error of the ping ends the run).
CallsDontBlockPing == ask["ping"] # "busy"

\* A caller of a command always gets some outcome (commands.rs: call).
CallsReturn ==
    \A c \in Caller : (ask[c] \in {"sending", "waiting"}) ~>
                      (ask[c] \notin {"sending", "waiting"})

\* The exit of the process is noticed, whatever the core is waiting for.
ExitIsNoticed == ~alive ~> (serve = "over")

\* A process that stays alive but does nothing any more is noticed by the ping
\* and killed (runner.rs: ping).
HangIsNoticed == hung ~> (serve = "over")

\* A stop ends the run (supervisor.rs: stop_handle; runner.rs: Shutdown).
StopEnds == stopAsked ~> (serve = "over")
================================================================================
