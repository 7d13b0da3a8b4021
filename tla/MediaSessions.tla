------------------------------ MODULE MediaSessions ------------------------------
(***************************************************************************)
(* The media players of the desktop (smabar-core/src/platform/media:       *)
(* windows.rs, winrt.rs, gsmtc.rs, linux.rs, common.rs), read once a       *)
(* second by the provider and played or paused by a plugin.                *)
(*                                                                         *)
(* On Windows one worker serves the calls in turn through a session        *)
(* manager that goes stale; on Linux every call talks to the session bus   *)
(* on its own.  Players come, go and change while a call lists them, reads *)
(* them one by one and acts.  A wait for a player takes no time or the     *)
(* whole METHOD_TIMEOUT, and time passes in no other way.                  *)
(***************************************************************************)
EXTENDS Integers, Sequences, FiniteSets

CONSTANTS MediaCall,      \* calls of the provider and of plugins
          Playing,        \* the players, each with its application
          MethodTimeout, ReplyTimeout,   \* seconds
          MediaBudgets    \* bounds: how often what may happen

MediaEvents == {"call", "open", "close", "change", "stale", "refuse", "slow"}
ASSUME MediaAssumption ==
    /\ \A p \in Playing : DOMAIN p = 1..2
    /\ MethodTimeout \in Nat \ {0} /\ ReplyTimeout \in Nat
    /\ MediaBudgets \subseteq [MediaEvents -> Nat]

VARIABLES
    host,        \* "windows" or "linux"
    players,     \* the open players, as the system lists them
    playback,    \* what each does
    manager,     \* SessionManager or bus connection: whether there is one and whether it works
    backingOff,  \* Backoff: a new manager is not asked for yet
    mediaQueue,  \* the calls that are not finished, in their order
    mediaCalls,  \* what each call asks, its step, what it has found, how long it waits
    offered,     \* the last answer: the player behind each id, and the current session
    acted,       \* the actions players received
    staleRow,    \* requests in a row that failed on a manager that had gone stale
    mediaLeft    \* bounds: the events that may still happen

worldVars == <<host, players, playback>>
mediaVars == <<worldVars, manager, backingOff, mediaQueue, mediaCalls, offered, acted, staleRow,
               mediaLeft>>

--------------------------------------------------------------------------------
App(player) == player[1]
SpendMedia(event) == mediaLeft[event] > 0 /\ mediaLeft' = [mediaLeft EXCEPT ![event] = @ - 1]
IsOpen(player) == \E i \in DOMAIN players : players[i] = player
\* MUTANT: an id is the place in the list.
SessionId_Place(listing, i) == <<"session", i>>
\* session_ids: the application, numbered where it has several; on Linux the name on the bus.
SessionId(listing, i) ==
    IF host = "linux" THEN listing[i]
    ELSE <<App(listing[i]), Cardinality({j \in 1..i : App(listing[j]) = App(listing[i])})>>
NoId == <<"none", 0>>
Behind(listing, id) == {listing[i] : i \in {j \in DOMAIN listing : SessionId(listing, j) = id}}
NoMediaCall ==
    [kind |-> "sample", asked |-> NoId, meant |-> NoId, step |-> "idle", listing |-> <<>>,
     reading |-> <<>>, next |-> 1, read |-> {}, current |-> NoId, spent |-> 0, age |-> 0,
     expired |-> FALSE]

MediaInit ==
    /\ host \in {"windows", "linux"} /\ players = <<>>
    /\ playback = [p \in Playing |-> "stopped"]
    /\ manager = "none" /\ backingOff = FALSE /\ mediaQueue = <<>>
    /\ mediaCalls = [c \in MediaCall |-> NoMediaCall]
    /\ offered = [sessions |-> {}, current |-> NoId] /\ acted = {} /\ staleRow = 0
    /\ mediaLeft \in MediaBudgets

--------------------------------------------------------------------------------
(* The desktop. *)

Untouched == UNCHANGED <<backingOff, mediaQueue, mediaCalls, offered, acted, staleRow>>
PlayerOpens ==
    /\ SpendMedia("open")
    /\ \E p \in {q \in Playing : ~IsOpen(q)} :
        players' = <<p>> \o players /\ playback' = [playback EXCEPT ![p] = "stopped"]
    /\ UNCHANGED <<host, manager>> /\ Untouched
PlayerCloses ==
    /\ SpendMedia("close")
    /\ \E i \in DOMAIN players :
        players' = SubSeq(players, 1, i - 1) \o SubSeq(players, i + 1, Len(players))
    /\ UNCHANGED <<host, playback, manager>> /\ Untouched
PlayerChanges ==
    /\ SpendMedia("change")
    /\ \E i \in DOMAIN players : \E state \in {"playing", "paused"} \ {playback[players[i]]} :
        playback' = [playback EXCEPT ![players[i]] = state]
    /\ UNCHANGED <<host, players, manager>> /\ Untouched
ManagerStale ==
    /\ SpendMedia("stale") /\ manager = "good" /\ manager' = "stale"
    /\ UNCHANGED worldVars /\ Untouched
BackoffOver ==
    /\ backingOff /\ backingOff' = FALSE
    /\ UNCHANGED <<worldVars, manager, mediaQueue, mediaCalls, offered, acted, staleRow, mediaLeft>>

--------------------------------------------------------------------------------
(* Calls and their answers. *)

\* MediaSource::sample and action: to the worker, or on their way at once.
StartCall(c) ==
    /\ SpendMedia("call") /\ mediaCalls[c].step = "idle"
    /\ \/ mediaCalls' = [mediaCalls EXCEPT ![c].step = "connect"]
       \/ \E session \in offered.sessions \cup {[id |-> NoId, player |-> NoId]} :
            mediaCalls' = [mediaCalls EXCEPT ![c] =
                [@ EXCEPT !.kind = "action", !.asked = session.id, !.meant = session.player,
                          !.step = "connect"]]
    /\ mediaQueue' = Append(mediaQueue, c)
    /\ UNCHANGED <<worldVars, manager, backingOff, offered, acted, staleRow>>

Serves(c, steps) ==
    /\ mediaCalls[c].step \in steps /\ (host = "windows" => Head(mediaQueue) = c)
    /\ UNCHANGED worldVars
\* Every call that is under way sits through a wait.
Takes(seconds) == IF seconds = 0 THEN UNCHANGED mediaLeft ELSE SpendMedia("slow")
Step(c, call, seconds) ==
    mediaCalls' = [d \in MediaCall |->
        LET moved == IF d = c THEN call ELSE mediaCalls[d]
        IN IF moved.step = "idle" THEN moved ELSE [moved EXCEPT !.age = @ + seconds]]
GoesOn(c, call, seconds) == Step(c, call, seconds) /\ UNCHANGED mediaQueue
Answer(c, seconds) ==
    Step(c, NoMediaCall, seconds) /\ mediaQueue' = SelectSeq(mediaQueue, LAMBDA d : d # c)
\* await_reply gives up, while the worker goes on with the call.
Expire(c) ==
    /\ host = "windows" /\ mediaCalls[c].step # "idle" /\ mediaCalls[c].age >= ReplyTimeout
    /\ ~mediaCalls[c].expired /\ mediaCalls' = [mediaCalls EXCEPT ![c].expired = TRUE]
    /\ UNCHANGED <<worldVars, manager, backingOff, mediaQueue, offered, acted, staleRow, mediaLeft>>

--------------------------------------------------------------------------------
(* How a call is served. *)

\* Worker::manager and request_manager; connection, which replaces one that was closed.
Connected == manager = "good" \/ (host = "windows" /\ manager = "stale")
Connect(c) ==
    /\ Serves(c, {"connect"})
    /\ \/ /\ Connected /\ GoesOn(c, [mediaCalls[c] EXCEPT !.step = "list"], 0)
          /\ UNCHANGED <<manager, backingOff, mediaLeft>>
       \/ /\ ~Connected /\ backingOff /\ Answer(c, 0)
          /\ UNCHANGED <<manager, backingOff, mediaLeft>>
       \/ /\ ~Connected /\ ~backingOff /\ manager' = "good" /\ UNCHANGED backingOff
          /\ \E seconds \in {0, MethodTimeout} :
               Takes(seconds) /\ GoesOn(c, [mediaCalls[c] EXCEPT !.step = "list"], seconds)
       \/ /\ ~Connected /\ ~backingOff /\ SpendMedia("refuse") /\ Answer(c, 0)
          /\ backingOff' = (host = "windows") /\ manager' = "none"
    /\ UNCHANGED <<offered, acted, staleRow>>

\* What a request that fails on the manager leaves: the second listing of an action that
\* names no session does not drop it.
Dropped(call) == IF host = "linux" \/ call.step = "again" THEN manager ELSE "none"
Fails(c) ==
    /\ manager = "stale" /\ manager' = Dropped(mediaCalls[c]) /\ Answer(c, 0)
    /\ staleRow' = staleRow + 1
\* enumerate, player_names, requested_session: an action that names a session acts on what has
\* the id now; one that names none reads first, on Windows from a second listing.  current_id:
\* what Windows would control is the first player of an application it names.
Found(call) ==
    IF call.kind = "action" /\ call.asked # NoId
    THEN {[call EXCEPT !.step = IF Behind(players, call.asked) = {} THEN "gone" ELSE "act",
                       !.listing = players, !.current = call.asked]}
    ELSE IF host = "linux"
    THEN {[call EXCEPT !.step = "read", !.listing = players, !.reading = players]}
    ELSE IF call.kind = "action" /\ call.step = "list"
    THEN {[call EXCEPT !.step = "again", !.listing = players]}
    ELSE {[call EXCEPT !.step = "read", !.reading = players, !.current = current] :
              current \in {NoId} \cup {<<App(players[i]), 1>> : i \in DOMAIN players}}
List(c) ==
    /\ Serves(c, {"list", "again"})
    /\ \/ Fails(c)
       \/ /\ manager = "good" /\ UNCHANGED manager /\ staleRow' = 0
          /\ \E call \in Found(mediaCalls[c]) :
               IF call.step = "gone" THEN Answer(c, 0) ELSE GoesOn(c, call, 0)
    /\ UNCHANGED <<backingOff, offered, acted, mediaLeft>>

\* One player after the other, within METHOD_TIMEOUT on Windows; one that is gone or does not
\* answer in time is skipped.
ReadPlayer(c) ==
    LET call == mediaCalls[c]
        player == call.reading[call.next]
    IN /\ Serves(c, {"read"}) /\ call.next <= Len(call.reading)
       /\ host = "windows" => call.spent < MethodTimeout
       /\ (host = "linux" => manager = "good")
       /\ \E seconds \in {0, MethodTimeout} :
            /\ Takes(seconds)
            /\ GoesOn(c, [call EXCEPT !.next = @ + 1, !.spent = @ + seconds, !.read =
                   IF IsOpen(player) /\ seconds = 0
                   THEN @ \cup {[id |-> SessionId(call.reading, call.next), player |-> player,
                                 state |-> playback[player]]}
                   ELSE @], seconds)
       /\ UNCHANGED <<manager, backingOff, offered, acted, staleRow>>
ReadBroken(c) ==
    /\ Serves(c, {"read", "act"}) /\ host = "linux" /\ Fails(c)
    /\ UNCHANGED <<backingOff, offered, acted, mediaLeft>>

\* media_data: the first that plays, else that pauses, else any; what Windows would control
\* goes first if it is among what was read.
Rank(state) == CASE state = "playing" -> 0 [] state = "paused" -> 1 [] OTHER -> 2
Preferred(call) == \E session \in call.read : session.id = call.current
CurrentOf(call) ==
    IF Preferred(call) THEN {call.current}
    ELSE IF call.read = {} THEN {NoId}
    ELSE {s.id : s \in {t \in call.read : \A u \in call.read : Rank(t.state) <= Rank(u.state)}}
ReadDone(c) ==
    LET call == mediaCalls[c]
    IN /\ Serves(c, {"read"})
       /\ call.next > Len(call.reading) \/ (host = "windows" /\ call.spent >= MethodTimeout)
       /\ \E current \in CurrentOf(call) :
            IF call.kind = "sample"
            THEN /\ Answer(c, 0)
                 /\ offered' = IF call.expired THEN offered
                      ELSE [current |-> current, sessions |->
                            {[id |-> s.id, player |-> s.player] : s \in call.read}]
            ELSE /\ UNCHANGED offered
                 /\ IF Behind(call.listing, current) = {} THEN Answer(c, 0)
                    ELSE GoesOn(c, [call EXCEPT !.step = "act", !.current = current], 0)
       /\ UNCHANGED <<manager, backingOff, acted, staleRow, mediaLeft>>

\* The player that had the id when the call listed them, if it is still there.
Act(c) ==
    LET call == mediaCalls[c]
    IN /\ Serves(c, {"act"}) /\ (host = "linux" => manager = "good")
       /\ \E seconds \in {0, MethodTimeout} : Takes(seconds) /\ Answer(c, seconds)
       /\ acted' = acted \cup {[player |-> p, meant |-> call.meant, expired |-> call.expired] :
                                  p \in {q \in Behind(call.listing, call.current) : IsOpen(q)}}
       /\ UNCHANGED <<manager, backingOff, offered, staleRow>>

--------------------------------------------------------------------------------
MediaNext ==
    \/ PlayerOpens \/ PlayerCloses \/ PlayerChanges \/ ManagerStale \/ BackoffOver
    \/ \E c \in MediaCall :
        \/ StartCall(c) \/ Expire(c) \/ Connect(c) \/ List(c)
        \/ ReadPlayer(c) \/ ReadBroken(c) \/ ReadDone(c) \/ Act(c)

MediaSpec == MediaInit /\ [][MediaNext]_mediaVars

--------------------------------------------------------------------------------
MediaTypeOK ==
    /\ host \in {"windows", "linux"} /\ manager \in {"none", "good", "stale"}
    /\ backingOff \in BOOLEAN /\ playback \in [Playing -> {"playing", "paused", "stopped"}]
    /\ staleRow \in Nat

\* An action on a session of an answer reaches a player of that session's application, on
\* Linux the very player, whatever opened and closed since; and the current session of an
\* answer is one of its sessions.
ActionsFindTheirPlayer ==
    /\ \A a \in acted : a.meant # NoId =>
          App(a.player) = App(a.meant) /\ (host = "linux" => a.player = a.meant)
    /\ offered.sessions # {} => \E s \in offered.sessions : s.id = offered.current
\* A manager that went stale fails at most two requests before a new one is asked for.
StaleManagerIsReplaced == host = "windows" => staleRow <= 2

\* "Enumeration failing means the manager itself is stale; the next request asks Windows for a
\* fresh one": no second request fails.
NextRequestIsFresh == host = "windows" => staleRow <= 1
\* "This only ever fires for a wedged thread": with every wait within its bound, no reply
\* comes too late.
InTimeUnlessWedged == \A c \in MediaCall : ~mediaCalls[c].expired
\* No action takes place after its plugin was told that it timed out.
TimedOutIsOver == \A a \in acted : ~a.expired
\* "Two tabs of one browser can swap ids between samples".
TheVeryPlayer == \A a \in acted : a.meant # NoId => a.player = a.meant
================================================================================
