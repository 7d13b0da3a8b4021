------------------------------ MODULE AudioPlayback ------------------------------
(***************************************************************************)
(* Sounds that plugins play (smabar/src/platform/audio.rs with the gains   *)
(* of smabar-core/src/config/audio.rs): one worker takes requests from a   *)
(* bounded queue, opens the output for the first playback and closes it    *)
(* after the last, and looks after each request at what has ended, failed, *)
(* lost its session or is to sound louder.                                 *)
(*                                                                         *)
(* A playback belongs to one session of its plugin and has an id the       *)
(* plugin chose; the same id replaces what it plays.  Callers give up      *)
(* after five seconds, also while a file is decoded, and what is told to a *)
(* plugin is told by a task of its own.                                    *)
(***************************************************************************)
EXTENDS Integers, Sequences, FiniteSets

CONSTANTS AudioSession,      \* sessions of plugins: <<plugin, generation>>
          PlaybackId, AudioRequest,
          QueueLimit, PluginLimit, TotalLimit,
          PlaybackBudgets    \* bounds: how often what may happen

PlaybackEvents == {"play", "control", "end", "fail", "gone", "expire", "mute", "broken"}
ASSUME PlaybackAssumption ==
    /\ QueueLimit \in Nat /\ PluginLimit \in Nat /\ TotalLimit \in Nat
    /\ PlaybackBudgets \subseteq [PlaybackEvents -> Nat]

VARIABLES
    requests,      \* Request: whose, what, which playback, and what its caller knows
    requestQueue,  \* the bounded channel
    player,        \* the worker's step and the request it serves
    tracks,        \* tracks: key, whether over, gain, the output it plays on
    ends,          \* history: how each key's last playback ended
    wronged,       \* playbacks ended for a failure of another output than theirs
    device,        \* the output that is open, its count, and the mark of its error callback
    alive,         \* sessions that have not ended
    muted,         \* AudioConfig: what each plugin is muted to
    counts,        \* how many playbacks of each key were told to start, and to end
    playbackLeft   \* bounds: the events that may still happen

playbackVars == <<requests, requestQueue, player, tracks, ends, wronged, device, alive, muted, counts,
                  playbackLeft>>

--------------------------------------------------------------------------------
SpendPlayback(event) ==
    playbackLeft[event] > 0 /\ playbackLeft' = [playbackLeft EXCEPT ![event] = @ - 1]
Key == AudioSession \X PlaybackId
Track(key) == {t \in tracks : t.key = key}
NoRequest == [key |-> CHOOSE k \in Key : TRUE, method |-> "none", state |-> "new"]
Rest == [step |-> "idle", request |-> "none", failed |-> FALSE]
\* gain
Gain(session) == IF session[1] \in muted THEN 0 ELSE 1

PlaybackInit ==
    /\ requests = [r \in AudioRequest |-> NoRequest] /\ requestQueue = <<>> /\ player = Rest
    /\ tracks = {} /\ wronged = {} /\ ends = [k \in Key |-> "none"] /\ alive = AudioSession /\ muted = {}
    /\ device = [open |-> FALSE, number |-> 0, failed |-> FALSE, broken |-> {}]
    /\ counts = [k \in Key |-> [started |-> 0, ended |-> 0]]
    /\ playbackLeft \in PlaybackBudgets

--------------------------------------------------------------------------------
(* Plugins, their callers, the device and the user. *)

\* AudioService::request
Request(r) ==
    /\ requests[r].state = "new"
    /\ \E key \in Key, method \in {"play", "stop", "pause", "resume"} :
        /\ key[1] \in alive /\ SpendPlayback(IF method = "play" THEN "play" ELSE "control")
        /\ requests' = [requests EXCEPT ![r] = [key |-> key, method |-> method, state |->
                            IF Len(requestQueue) < QueueLimit THEN "waiting" ELSE "refused"]]
        /\ requestQueue' = IF Len(requestQueue) < QueueLimit THEN Append(requestQueue, r)
                           ELSE requestQueue
    /\ UNCHANGED <<player, tracks, ends, wronged, device, alive, muted, counts>>
CallerGivesUp(r) ==
    /\ SpendPlayback("expire") /\ requests[r].state = "waiting"
    /\ requests' = [requests EXCEPT ![r].state = "expired"]
    /\ UNCHANGED <<requestQueue, player, tracks, ends, wronged, device, alive, muted, counts>>
SessionEnds ==
    /\ SpendPlayback("gone") /\ \E s \in alive : alive' = alive \ {s}
    /\ UNCHANGED <<requests, requestQueue, player, tracks, ends, wronged, device, muted, counts>>
Mute ==
    /\ SpendPlayback("mute") /\ \E s \in AudioSession : muted' = muted \cup {s[1]}
    /\ UNCHANGED <<requests, requestQueue, player, tracks, ends, wronged, device, alive, counts>>
PlaysOut ==
    /\ SpendPlayback("end")
    /\ \E t \in tracks : t.plays /\ tracks' = (tracks \ {t}) \cup {[t EXCEPT !.over = TRUE]}
    /\ UNCHANGED <<requests, requestQueue, player, ends, wronged, device, alive, muted, counts>>
\* The error callback of the open output.
DeviceFails ==
    /\ SpendPlayback("fail") /\ device.open /\ device' = [device EXCEPT !.failed = TRUE, !.broken = @ \cup {device.number}]
    /\ UNCHANGED <<requests, requestQueue, player, tracks, ends, wronged, alive, muted, counts>>

--------------------------------------------------------------------------------
(* The worker. *)

GivenUp(r) == requests[r].key[1] \notin alive \/ requests[r].state = "expired"
Reply(r, state) ==
    requests' = IF requests[r].state = "waiting" THEN [requests EXCEPT ![r].state = state]
                ELSE requests
\* finish and event: told to the plugin, once each.
Counted(key, starts, finishes) ==
    counts' = [counts EXCEPT ![key] = [started |-> @.started + starts, ended |-> @.ended + finishes]]

Take ==
    /\ player.step = "idle" /\ requestQueue # <<>> /\ requestQueue' = Tail(requestQueue)
    /\ player' = [player EXCEPT !.request = Head(requestQueue), !.step =
           IF GivenUp(Head(requestQueue)) THEN "refresh" ELSE "handle"]
    /\ IF GivenUp(Head(requestQueue)) THEN Reply(Head(requestQueue), "failed")
       ELSE UNCHANGED requests
    /\ UNCHANGED <<tracks, ends, wronged, device, alive, muted, counts, playbackLeft>>
\* The queue has been empty for 100 ms.
Poll ==
    /\ player.step = "idle" /\ requestQueue = <<>> /\ player' = [player EXCEPT !.step = "refresh"]
    /\ tracks # {} \/ device.failed \/ device.open
    /\ UNCHANGED <<requests, requestQueue, tracks, ends, wronged, device, alive, muted, counts, playbackLeft>>

Control ==
    LET r == player.request
        key == requests[r].key
        method == requests[r].method
    IN /\ player.step = "handle" /\ method # "play"
       /\ player' = [player EXCEPT !.step = "refresh"]
       /\ IF method = "stop"
          THEN /\ tracks' = tracks \ Track(key) /\ Reply(r, "done")
               /\ ends' = IF Track(key) = {} THEN ends ELSE [ends EXCEPT ![key] = "stopped"]
               /\ Counted(key, 0, Cardinality(Track(key)))
          ELSE /\ Reply(r, IF Track(key) = {} THEN "failed" ELSE "done")
               /\ tracks' = (tracks \ Track(key)) \cup
                      {[t EXCEPT !.plays = (method = "resume")] : t \in Track(key)}
               /\ UNCHANGED <<ends, counts>>
       /\ UNCHANGED <<requestQueue, wronged, device, alive, muted, playbackLeft>>

\* play: within the limits; the file is opened and decoded, and so is the output.
Full(key) ==
    /\ Track(key) = {}
    /\ \/ Cardinality(tracks) >= TotalLimit
       \/ Cardinality({t \in tracks : t.key[1][1] = key[1][1]}) >= PluginLimit
Decode ==
    LET r == player.request
    IN /\ player.step = "handle" /\ requests[r].method = "play"
       /\ \/ /\ ~Full(requests[r].key) /\ player' = [player EXCEPT !.step = "start"]
             /\ device' = IF device.open THEN device
                          ELSE [device EXCEPT !.open = TRUE, !.number = @ + 1]
             /\ UNCHANGED <<requests, playbackLeft>>
          \/ /\ IF Full(requests[r].key) THEN UNCHANGED playbackLeft ELSE SpendPlayback("broken")
             /\ Reply(r, "failed") /\ player' = [player EXCEPT !.step = "refresh"]
             /\ UNCHANGED device
       /\ UNCHANGED <<requestQueue, tracks, ends, wronged, alive, muted, counts>>
\* MUTANT: what the id played before is replaced without a word.
Replaced_Silently(key) == 0
Replaced(key) == Cardinality(Track(key))
Start ==
    LET r == player.request
        key == requests[r].key
    IN /\ player.step = "start" /\ player' = [player EXCEPT !.step = "refresh"]
       /\ IF GivenUp(r) THEN Reply(r, "failed") /\ UNCHANGED <<tracks, ends, counts>>
          ELSE /\ tracks' = (tracks \ Track(key)) \cup
                      {[key |-> key, plays |-> TRUE, over |-> FALSE, gain |-> Gain(key[1]),
                        device |-> device.number]}
               /\ ends' = [ends EXCEPT ![key] = "none"]
               /\ Counted(key, 1, Replaced(key)) /\ Reply(r, "done")
       /\ UNCHANGED <<requestQueue, wronged, device, alive, muted, playbackLeft>>

\* refresh: the mark of the callback is taken, then everything is looked at.
TakeMark ==
    /\ player.step = "refresh" /\ player' = [player EXCEPT !.step = "sweep", !.failed = device.failed]
    /\ device' = [device EXCEPT !.failed = FALSE]
    /\ UNCHANGED <<requests, requestQueue, tracks, ends, wronged, alive, muted, counts, playbackLeft>>
Finished(t) == player.failed \/ t.over \/ t.key[1] \notin alive
How(t) ==
    IF player.failed THEN "error" ELSE IF t.key[1] \notin alive THEN "stopped" ELSE "ended"
Sweep ==
    LET finished == {t \in tracks : Finished(t)}
        kept == {[t EXCEPT !.gain = Gain(t.key[1])] : t \in tracks \ finished}
    IN /\ player.step = "sweep" /\ player' = Rest /\ tracks' = kept
       /\ ends' = [k \in Key |-> IF Track(k) \cap finished = {} THEN ends[k]
                                ELSE How(CHOOSE t \in finished : t.key = k)]
       /\ wronged' = wronged \cup {t.key : t \in {u \in finished :
                        player.failed /\ u.device \notin device.broken}}
       /\ counts' = [k \in Key |-> [counts[k] EXCEPT !.ended =
                        @ + Cardinality({t \in finished : t.key = k})]]
       /\ device' = [device EXCEPT !.open = @ /\ kept # {} /\ ~player.failed]
       /\ UNCHANGED <<requests, requestQueue, alive, muted, playbackLeft>>

--------------------------------------------------------------------------------
PlaybackNext ==
    \/ \E r \in AudioRequest : Request(r) \/ CallerGivesUp(r)
    \/ SessionEnds \/ Mute \/ PlaysOut \/ DeviceFails
    \/ Take \/ Poll \/ Control \/ Decode \/ Start \/ TakeMark \/ Sweep

PlaybackSpec == PlaybackInit /\ [][PlaybackNext]_playbackVars

--------------------------------------------------------------------------------
PlaybackTypeOK ==
    /\ \A t \in tracks : t.key \in Key /\ t.gain \in {0, 1} /\ t.device \in 1..device.number
    /\ \A r \in AudioRequest : requests[r].state \in
           {"new", "waiting", "refused", "expired", "done", "failed"}

\* A plugin is told the start and the end of each playback once, whether it stops it, replaces
\* it, plays it to its end, loses the output or its session; and audio.status never takes an
\* earlier end for the playback that sounds, which always has an output.
EveryPlaybackEndsOnce ==
    \A k \in Key : /\ counts[k].started - counts[k].ended = Cardinality(Track(k))
                   /\ Track(k) # {} => ends[k] = "none" /\ device.open

\* Only the failure of its own output ends a playback with an error.
ErrorsAreTheirOwn == wronged = {}
================================================================================
