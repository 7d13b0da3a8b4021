------------------------------ MODULE Core_proofs ------------------------------
(* The running program: audio, media, settings, pins, samplers and the catalog. *)
EXTENDS AudioPlayback, SystemAudio, MediaSessions, ProviderHub, StoreCatalog, ConfigThemes,
        Shortcuts, FiniteSetTheorems, TLAPS

--------------------------------------------------------------------------------
(****************************************************************************)
(* AudioPlayback.  A plugin is told the start and the end of each of its     *)
(* playbacks once, for any sessions, ids, requests and limits.               *)
(****************************************************************************)

IsTrack(t) ==
    t = [key |-> t.key, plays |-> t.plays, over |-> t.over, gain |-> t.gain, device |-> t.device]
Tally == [Key -> [started : Int, ended : Int]]
Ends == {"none", "stopped", "error", "ended"}

\* The values of the state that the promise depends on.
PlaybackShape ==
    /\ counts \in Tally /\ ends \in [Key -> Ends]
    /\ device \in [open : BOOLEAN, number : Int, failed : BOOLEAN, broken : SUBSET Int]
    /\ player = [step |-> player.step, request |-> player.request, failed |-> player.failed]
    /\ player.failed \in BOOLEAN
    /\ \A t \in tracks : IsTrack(t)

\* Nothing is played twice under one key.
OneTrackPerKey == \A t, u \in tracks : t.key = u.key => t = u

\* As many playbacks of a key have started as have ended, but for the one that sounds.
Sounding(k) == IF Track(k) = {} THEN 0 ELSE 1
Balanced == \A k \in Key : counts[k].started - counts[k].ended = Sounding(k)

\* What sounds has not ended, and has an output; so has what is about to start.
OnAir ==
    /\ \A k \in Key : Track(k) # {} => ends[k] = "none" /\ device.open
    /\ player.step = "start" => device.open

PlaybackInv == PlaybackShape /\ OneTrackPerKey /\ Balanced /\ OnAir

LEMMA PlaybackInitInv == PlaybackInit => PlaybackInv
  BY DEF PlaybackInit, PlaybackInv, PlaybackShape, Tally, OneTrackPerKey, Balanced, OnAir, Sounding, Track, Rest, Ends

\* A set in which all are equal has at most one member.
LEMMA AtMostOne ==
    ASSUME NEW S, \A x, y \in S : x = y PROVE Cardinality(S) = IF S = {} THEN 0 ELSE 1
<1>1. CASE S = {}
  BY <1>1, FS_EmptySet
<1>2. CASE S # {}
  <2>1. PICK x \in S : TRUE
    BY <1>2
  <2>2. S = {x}
    BY <2>1
  <2> QED
    BY <1>2, <2>2, FS_Singleton
<1> QED
  BY <1>1, <1>2

LEMMA TracksOfKey == ASSUME OneTrackPerKey, NEW k PROVE Cardinality(Track(k)) = Sounding(k)
<1>1. \A t, u \in Track(k) : t = u
  BY DEF OneTrackPerKey, Track
<1> QED
  BY <1>1, AtMostOne DEF Sounding

\* One key is told of starts and ends.
LEMMA Counting ==
    ASSUME counts \in Tally, NEW k, NEW s \in Int, NEW e \in Int, Counted(k, s, e)
    PROVE  /\ counts' \in Tally
           /\ \A j \in Key : counts'[j].started - counts'[j].ended =
                  counts[j].started - counts[j].ended + IF j = k THEN s - e ELSE 0
<1>1. counts' = [counts EXCEPT ![k] = [started |-> counts[k].started + s, ended |-> counts[k].ended + e]]
  BY DEF Counted
<1>2. \A j \in Key : counts[j].started \in Int /\ counts[j].ended \in Int
  BY DEF Tally
<1>3. counts' \in Tally
  <2>1. CASE k \in Key
    <3>1. [started |-> counts[k].started + s, ended |-> counts[k].ended + e] \in [started : Int, ended : Int]
      BY <1>2, <2>1
    <3> QED
      BY <1>1, <3>1 DEF Tally
  <2>2. CASE k \notin Key
    BY <1>1, <2>2 DEF Tally
  <2> QED
    BY <2>1, <2>2
<1>4. ASSUME NEW j \in Key
      PROVE  counts'[j].started - counts'[j].ended =
                 counts[j].started - counts[j].ended + IF j = k THEN s - e ELSE 0
  <2>1. CASE j = k
    <3>1. counts'[j].started = counts[j].started + s /\ counts'[j].ended = counts[j].ended + e
      BY <1>1, <2>1 DEF Tally
    <3> QED
      BY <1>2, <2>1, <3>1
  <2>2. CASE j # k
    <3>1. counts'[j] = counts[j]
      BY <1>1, <2>2 DEF Tally
    <3> QED
      BY <1>2, <2>2, <3>1
  <2> QED
    BY <2>1, <2>2
<1> QED
  BY <1>3, <1>4

\* Tracks that only change how they sound.
LEMMA SameTracksKeep ==
    ASSUME PlaybackInv, UNCHANGED <<ends, counts>>, PlaybackShape',
           \A t \in tracks' : \E u \in tracks : t.key = u.key,
           \A u \in tracks : \E t \in tracks' : t.key = u.key,
           OneTrackPerKey', device.open => device'.open,
           player'.step = "start" => device'.open
    PROVE  PlaybackInv'
<1>1. \A k \in Key : Track(k)' = {} <=> Track(k) = {}
  BY DEF Track
<1> QED
  BY <1>1 DEF PlaybackInv, Balanced, OnAir, Sounding

\* Plugins, callers, the device and the user; the worker between two playbacks.
LEMMA AsideKeeps ==
    ASSUME PlaybackInv, UNCHANGED <<tracks, ends, counts>>, PlaybackShape', device.open => device'.open,
           player'.step = "start" => device'.open
    PROVE  PlaybackInv'
  BY SameTracksKeep DEF PlaybackInv, OneTrackPerKey

LEMMA OutsideKeeps ==
    ASSUME PlaybackInv,
           \/ \E r \in AudioRequest : Request(r) \/ CallerGivesUp(r)
           \/ SessionEnds \/ Mute \/ DeviceFails \/ Take \/ Poll \/ Decode \/ TakeMark
    PROVE  PlaybackInv'
<1>1. UNCHANGED <<tracks, ends, counts>>
  BY DEF Request, CallerGivesUp, SessionEnds, Mute, DeviceFails, Take, Poll, Decode, TakeMark
<1>2. CASE \/ \E r \in AudioRequest : Request(r) \/ CallerGivesUp(r)
           \/ SessionEnds \/ Mute
  <2>1. UNCHANGED <<player, device>>
    BY <1>2 DEF Request, CallerGivesUp, SessionEnds, Mute
  <2> QED
    BY <1>1, <2>1, AsideKeeps DEF PlaybackInv, PlaybackShape, OnAir
<1>3. CASE DeviceFails
  BY <1>1, <1>3, AsideKeeps DEF DeviceFails, PlaybackInv, PlaybackShape, OnAir
<1>4. CASE Take
  <2>1. player' = [player EXCEPT !.request = player'.request, !.step = player'.step]
        /\ player'.step \in {"refresh", "handle"} /\ device' = device
    BY <1>4 DEF Take, PlaybackInv, PlaybackShape
  <2> QED
    BY <1>1, <2>1, AsideKeeps DEF PlaybackInv, PlaybackShape
<1>5. CASE Poll
  BY <1>1, <1>5, AsideKeeps DEF Poll, PlaybackInv, PlaybackShape
<1>6. CASE Decode
  <2>1. \/ player' = [player EXCEPT !.step = "start"]
           /\ device' = IF device.open THEN device ELSE [device EXCEPT !.open = TRUE, !.number = @ + 1]
        \/ player' = [player EXCEPT !.step = "refresh"] /\ device' = device
    BY <1>6 DEF Decode
  <2>2. player'.step = "start" => device'.open
    BY <2>1 DEF PlaybackInv, PlaybackShape
  <2>3. device' \in [open : BOOLEAN, number : Int, failed : BOOLEAN, broken : SUBSET Int]
        /\ (device.open => device'.open)
    <3>1. device \in [open : BOOLEAN, number : Int, failed : BOOLEAN, broken : SUBSET Int]
          /\ device.number + 1 \in Int
      BY DEF PlaybackInv, PlaybackShape
    <3>2. device' = device \/ device' = [device EXCEPT !.open = TRUE, !.number = device.number + 1]
      BY <2>1
    <3> QED
      BY <3>1, <3>2
  <2>4. PlaybackShape'
    BY <1>1, <2>1, <2>3 DEF PlaybackInv, PlaybackShape
  <2> QED
    BY <1>1, <2>2, <2>3, <2>4, AsideKeeps
<1>7. CASE TakeMark
  BY <1>1, <1>7, AsideKeeps DEF TakeMark, PlaybackInv, PlaybackShape
<1> QED
  BY <1>2, <1>3, <1>4, <1>5, <1>6, <1>7

LEMMA PlaysOutKeeps == ASSUME PlaybackInv, PlaysOut PROVE PlaybackInv'
<1> DEFINE Over(u) == [u EXCEPT !.over = TRUE]
<1>1. PICK t \in tracks : tracks' = (tracks \ {t}) \cup {Over(t)}
  BY DEF PlaysOut
<1>2. UNCHANGED <<player, ends, device, counts>>
  BY DEF PlaysOut
<1>3. \A u \in tracks : IsTrack(Over(u)) /\ Over(u).key = u.key
  <2>1. \A u \in tracks, b \in BOOLEAN : IsTrack([u EXCEPT !.over = b]) /\ [u EXCEPT !.over = b].key = u.key
    BY DEF PlaybackInv, PlaybackShape, IsTrack
  <2> HIDE DEF Over
  <2>2. \A u : Over(u) = [u EXCEPT !.over = TRUE]
    BY DEF Over
  <2> QED
    BY <2>1, <2>2, Zenon
<1> HIDE DEF Over
<1>4. PlaybackShape'
  BY <1>1, <1>2, <1>3 DEF PlaybackInv, PlaybackShape
<1>5. OneTrackPerKey'
  BY <1>1, <1>3 DEF PlaybackInv, OneTrackPerKey
<1> QED
  BY <1>1, <1>2, <1>3, <1>4, <1>5, SameTracksKeep DEF PlaybackInv, OnAir

\* A key loses what it plays: it is told of one end more if there was something.
LEMMA ControlKeeps == ASSUME PlaybackInv, Control PROVE PlaybackInv'
<1> DEFINE key == requests[player.request].key
           Heard(t) == [t EXCEPT !.plays = (requests[player.request].method = "resume")]
<1>1. player' = [player EXCEPT !.step = "refresh"] /\ device' = device
  BY DEF Control
<1>2. CASE tracks' = tracks \ Track(key)
           /\ ends' = (IF Track(key) = {} THEN ends ELSE [ends EXCEPT ![key] = "stopped"])
           /\ Counted(key, 0, Cardinality(Track(key)))
  <2>1. Cardinality(Track(key)) = Sounding(key)
    BY TracksOfKey DEF PlaybackInv
  <2>2. \A k \in Key : Track(k)' = IF k = key THEN {} ELSE Track(k)
    BY <1>2 DEF Track
  <2>3. Counted(key, 0, Sounding(key))
    BY <1>2, <2>1
  <2>4. Sounding(key) \in {0, 1}
    BY DEF Sounding
  <2> HIDE DEF key
  <2>5. PlaybackShape' /\ OneTrackPerKey'
    <3>1. counts' \in Tally
      BY <2>3, <2>4, Counting DEF PlaybackInv, PlaybackShape
    <3>2. ends' \in [Key -> Ends]
      BY <1>2 DEF PlaybackInv, PlaybackShape, Ends
    <3> QED
      BY <1>1, <1>2, <3>1, <3>2 DEF PlaybackInv, PlaybackShape, OneTrackPerKey
  <2>6. Balanced'
    <3>1. \A j \in Key : counts'[j].started - counts'[j].ended =
              counts[j].started - counts[j].ended + IF j = key THEN 0 - Sounding(key) ELSE 0
      BY <2>3, <2>4, Counting DEF PlaybackInv, PlaybackShape
    <3> QED
      BY <2>2, <2>4, <3>1 DEF PlaybackInv, Balanced, Sounding
  <2>7. OnAir'
    BY <1>1, <1>2, <2>2 DEF PlaybackInv, PlaybackShape, OnAir
  <2> QED
    BY <2>5, <2>6, <2>7 DEF PlaybackInv
<1>3. CASE tracks' = (tracks \ Track(key)) \cup {Heard(t) : t \in Track(key)} /\ UNCHANGED <<ends, counts>>
  <2>1. \A t \in tracks : IsTrack(Heard(t)) /\ Heard(t).key = t.key
    BY DEF PlaybackInv, PlaybackShape, IsTrack
  <2> HIDE DEF Heard, key
  <2>2. PlaybackShape'
    BY <1>1, <1>3, <2>1 DEF PlaybackInv, PlaybackShape, Track
  <2>3. OneTrackPerKey'
    BY <1>3, <2>1 DEF PlaybackInv, OneTrackPerKey, Track
  <2>4. /\ \A t \in tracks' : \E u \in tracks : t.key = u.key
        /\ \A u \in tracks : \E t \in tracks' : t.key = u.key
    BY <1>3, <2>1 DEF Track
  <2> QED
    BY <1>1, <1>3, <2>2, <2>3, <2>4, SameTracksKeep DEF PlaybackInv, PlaybackShape
<1> QED
  BY <1>2, <1>3 DEF Control

\* A playback starts, in the place of what its key played before.
LEMMA StartKeeps == ASSUME PlaybackInv, Start PROVE PlaybackInv'
<1> DEFINE key == requests[player.request].key
           new == [key |-> key, plays |-> TRUE, over |-> FALSE, gain |-> Gain(key[1]), device |-> device.number]
<1>1. player' = [player EXCEPT !.step = "refresh"] /\ device' = device /\ device.open
  BY DEF Start, PlaybackInv, OnAir
<1>2. CASE UNCHANGED <<tracks, ends, counts>>
  BY <1>1, <1>2, AsideKeeps DEF PlaybackInv, PlaybackShape
<1>3. CASE /\ tracks' = (tracks \ Track(key)) \cup {new} /\ ends' = [ends EXCEPT ![key] = "none"]
           /\ Counted(key, 1, Replaced(key))
  <2>1. Replaced(key) = Sounding(key) /\ Sounding(key) \in {0, 1}
    BY TracksOfKey DEF PlaybackInv, Replaced, Sounding
  <2>2. Counted(key, 1, Sounding(key))
    BY <1>3, <2>1
  <2>3. IsTrack(new) /\ new.key = key
    BY DEF IsTrack
  <2> HIDE DEF key, new
  <2>4. \A k \in Key : Track(k)' = IF k = key THEN {new} ELSE Track(k)
    BY <1>3, <2>3 DEF Track
  <2>5. PlaybackShape'
    <3>1. counts' \in Tally
      BY <2>1, <2>2, Counting DEF PlaybackInv, PlaybackShape
    <3>2. ends' \in [Key -> Ends]
      BY <1>3 DEF PlaybackInv, PlaybackShape, Ends
    <3> QED
      BY <1>1, <1>3, <2>3, <3>1, <3>2 DEF PlaybackInv, PlaybackShape
  <2>6. OneTrackPerKey'
    BY <1>3, <2>3 DEF PlaybackInv, OneTrackPerKey, Track
  <2>7. Balanced'
    <3>1. \A j \in Key : counts'[j].started - counts'[j].ended =
              counts[j].started - counts[j].ended + IF j = key THEN 1 - Sounding(key) ELSE 0
      BY <2>1, <2>2, Counting DEF PlaybackInv, PlaybackShape
    <3> QED
      BY <2>1, <2>4, <3>1 DEF PlaybackInv, Balanced, Sounding
  <2>8. OnAir'
    BY <1>1, <1>3, <2>4 DEF PlaybackInv, PlaybackShape, OnAir
  <2> QED
    BY <2>5, <2>6, <2>7, <2>8 DEF PlaybackInv
<1> QED
  BY <1>2, <1>3 DEF Start

\* The sweep ends what is finished, once each, and closes the output after the last.
LEMMA SweepKeeps == ASSUME PlaybackInv, Sweep PROVE PlaybackInv'
<1> DEFINE finished == {t \in tracks : Finished(t)}
           Tuned(t) == [t EXCEPT !.gain = Gain(t.key[1])]
           kept == {Tuned(t) : t \in tracks \ finished}
<1>1. /\ player' = Rest /\ tracks' = kept
      /\ ends' = [k \in Key |-> IF Track(k) \cap finished = {} THEN ends[k]
                                ELSE How(CHOOSE t \in finished : t.key = k)]
      /\ counts' = [k \in Key |-> [counts[k] EXCEPT !.ended = @ + Cardinality({t \in finished : t.key = k})]]
      /\ device' = [device EXCEPT !.open = @ /\ kept # {} /\ ~player.failed]
  BY DEF Sweep
<1>2. \A t \in tracks : IsTrack(Tuned(t)) /\ Tuned(t).key = t.key
  BY DEF PlaybackInv, PlaybackShape, IsTrack
<1>3. \A t : How(t) \in Ends
  BY DEF How, Ends
<1>4. \A k \in Key : {t \in finished : t.key = k} = Track(k) \cap finished
  BY DEF Track
<1>5. \A k \in Key : Cardinality(Track(k) \cap finished) = IF Track(k) \cap finished = {} THEN 0 ELSE 1
  <2>1. \A k \in Key : \A t, u \in Track(k) \cap finished : t = u
    BY DEF PlaybackInv, OneTrackPerKey, Track
  <2> QED
    BY <2>1, AtMostOne
<1>6. player.failed => finished = tracks
  BY DEF Finished
<1> HIDE DEF Tuned, finished
<1>7. \A k \in Key : Track(k)' = {} <=> Track(k) \subseteq finished
  BY <1>1, <1>2 DEF Track
<1>8. \A k \in Key : Track(k) \cap finished # {} => Track(k) \subseteq finished
  BY DEF PlaybackInv, OneTrackPerKey, Track
<1> DEFINE done(k) == IF Track(k) \cap finished = {} THEN 0 ELSE 1
<1>9. /\ counts' \in Tally
      /\ \A k \in Key : counts'[k].started - counts'[k].ended = counts[k].started - counts[k].ended - done(k)
  <2>1. \A k \in Key : Cardinality({t \in finished : t.key = k}) = done(k) /\ done(k) \in Int
    BY <1>4, <1>5
  <2> HIDE DEF done
  <2>2. counts' = [k \in Key |-> [counts[k] EXCEPT !.ended = @ + done(k)]]
    BY <1>1, <2>1
  <2>3. ASSUME NEW k \in Key
        PROVE  /\ counts'[k] \in [started : Int, ended : Int]
               /\ counts'[k].started = counts[k].started /\ counts'[k].ended = counts[k].ended + done(k)
               /\ counts[k].started \in Int /\ counts[k].ended \in Int
    <3>1. counts[k] \in [started : Int, ended : Int] /\ done(k) \in Int
      BY <2>1 DEF PlaybackInv, PlaybackShape, Tally
    <3>2. counts'[k] = [counts[k] EXCEPT !.ended = counts[k].ended + done(k)]
      BY <2>2
    <3> QED
      BY <3>1, <3>2
  <2>4. counts' \in Tally
    BY <2>2, <2>3 DEF Tally
  <2>5. ASSUME NEW k \in Key
        PROVE  counts'[k].started - counts'[k].ended = counts[k].started - counts[k].ended - done(k)
    <3>1. /\ counts'[k].started = counts[k].started /\ counts'[k].ended = counts[k].ended + done(k)
          /\ counts[k].started \in Int /\ counts[k].ended \in Int /\ done(k) \in Int
      BY <2>1, <2>3
    <3> QED
      BY <3>1
  <2> QED
    BY <2>4, <2>5
<1>10. PlaybackShape'
  <2>1. counts' \in Tally
    BY <1>9
  <2>2. ends' \in [Key -> Ends]
    BY <1>1, <1>3 DEF PlaybackInv, PlaybackShape
  <2>3. device' \in [open : BOOLEAN, number : Int, failed : BOOLEAN, broken : SUBSET Int]
    BY <1>1 DEF PlaybackInv, PlaybackShape
  <2>4. \A t \in tracks' : IsTrack(t)
    BY <1>1, <1>2
  <2>5. player' = Rest /\ Rest = [step |-> "idle", request |-> "none", failed |-> FALSE]
    BY <1>1 DEF Rest
  <2> QED
    BY <2>1, <2>2, <2>3, <2>4, <2>5 DEF PlaybackShape
<1>11. OneTrackPerKey'
  BY <1>1, <1>2 DEF PlaybackInv, OneTrackPerKey
<1>12. Balanced'
  BY <1>7, <1>8, <1>9 DEF PlaybackInv, Balanced, Sounding
<1>13. OnAir'
  <2>1. ASSUME NEW k \in Key, Track(k)' # {} PROVE ends'[k] = "none" /\ device'.open
    <3>1. Track(k) \cap finished = {} /\ Track(k) # {}
      BY <1>7, <1>8, <2>1
    <3>2. ends'[k] = "none" /\ device.open /\ ~player.failed
      BY <1>1, <1>6, <3>1 DEF PlaybackInv, OnAir, Track
    <3>3. kept # {}
      BY <1>1, <2>1 DEF Track
    <3> QED
      BY <1>1, <3>2, <3>3 DEF PlaybackInv, PlaybackShape
  <2> QED
    BY <1>1, <2>1 DEF OnAir, Rest
<1> QED
  BY <1>10, <1>11, <1>12, <1>13 DEF PlaybackInv

\* Starts and ends are told once each, and what sounds has not ended (audio.rs, AudioWorker).
THEOREM PlaybackCorrect == PlaybackSpec => []EveryPlaybackEndsOnce
<1>1. PlaybackInv /\ [PlaybackNext]_playbackVars => PlaybackInv'
  <2> SUFFICES ASSUME PlaybackInv, [PlaybackNext]_playbackVars PROVE PlaybackInv'
    OBVIOUS
  <2>1. CASE PlaybackNext
    BY <2>1, OutsideKeeps, PlaysOutKeeps, ControlKeeps, StartKeeps, SweepKeeps DEF PlaybackNext
  <2>2. CASE UNCHANGED playbackVars
    BY <2>2, AsideKeeps DEF playbackVars, PlaybackInv, PlaybackShape, OnAir
  <2> QED
    BY <2>1, <2>2
<1>2. PlaybackInv => EveryPlaybackEndsOnce
  BY TracksOfKey DEF PlaybackInv, Balanced, OnAir, EveryPlaybackEndsOnce
<1> QED
  BY <1>1, <1>2, PlaybackInitInv, PTL DEF PlaybackSpec

--------------------------------------------------------------------------------
(****************************************************************************)
(* SystemAudio.  Whatever changes after the worker's last look leaves a      *)
(* mark, for the mark is cleared before the worker looks, and everything     *)
(* that changes the output while the connection stands sets it.              *)
(****************************************************************************)

AudioForms ==
    /\ DOMAIN audioWorker = {"step", "output", "command"} /\ DOMAIN soundServer = {"up", "connected"}
    /\ dirty \in BOOLEAN

\* What the worker found is the output as it is, unless it is marked.
LookedAt ==
    soundServer.connected /\ ~dirty =>
        /\ audioWorker.step \in {"loop", "target", "set"} => snapshot = Reading(outputs.default)
        /\ audioWorker.step = "sink" => audioWorker.output = outputs.default
WaitsInFailure == audioWorker.step = "pause" => snapshot = Failure

AudioInv == AudioForms /\ LookedAt /\ WaitsInFailure

LEMMA AudioInvInit == AudioInit => AudioInv
  BY DEF AudioInit, AudioInv, AudioForms, LookedAt, WaitsInFailure, Idle

\* The desktop's doings: a change leaves a mark where anyone would see it.
LEMMA DesktopKeeps ==
    ASSUME AudioInv, SwitchOutput \/ TurnKnob \/ Outage \/ ServerReturns
    PROVE  AudioInv'
<1>1. CASE SwitchOutput \/ TurnKnob
  <2>1. dirty' = (dirty \/ soundServer.connected) /\ UNCHANGED <<soundServer, audioWorker, snapshot>>
    BY <1>1 DEF SwitchOutput, TurnKnob, Changed
  <2> QED
    BY <2>1 DEF AudioInv, AudioForms, LookedAt, WaitsInFailure
<1>2. CASE Outage
  <2>1. soundServer' = [up |-> FALSE, connected |-> FALSE] /\ UNCHANGED <<audioWorker, dirty, snapshot>>
    BY <1>2 DEF Outage
  <2> QED
    BY <2>1 DEF AudioInv, AudioForms, LookedAt, WaitsInFailure
<1>3. CASE ServerReturns
  <2>1. soundServer' = [soundServer EXCEPT !.up = TRUE] /\ UNCHANGED <<outputs, audioWorker, dirty, snapshot>>
    BY <1>3 DEF ServerReturns
  <2>2. DOMAIN soundServer' = {"up", "connected"} /\ soundServer'.connected = soundServer.connected
    BY <2>1 DEF AudioInv, AudioForms
  <2> QED
    BY <2>1, <2>2 DEF AudioInv, AudioForms, LookedAt, WaitsInFailure, Reading
<1> QED
  BY <1>1, <1>2, <1>3

LEMMA CallersKeep ==
    ASSUME AudioInv, NEW c \in AudioCommand, SendCommand(c) \/ DeadlinePasses(c) \/ GiveUp(c)
    PROVE  AudioInv'
<1>1. UNCHANGED <<outputs, soundServer, audioWorker, dirty, snapshot>>
  BY DEF SendCommand, DeadlinePasses, GiveUp
<1> QED
  BY <1>1 DEF AudioInv, AudioForms, LookedAt, WaitsInFailure, Reading

LEMMA Gone ==
    ASSUME AudioInv, NEW s, Goes(s)
    PROVE  /\ DOMAIN audioWorker' = {"step", "output", "command"}
           /\ audioWorker'.step = s /\ audioWorker'.output = audioWorker.output
  BY DEF AudioInv, AudioForms, Goes

LEMMA AfterForm ==
    ASSUME NEW success \in BOOLEAN
    PROVE  DOMAIN After(success) = {"step", "output", "command"} /\ After(success).step \in {"loop", "read"}
  BY DEF After, Idle

LEMMA ConnectionKeeps ==
    ASSUME AudioInv, ConnectServer \/ Pause \/ Refuse \/ ConnectionLost
    PROVE  AudioInv'
<1>1. CASE ConnectServer
  <2> DEFINE s == IF soundServer.up THEN "read" ELSE "pause"
  <2>1. DOMAIN audioWorker' = {"step", "output", "command"} /\ audioWorker'.step = s
    BY <1>1, Gone DEF ConnectServer
  <2>2. /\ DOMAIN soundServer' = {"up", "connected"} /\ dirty' \in BOOLEAN
        /\ soundServer.up \/ snapshot' = Failure
    BY <1>1 DEF ConnectServer, AudioInv, AudioForms
  <2> QED
    BY <2>1, <2>2 DEF AudioInv, AudioForms, LookedAt, WaitsInFailure
<1>2. CASE Pause \/ Refuse
  <2>1. DOMAIN audioWorker' = {"step", "output", "command"} /\ audioWorker'.step = "connect"
    BY <1>2, Gone DEF Pause, Refuse
  <2>2. UNCHANGED <<soundServer, dirty>>
    BY <1>2 DEF Pause, Refuse
  <2> QED
    BY <2>1, <2>2 DEF AudioInv, AudioForms, LookedAt, WaitsInFailure
<1>3. CASE ConnectionLost
  <2>1. DOMAIN audioWorker' = {"step", "output", "command"} /\ audioWorker'.step = "pause"
    BY <1>3, Gone DEF ConnectionLost
  <2>2. UNCHANGED <<soundServer, dirty>> /\ snapshot' = Failure
    BY <1>3 DEF ConnectionLost
  <2> QED
    BY <2>1, <2>2 DEF AudioInv, AudioForms, LookedAt, WaitsInFailure
<1> QED
  BY <1>1, <1>2, <1>3

LEMMA ReadingKeeps ==
    ASSUME AudioInv, ReadName \/ ReadOutput \/ ReadFails \/ TakeDirty
    PROVE  AudioInv'
<1>1. CASE ReadName
  <2>1. /\ audioWorker' = [audioWorker EXCEPT !.step = "sink", !.output = outputs.default]
        /\ UNCHANGED <<outputs, soundServer, dirty, snapshot>>
    BY <1>1 DEF ReadName
  <2>2. DOMAIN audioWorker' = {"step", "output", "command"} /\ audioWorker'.step = "sink" /\ audioWorker'.output = outputs.default
    BY <2>1 DEF AudioInv, AudioForms
  <2> QED
    BY <2>1, <2>2 DEF AudioInv, AudioForms, LookedAt, WaitsInFailure
<1>2. CASE ReadOutput
  <2>1. /\ audioWorker.step = "sink" /\ audioWorker' = Idle /\ snapshot' = Reading(audioWorker.output)
        /\ dirty' = dirty /\ UNCHANGED <<outputs, soundServer>>
    BY <1>2 DEF ReadOutput, WorkerAt, Unmarked, Clears, AudioInv, AudioForms
  <2>2. DOMAIN audioWorker' = {"step", "output", "command"} /\ audioWorker'.step = "loop"
    BY <2>1 DEF Idle
  <2> QED
    BY <2>1, <2>2 DEF AudioInv, AudioForms, LookedAt, WaitsInFailure, Reading
<1>3. CASE ReadFails
  <2>1. audioWorker' = Idle /\ ~soundServer.connected /\ UNCHANGED <<soundServer, dirty>>
    BY <1>3 DEF ReadFails
  <2>2. DOMAIN audioWorker' = {"step", "output", "command"} /\ audioWorker'.step = "loop"
    BY <2>1 DEF Idle
  <2> QED
    BY <2>1, <2>2 DEF AudioInv, AudioForms, LookedAt, WaitsInFailure
<1>4. CASE TakeDirty
  <2>1. DOMAIN audioWorker' = {"step", "output", "command"} /\ audioWorker'.step = "read"
    BY <1>4, Gone DEF TakeDirty
  <2>2. UNCHANGED soundServer /\ dirty' \in BOOLEAN
    BY <1>4 DEF TakeDirty, Unmarked
  <2> QED
    BY <2>1, <2>2 DEF AudioInv, AudioForms, LookedAt, WaitsInFailure
<1> QED
  BY <1>1, <1>2, <1>3, <1>4

\* A command that is refused or too late leaves the worker where it was, in what it knows.
LEMMA ServedKeeps ==
    ASSUME AudioInv, DOMAIN audioWorker' = {"step", "output", "command"},
           audioWorker.step \in {"loop", "target", "set"}, audioWorker'.step \in {"loop", "target", "set", "read"},
           UNCHANGED <<soundServer, snapshot>>, dirty' \in BOOLEAN, dirty => dirty', outputs' # outputs => dirty'
    PROVE  AudioInv'
<1>1. soundServer'.connected /\ ~dirty' => soundServer.connected /\ ~dirty /\ outputs' = outputs
  OBVIOUS
<1> QED
  BY <1>1 DEF AudioInv, AudioForms, LookedAt, WaitsInFailure, Reading

LEMMA CommandsKeep ==
    ASSUME AudioInv, TakeCommand \/ Target \/ SetOutput \/ SetFails
    PROVE  AudioInv'
<1>0. /\ audioWorker.step \in {"loop", "target", "set"} /\ UNCHANGED <<soundServer, snapshot>>
      /\ dirty \in BOOLEAN
  BY DEF TakeCommand, Target, SetOutput, SetFails, WorkerAt, AudioInv, AudioForms
<1>1. \/ \E success \in BOOLEAN : audioWorker' = After(success)
      \/ \E c : audioWorker' = [Idle EXCEPT !.step = "target", !.command = c]
      \/ audioWorker' = [audioWorker EXCEPT !.step = "set", !.output = outputs.default]
  <2>1. CASE SetOutput
    <3>1. (~commands[audioWorker.command].late) \in BOOLEAN
      OBVIOUS
    <3> QED
      BY <2>1, <3>1 DEF SetOutput
  <2> QED
    BY <2>1 DEF TakeCommand, Target, SetFails
<1>2. DOMAIN audioWorker' = {"step", "output", "command"} /\ audioWorker'.step \in {"loop", "target", "set", "read"}
  <2>1. ASSUME NEW c PROVE /\ DOMAIN [Idle EXCEPT !.step = "target", !.command = c] = {"step", "output", "command"}
                           /\ [Idle EXCEPT !.step = "target", !.command = c].step = "target"
    BY DEF Idle
  <2> QED
    BY <1>1, <2>1, AfterForm DEF AudioInv, AudioForms
<1>3. dirty' \in BOOLEAN /\ (dirty => dirty') /\ (outputs' # outputs => dirty')
  BY <1>0 DEF TakeCommand, Target, SetOutput, SetFails
<1> QED
  BY <1>0, <1>2, <1>3, ServedKeeps

LEMMA AudioInvNext == AudioInv /\ [AudioNext]_audioVars => AudioInv'
<1> SUFFICES ASSUME AudioInv, [AudioNext]_audioVars PROVE AudioInv'
  OBVIOUS
<1>1. CASE AudioNext
  BY <1>1, DesktopKeeps, CallersKeep, ConnectionKeeps, ReadingKeeps, CommandsKeep DEF AudioNext
<1>2. CASE UNCHANGED audioVars
  BY <1>2 DEF audioVars, AudioInv, AudioForms, LookedAt, WaitsInFailure, Reading
<1> QED
  BY <1>1, <1>2

\* When the audio worker has nothing left to do its snapshot is the output as it is, whatever was
\* switched, turned or set while it read; while it waits for the server, a failure
\* (audio/linux.rs, run).
THEOREM SnapshotsCatchUp == AudioSpec => []SnapshotCatchesUp
<1>1. AudioInv => SnapshotCatchesUp
  BY DEF AudioInv, LookedAt, WaitsInFailure, SnapshotCatchesUp, WorkerAt
<1> QED
  BY AudioInvInit, AudioInvNext, <1>1, PTL DEF AudioSpec

--------------------------------------------------------------------------------
(****************************************************************************)
(* MediaSessions.  An id stands for one player for as long as smabar runs,   *)
(* and a call carries the id it was asked for: what finds a player by it     *)
(* finds that one.                                                           *)
(****************************************************************************)

MediaSteps == {"idle", "connect", "list", "again", "read", "act"}
\* An id that stands for a player on this platform.
StandsFor(id, p) == IF host = "linux" THEN id = p
                    ELSE \E n \in Nat \ {0} : id = <<App(p), n>>
Sessions(found) == \A s \in found : StandsFor(s.id, s.player)

\* A call that names a session acts on that session and reads nothing; what a call has read
\* carries its id.
MediaCallFits(call) ==
    /\ DOMAIN call = {"kind", "asked", "meant", "step", "listing", "reading", "next", "read", "current",
                      "spent", "age", "expired"}
    /\ call.step \in MediaSteps /\ call.next \in Nat \ {0} /\ call.listing \in Seq(Playing)
    /\ \/ call.asked = NoId /\ call.meant = NoId
       \/ StandsFor(call.asked, call.meant)
    /\ call.kind = "action" /\ call.asked # NoId =>
           call.step \notin {"again", "read"} /\ (call.step = "act" => call.current = call.asked)
    /\ call.meant # NoId => call.kind = "action" /\ call.asked # NoId
    /\ Sessions(call.read)

MediaInv ==
    /\ DOMAIN mediaCalls = MediaCall /\ host \in {"windows", "linux"} /\ players \in Seq(Playing)
    /\ \A c \in MediaCall : MediaCallFits(mediaCalls[c])
    /\ Sessions(offered.sessions) /\ ActionsFindTheirPlayer

LEMMA ZeroIsNoNumber == ASSUME NEW n \in Nat \ {0}, NEW a PROVE <<a, n>> # NoId
  BY DEF NoId

LEMMA NoCallFits == ASSUME host \in {"windows", "linux"} PROVE MediaCallFits(NoMediaCall)
  BY DEF MediaCallFits, NoMediaCall, MediaSteps, Sessions

LEMMA MediaInvInit == ASSUME MediaInit PROVE MediaInv
<1>1. \A c \in MediaCall : MediaCallFits(mediaCalls[c])
  BY NoCallFits DEF MediaInit
<1>2. Sessions(offered.sessions) /\ ActionsFindTheirPlayer
  BY DEF MediaInit, Sessions, ActionsFindTheirPlayer
<1> QED
  BY <1>1, <1>2 DEF MediaInit, MediaInv

\* Ids carry their player.
LEMMA IdStands ==
    ASSUME host \in {"windows", "linux"}, NEW listing, NEW i \in Nat \ {0}
    PROVE  StandsFor(SessionId(listing, i), listing[i])
<1>1. CASE host = "linux"
  BY <1>1 DEF SessionId, StandsFor
<1>2. CASE host # "linux"
  <2> DEFINE S == {j \in 1 .. i : App(listing[j]) = App(listing[i])}
             n == Cardinality(S)
  <2>1. IsFiniteSet(1 .. i)
    BY FS_Interval
  <2>2. S \subseteq 1 .. i /\ i \in S
    OBVIOUS
  <2>3. IsFiniteSet(S) /\ n \in Nat /\ n # 0
    BY <2>1, <2>2, FS_Subset, FS_CardinalityType, FS_EmptySet
  <2>4. SessionId(listing, i) = <<App(listing[i]), n>>
    BY <1>2 DEF SessionId
  <2> QED
    BY <1>2, <2>3, <2>4 DEF StandsFor
<1> QED
  BY <1>1, <1>2

\* What has the id that stands for a player is of its application.
LEMMA FoundIsOf ==
    ASSUME host \in {"windows", "linux"}, NEW listing, DOMAIN listing \subseteq Nat \ {0}, NEW id, NEW p, NEW q,
           StandsFor(id, p), q \in Behind(listing, id)
    PROVE  App(q) = App(p) /\ (host = "linux" => q = p)
<1>1. PICK i \in DOMAIN listing : q = listing[i] /\ SessionId(listing, i) = id
  BY DEF Behind
<1>2. StandsFor(id, q)
  BY <1>1, IdStands
<1> QED
  BY <1>2 DEF StandsFor

\* Steps that change neither the calls nor what they are for.
LEMMA MediaAside ==
    ASSUME MediaInv, UNCHANGED <<host, mediaCalls, offered, acted>>,
           players' \in Seq(Playing)
    PROVE  MediaInv'
  BY DEF MediaInv, MediaCallFits, Sessions, StandsFor, ActionsFindTheirPlayer

\* What time does to a call.
LEMMA Ages ==
    ASSUME NEW call, MediaCallFits(call), NEW n
    PROVE  MediaCallFits([call EXCEPT !.age = n])
  BY DEF MediaCallFits, Sessions

LEMMA Expires ==
    ASSUME NEW call, MediaCallFits(call)
    PROVE  MediaCallFits([call EXCEPT !.expired = TRUE])
  BY DEF MediaCallFits, Sessions

LEMMA BecomesAction ==
    ASSUME NEW call, MediaCallFits(call), NEW id, NEW p, (id = NoId /\ p = NoId) \/ StandsFor(id, p),
           p # NoId => id # NoId
    PROVE  MediaCallFits([call EXCEPT !.kind = "action", !.asked = id, !.meant = p, !.step = "connect"])
<1> DEFINE r == [call EXCEPT !.kind = "action", !.asked = id, !.meant = p, !.step = "connect"]
<1>1. /\ r.kind = "action" /\ r.asked = id /\ r.meant = p /\ r.step = "connect" /\ r.next = call.next
      /\ r.listing = call.listing /\ r.read = call.read
  BY DEF MediaCallFits
<1>2. DOMAIN r = DOMAIN call
  OBVIOUS
<1> HIDE DEF r
<1>3. MediaCallFits(r)
  BY <1>1, <1>2 DEF MediaCallFits, MediaSteps, Sessions
<1> QED
  BY <1>3 DEF r

\* A step of one call; the others only grow older.
LEMMA CallsFit ==
    ASSUME MediaInv, NEW c \in MediaCall, NEW call, MediaCallFits(call), NEW seconds, Step(c, call, seconds)
    PROVE  DOMAIN mediaCalls' = MediaCall /\ \A d \in MediaCall : MediaCallFits(mediaCalls'[d])
<1>1. ASSUME NEW d \in MediaCall PROVE MediaCallFits(mediaCalls'[d])
  <2> DEFINE moved == IF d = c THEN call ELSE mediaCalls[d]
             n == moved.age + seconds
  <2>1. mediaCalls'[d] = IF moved.step = "idle" THEN moved ELSE [moved EXCEPT !.age = n]
    BY DEF Step
  <2>2. MediaCallFits(moved)
    BY DEF MediaInv
  <2> HIDE DEF moved, n
  <2> QED
    BY <2>1, <2>2, Ages
<1> QED
  BY <1>1 DEF Step

LEMMA GoesOnKeeps ==
    ASSUME MediaInv, NEW c \in MediaCall, NEW call, MediaCallFits(call), NEW seconds, Step(c, call, seconds),
           UNCHANGED <<host, players, offered, acted>>
    PROVE  MediaInv'
<1>1. DOMAIN mediaCalls' = MediaCall /\ \A d \in MediaCall : MediaCallFits(mediaCalls'[d])
  BY CallsFit
<1>2. \A d \in MediaCall : MediaCallFits(mediaCalls[d])'
  BY <1>1 DEF MediaCallFits, Sessions, StandsFor
<1> QED
  BY <1>1, <1>2 DEF MediaInv, Sessions, StandsFor, ActionsFindTheirPlayer

\* The desktop.
LEMMA DesktopKeepsMedia ==
    ASSUME MediaInv, PlayerOpens \/ PlayerCloses \/ PlayerChanges \/ ManagerStale \/ BackoffOver
    PROVE  MediaInv'
<1>1. players \in Seq(Playing)
  BY DEF MediaInv
<1>2. players' \in Seq(Playing)
  <2>1. CASE PlayerOpens
    <3>1. PICK p \in Playing : players' = <<p>> \o players
      BY <2>1 DEF PlayerOpens
    <3> QED
      BY <1>1, <3>1
  <2>2. CASE PlayerCloses
    <3>1. PICK i \in DOMAIN players :
              players' = SubSeq(players, 1, i - 1) \o SubSeq(players, i + 1, Len(players))
      BY <2>2 DEF PlayerCloses
    <3>2. SubSeq(players, 1, i - 1) \in Seq(Playing) /\ SubSeq(players, i + 1, Len(players)) \in Seq(Playing)
      BY <1>1
    <3> QED
      BY <3>1, <3>2
  <2>3. CASE PlayerChanges \/ ManagerStale \/ BackoffOver
    BY <1>1, <2>3 DEF PlayerChanges, ManagerStale, BackoffOver, worldVars
  <2> QED
    BY <2>1, <2>2, <2>3
<1>3. UNCHANGED <<host, mediaCalls, offered, acted>>
  BY DEF PlayerOpens, PlayerCloses, PlayerChanges, ManagerStale, BackoffOver, worldVars, Untouched
<1> QED
  BY <1>2, <1>3, MediaAside

\* Calls begin and expire.
LEMMA MediaCallsBegin ==
    ASSUME MediaInv, NEW c \in MediaCall, StartCall(c) \/ Expire(c)
    PROVE  MediaInv'
<1>0. MediaCallFits(mediaCalls[c]) /\ UNCHANGED <<host, players, offered, acted>>
  BY DEF MediaInv, StartCall, Expire, worldVars
<1>1. ASSUME NEW call, MediaCallFits(call), mediaCalls' = [mediaCalls EXCEPT ![c] = call] PROVE MediaInv'
  <2>1. \A d \in MediaCall : MediaCallFits(mediaCalls'[d])
    BY <1>1 DEF MediaInv
  <2>2. \A d \in MediaCall : MediaCallFits(mediaCalls[d])'
    BY <1>0, <2>1 DEF MediaCallFits, Sessions, StandsFor
  <2> QED
    BY <1>0, <1>1, <2>2 DEF MediaInv, Sessions, StandsFor, ActionsFindTheirPlayer
<1>2. CASE Expire(c)
  <2>1. MediaCallFits([mediaCalls[c] EXCEPT !.expired = TRUE])
    BY <1>0, Expires
  <2> QED
    BY <1>1, <1>2, <2>1 DEF Expire
<1>3. CASE mediaCalls[c].step = "idle" /\ mediaCalls' = [mediaCalls EXCEPT ![c].step = "connect"]
  <2>1. MediaCallFits([mediaCalls[c] EXCEPT !.step = "connect"])
    BY <1>0 DEF MediaCallFits, MediaSteps, Sessions
  <2> QED
    BY <1>1, <1>3, <2>1
<1>4. ASSUME NEW session \in offered.sessions \cup {[id |-> NoId, player |-> NoId]},
             mediaCalls' = [mediaCalls EXCEPT ![c] =
                [@ EXCEPT !.kind = "action", !.asked = session.id, !.meant = session.player,
                          !.step = "connect"]]
      PROVE  MediaInv'
  <2> DEFINE id == session.id  p == session.player
  <2>1. (id = NoId /\ p = NoId) \/ StandsFor(id, p)
    BY <1>4 DEF MediaInv, Sessions
  <2>2. p # NoId => id # NoId
    BY <2>1, ZeroIsNoNumber DEF StandsFor
  <2>3. mediaCalls' = [mediaCalls EXCEPT ![c] =
            [mediaCalls[c] EXCEPT !.kind = "action", !.asked = id, !.meant = p, !.step = "connect"]]
    BY <1>4
  <2> HIDE DEF id, p
  <2>4. MediaCallFits([mediaCalls[c] EXCEPT !.kind = "action", !.asked = id, !.meant = p, !.step = "connect"])
    BY <1>0, <2>1, <2>2, BecomesAction
  <2> QED
    BY <1>1, <2>3, <2>4
<1> QED
  BY <1>2, <1>3, <1>4 DEF StartCall

\* The answer of a call without an effect.
LEMMA AnswerKeepsMedia ==
    ASSUME MediaInv, NEW c \in MediaCall, NEW seconds, Answer(c, seconds),
           UNCHANGED <<host, players, offered, acted>>
    PROVE  MediaInv'
  BY NoCallFits, GoesOnKeeps DEF Answer, MediaInv

LEMMA ConnectKeeps == ASSUME MediaInv, NEW c \in MediaCall, Connect(c) PROVE MediaInv'
<1>0. /\ MediaCallFits(mediaCalls[c]) /\ mediaCalls[c].step = "connect"
      /\ UNCHANGED <<host, players, offered, acted>>
  BY DEF MediaInv, Connect, Serves, worldVars
<1>1. MediaCallFits([mediaCalls[c] EXCEPT !.step = "list"])
  BY <1>0 DEF MediaCallFits, MediaSteps, Sessions
<1>2. \E seconds : Answer(c, seconds) \/ Step(c, [mediaCalls[c] EXCEPT !.step = "list"], seconds)
  BY DEF Connect, GoesOn
<1> QED
  BY <1>0, <1>1, <1>2, AnswerKeepsMedia, GoesOnKeeps

\* What a listing makes of a call.
LEMMA ListedFits ==
    ASSUME NEW call, MediaCallFits(call), call.step \in {"list", "again"}, players \in Seq(Playing),
           NEW next \in Found(call), next.step # "gone"
    PROVE  MediaCallFits(next)
<1>1. CASE call.kind = "action" /\ call.asked # NoId
  <2>1. next = [call EXCEPT !.step = "act", !.listing = players, !.current = call.asked]
    <3>1. next = [call EXCEPT !.step = IF Behind(players, call.asked) = {} THEN "gone" ELSE "act",
                              !.listing = players, !.current = call.asked]
      BY <1>1 DEF Found
    <3>2. CASE Behind(players, call.asked) = {}
      <4>1. next.step = "gone"
        BY <3>1, <3>2 DEF MediaCallFits
      <4> QED
        BY <4>1
    <3> QED
      BY <3>1, <3>2
  <2> QED
    BY <2>1 DEF MediaCallFits, MediaSteps, Sessions
<1>2. CASE ~(call.kind = "action" /\ call.asked # NoId)
  <2>1. \/ next = [call EXCEPT !.step = "read", !.listing = players, !.reading = players]
        \/ next = [call EXCEPT !.step = "again", !.listing = players]
        \/ \E current : next = [call EXCEPT !.step = "read", !.reading = players, !.current = current]
    BY <1>2 DEF Found
  <2>2. CASE next = [call EXCEPT !.step = "read", !.listing = players, !.reading = players]
    BY <1>2, <2>2 DEF MediaCallFits, MediaSteps, Sessions
  <2>3. CASE next = [call EXCEPT !.step = "again", !.listing = players]
    BY <1>2, <2>3 DEF MediaCallFits, MediaSteps, Sessions
  <2>4. ASSUME NEW current, next = [call EXCEPT !.step = "read", !.reading = players, !.current = current]
        PROVE  MediaCallFits(next)
    BY <1>2, <2>4 DEF MediaCallFits, MediaSteps, Sessions
  <2> QED
    BY <2>1, <2>2, <2>3, <2>4
<1> QED
  BY <1>1, <1>2

LEMMA ListKeeps ==
    ASSUME MediaInv, NEW c \in MediaCall, List(c) \/ ReadBroken(c)
    PROVE  MediaInv'
<1>0. MediaCallFits(mediaCalls[c]) /\ UNCHANGED <<host, players, offered, acted>> /\ players \in Seq(Playing)
  BY DEF MediaInv, List, ReadBroken, Serves, worldVars
<1>1. CASE Fails(c)
  BY <1>0, <1>1, AnswerKeepsMedia DEF Fails
<1>2. CASE List(c) /\ ~Fails(c)
  <2>1. mediaCalls[c].step \in {"list", "again"}
    BY <1>2 DEF List, Serves
  <2>2. PICK call \in Found(mediaCalls[c]) : IF call.step = "gone" THEN Answer(c, 0) ELSE GoesOn(c, call, 0)
    BY <1>2 DEF List
  <2>3. CASE call.step = "gone"
    BY <1>0, <2>2, <2>3, AnswerKeepsMedia
  <2>4. CASE call.step # "gone"
    <3>1. MediaCallFits(call)
      BY <1>0, <2>1, <2>4, ListedFits
    <3> QED
      BY <1>0, <2>2, <2>4, <3>1, GoesOnKeeps DEF GoesOn
  <2> QED
    BY <2>3, <2>4
<1> QED
  BY <1>1, <1>2 DEF ReadBroken

\* A player that was read.
LEMMA ReadFits ==
    ASSUME NEW call, MediaCallFits(call), NEW spent, NEW read, Sessions(read)
    PROVE  MediaCallFits([call EXCEPT !.next = call.next + 1, !.spent = spent, !.read = read])
  BY DEF MediaCallFits

LEMMA ReadKeepsMedia == ASSUME MediaInv, NEW c \in MediaCall, ReadPlayer(c) PROVE MediaInv'
<1>0. /\ MediaCallFits(mediaCalls[c]) /\ UNCHANGED <<host, players, offered, acted>>
      /\ host \in {"windows", "linux"}
  BY DEF MediaInv, ReadPlayer, Serves, worldVars
<1> DEFINE call == mediaCalls[c]
           who == call.reading[call.next]
           row == [id |-> SessionId(call.reading, call.next), player |-> who, state |-> playback[who]]
<1>1. PICK seconds : GoesOn(c, [call EXCEPT !.next = @ + 1, !.spent = @ + seconds, !.read =
                   IF IsOpen(who) /\ seconds = 0 THEN @ \cup {row} ELSE @], seconds)
  BY DEF ReadPlayer
<1>2. StandsFor(row.id, row.player) /\ Sessions(call.read)
  BY <1>0, IdStands DEF MediaCallFits
<1>3. PICK read : /\ read = IF IsOpen(who) /\ seconds = 0 THEN call.read \cup {row} ELSE call.read
  OBVIOUS
<1>4. PICK spent : spent = call.spent + seconds
  OBVIOUS
<1>5. Sessions(read)
  <2> HIDE DEF row, call
  <2> QED
    BY <1>2, <1>3 DEF Sessions
<1>6. Step(c, [call EXCEPT !.next = call.next + 1, !.spent = spent, !.read = read], seconds)
  BY <1>1, <1>3, <1>4 DEF GoesOn
<1> HIDE DEF row, who
<1> QED
  BY <1>0, <1>5, <1>6, ReadFits, GoesOnKeeps

LEMMA CurrentIsRead ==
    ASSUME NEW call, NEW current \in CurrentOf(call), call.read # {}
    PROVE  \E s \in call.read : s.id = current
  BY DEF CurrentOf, Preferred

LEMMA ReadDoneKeeps == ASSUME MediaInv, NEW c \in MediaCall, ReadDone(c) PROVE MediaInv'
<1> DEFINE call == mediaCalls[c]
<1>0. /\ MediaCallFits(call) /\ UNCHANGED <<host, players, acted>> /\ call.step = "read"
  BY DEF MediaInv, ReadDone, Serves, worldVars
<1>1. CASE call.kind = "sample"
  <2>1. PICK current \in CurrentOf(call) :
             /\ Answer(c, 0)
             /\ offered' = IF call.expired THEN offered
                      ELSE [current |-> current, sessions |->
                            {[id |-> s.id, player |-> s.player] : s \in call.read}]
    BY <1>1 DEF ReadDone
  <2>2. DOMAIN mediaCalls' = MediaCall /\ \A d \in MediaCall : MediaCallFits(mediaCalls'[d])
    BY <2>1, NoCallFits, CallsFit DEF Answer, MediaInv
  <2>3. \A d \in MediaCall : MediaCallFits(mediaCalls[d])'
    BY <1>0, <2>2 DEF MediaCallFits, Sessions, StandsFor
  <2>4. Sessions(offered'.sessions)
    BY <1>0, <2>1 DEF MediaCallFits, Sessions, MediaInv
  <2>5. offered'.sessions # {} => \E s \in offered'.sessions : s.id = offered'.current
    <3>1. CASE call.expired
      BY <2>1, <3>1 DEF MediaInv, ActionsFindTheirPlayer
    <3>2. CASE ~call.expired /\ call.read # {}
      <4>1. PICK s \in call.read : s.id = current
        BY <2>1, <3>2, CurrentIsRead
      <4>2. [id |-> s.id, player |-> s.player] \in offered'.sessions /\ offered'.current = current
        BY <2>1, <3>2
      <4> QED
        BY <4>1, <4>2
    <3>3. CASE ~call.expired /\ call.read = {}
      BY <2>1, <3>3
    <3> QED
      BY <3>1, <3>2, <3>3
  <2> QED
    BY <1>0, <2>2, <2>3, <2>4, <2>5 DEF MediaInv, Sessions, StandsFor, ActionsFindTheirPlayer
<1>2. CASE call.kind # "sample"
  <2>1. PICK current : \/ Answer(c, 0)
                      \/ GoesOn(c, [call EXCEPT !.step = "act", !.current = current], 0)
    BY <1>2 DEF ReadDone
  <2>2. UNCHANGED offered
    BY <1>2 DEF ReadDone
  <2>3. MediaCallFits([call EXCEPT !.step = "act", !.current = current])
    <3> HIDE DEF call
    <3> QED
      BY <1>0 DEF MediaCallFits, MediaSteps, Sessions
  <2> HIDE DEF call
  <2> QED
    BY <1>0, <2>1, <2>2, <2>3, AnswerKeepsMedia, GoesOnKeeps DEF GoesOn
<1> QED
  BY <1>1, <1>2

LEMMA ActKeeps == ASSUME MediaInv, NEW c \in MediaCall, Act(c) PROVE MediaInv'
<1> DEFINE call == mediaCalls[c]
<1>0. /\ MediaCallFits(call) /\ UNCHANGED <<host, players, offered>> /\ call.step = "act"
      /\ host \in {"windows", "linux"}
  BY DEF MediaInv, Act, Serves, worldVars
<1>1. DOMAIN mediaCalls' = MediaCall /\ \A d \in MediaCall : MediaCallFits(mediaCalls'[d])
  BY <1>0, NoCallFits, CallsFit DEF Act, Answer
<1>2. \A d \in MediaCall : MediaCallFits(mediaCalls[d])'
  BY <1>0, <1>1 DEF MediaCallFits, Sessions, StandsFor
<1>3. ASSUME NEW a \in acted', a.meant # NoId
      PROVE  App(a.player) = App(a.meant) /\ (host = "linux" => a.player = a.meant)
  <2>1. CASE a \in acted
    BY <1>3, <2>1 DEF MediaInv, ActionsFindTheirPlayer
  <2>2. ASSUME NEW p \in Behind(call.listing, call.current),
               a = [player |-> p, meant |-> call.meant, expired |-> call.expired]
        PROVE  App(a.player) = App(a.meant) /\ (host = "linux" => a.player = a.meant)
    <3>1. a.player = p /\ a.meant = call.meant
      BY <2>2
    <3>2. StandsFor(call.current, call.meant)
      BY <1>0, <1>3, <3>1 DEF MediaCallFits
    <3>3. DOMAIN call.listing \subseteq Nat \ {0}
      BY <1>0 DEF MediaCallFits
    <3> HIDE DEF call
    <3> QED
      BY <1>0, <2>2, <3>1, <3>2, <3>3, FoundIsOf
  <2> QED
    BY <2>1, <2>2 DEF Act
<1> QED
  BY <1>0, <1>1, <1>2, <1>3 DEF MediaInv, Sessions, StandsFor, ActionsFindTheirPlayer

LEMMA MediaInvNext == ASSUME MediaInv, [MediaNext]_mediaVars PROVE MediaInv'
<1>1. CASE UNCHANGED mediaVars
  BY <1>1, MediaAside DEF mediaVars, worldVars, MediaInv
<1> QED
  BY <1>1, DesktopKeepsMedia, MediaCallsBegin, ConnectKeeps, ListKeeps, ReadKeepsMedia, ReadDoneKeeps, ActKeeps
     DEF MediaNext

\* An action on a session of an answer reaches a player of that session's application, on Linux
\* that player, and the current session is one of the answer's: for any players, calls and time
\* limits, whatever opens, closes, goes stale or comes late (media/common.rs, windows.rs, linux.rs).
THEOREM ActionsReachTheirPlayer == MediaSpec => []ActionsFindTheirPlayer
<1>1. MediaInit => MediaInv
  BY MediaInvInit
<1>2. MediaInv /\ [MediaNext]_mediaVars => MediaInv'
  BY MediaInvNext
<1>3. MediaInv => ActionsFindTheirPlayer
  BY DEF MediaInv
<1> QED
  BY <1>1, <1>2, <1>3, PTL DEF MediaSpec

--------------------------------------------------------------------------------
(****************************************************************************)
(* ProviderHub.  There is a sampler of a configuration exactly when          *)
(* somebody wants its values, and one at most, whatever subscribers and      *)
(* plugins come and go.                                                      *)
(****************************************************************************)

Task == [id : Nat, config : Configurations, step : {"tick", "check", "cache", "send"}, stop : BOOLEAN,
         sample : Nat, previous : Nat]
Subscription == [step : {"replay", "register", "live"}, replay : Nat, config : Configurations, seen : Nat,
                 last : Nat]
HubTypes ==
    /\ system \in [Supported -> Nat] /\ spawned \in Nat /\ tasks \subseteq Task
    /\ samplers \in [Configurations -> Nat] /\ hubCache \in [Configurations -> Nat]
    /\ sent \in Seq([config : Configurations, value : Nat])
    /\ subs \in [Subscriber -> [Kind -> {NoSub} \cup Subscription]]

\* A subscription is for a configuration of its kind.
KindsFit == \A s \in Subscriber, k \in Kind : subs[s][k] # NoSub => subs[s][k].config.kind = k

\* The count of a configuration is right, and one task samples it while it is not zero.
HubCounts(c) == IsFiniteSet(LiveOn(c)) /\ samplers[c] = Cardinality(LiveOn(c))
HasSampler(c) == IF samplers[c] = 0 THEN Running(c) = {} ELSE \E t : Running(c) = {t}

HubInv == HubTypes /\ KindsFit /\ \A c \in Configurations : HubCounts(c) /\ HasSampler(c)

LEMMA HubInitInv == HubInit => HubInv
<1> SUFFICES ASSUME HubInit PROVE HubInv
  OBVIOUS
<1>1. HubTypes /\ KindsFit
  BY DEF HubInit, HubTypes, KindsFit, NoValue
<1>2. \A c : LiveOn(c) = {} /\ Running(c) = {}
  BY DEF HubInit, LiveOn, Running, AtSub, NoSub
<1> QED
  BY <1>1, <1>2, FS_EmptySet DEF HubInit, HubInv, HubCounts, HasSampler

LEMMA NewConfiguration ==
    ASSUME NEW k \in Supported, NEW i \in Interval, ValidInterval(i)
    PROVE  /\ Normalized(Configuration(k, i)) \in Configurations
           /\ Normalized(Configuration(k, i)).kind = k
  BY DEF Configurations, Normalized, Configuration

LEMMA ConfigurationHasKind == ASSUME NEW c \in Configurations PROVE c.kind \in Supported
<1>1. PICK k \in Supported, i \in Interval : ValidInterval(i) /\ c = Normalized(Configuration(k, i))
  BY DEF Configurations
<1> QED
  BY <1>1, NewConfiguration

\* Steps of a task change neither what it samples nor whether it was stopped.
LEMMA TaskKeeps ==
    ASSUME HubInv, HubTypes', NEW t \in tasks, NEW u \in Task, u.config = t.config, u.stop = t.stop,
           Becomes(t, u), UNCHANGED <<samplers, subs>>
    PROVE  HubInv'
<1>1. KindsFit'
  BY DEF HubInv, KindsFit
<1>2. ASSUME NEW c \in Configurations PROVE (HubCounts(c) /\ HasSampler(c))'
  <2>1. LiveOn(c)' = LiveOn(c)
    BY DEF LiveOn, AtSub
  <2>2. Running(c)' = IF t \in Running(c) THEN (Running(c) \ {t}) \cup {u} ELSE Running(c)
    BY DEF Running, Becomes
  <2>3. HasSampler(c)'
    BY <2>2 DEF HubInv, HasSampler
  <2> QED
    BY <2>1, <2>3 DEF HubInv, HubCounts
<1> QED
  BY <1>1, <1>2 DEF HubInv

LEMMA TaskEndKeeps ==
    ASSUME HubInv, NEW t \in tasks, t.stop, TaskEnds(t), UNCHANGED <<samplers, subs>>, HubTypes'
    PROVE  HubInv'
<1>1. KindsFit'
  BY DEF HubInv, KindsFit
<1>2. \A c \in Configurations : LiveOn(c)' = LiveOn(c) /\ Running(c)' = Running(c)
  BY DEF LiveOn, AtSub, Running, TaskEnds
<1> QED
  BY <1>1, <1>2 DEF HubInv, HubCounts, HasSampler

LEMMA SamplerKeeps ==
    ASSUME HubInv, NEW t \in tasks,
           Tick(t) \/ SampleFails(t) \/ SeesStop(t) \/ CheckSample(t) \/ PutInCache(t) \/ Send(t)
    PROVE  HubInv'
<1>1. HubTypes /\ t \in Task /\ t.config.kind \in Supported /\ system[t.config.kind] \in Nat
  BY ConfigurationHasKind DEF HubInv, HubTypes, Task
<1>2. UNCHANGED <<samplers, subs>>
  BY DEF Tick, SampleFails, SeesStop, CheckSample, PutInCache, Send
<1>3. CASE TaskEnds(t) /\ t.stop /\ UNCHANGED <<system, spawned, hubCache, sent>>
  <2>1. HubTypes'
    BY <1>1, <1>2, <1>3 DEF HubTypes, TaskEnds
  <2> QED
    BY <1>2, <1>3, <2>1, TaskEndKeeps
<1>4. ASSUME NEW u \in Task, u.config = t.config, u.stop = t.stop, Becomes(t, u),
             UNCHANGED <<system, spawned, hubCache, sent>>
      PROVE  HubInv'
  <2>1. HubTypes'
    BY <1>1, <1>2, <1>4 DEF HubTypes, Becomes
  <2> QED
    BY <1>2, <1>4, <2>1, TaskKeeps
<1>5. CASE Tick(t)
  <2> DEFINE u == [t EXCEPT !.step = "check", !.sample = system[t.config.kind]]
  <2>1. u \in Task /\ u.config = t.config /\ u.stop = t.stop
    BY <1>1 DEF Task
  <2> QED
    BY <1>4, <1>5, <2>1 DEF Tick
<1>6. CASE SampleFails(t)
  <2> DEFINE u == [t EXCEPT !.sample = NoValue]
  <2>1. u \in Task /\ u.config = t.config /\ u.stop = t.stop
    BY <1>1 DEF Task, NoValue
  <2> QED
    BY <1>4, <1>6, <2>1 DEF SampleFails
<1>7. CASE SeesStop(t)
  BY <1>3, <1>7 DEF SeesStop
<1>8. CASE CheckSample(t)
  <2>1. CASE t.stop
    BY <1>3, <1>8, <2>1 DEF CheckSample
  <2>2. CASE Becomes(t, [t EXCEPT !.step = "tick"])
    <3>1. [t EXCEPT !.step = "tick"] \in Task /\ [t EXCEPT !.step = "tick"].config = t.config
          /\ [t EXCEPT !.step = "tick"].stop = t.stop
      BY <1>1 DEF Task
    <3> QED
      BY <1>4, <1>8, <2>2, <3>1 DEF CheckSample
  <2>3. CASE Becomes(t, [t EXCEPT !.step = "cache", !.previous = t.sample])
    <3> DEFINE u == [t EXCEPT !.step = "cache", !.previous = t.sample]
    <3>1. u \in Task /\ u.config = t.config /\ u.stop = t.stop
      BY <1>1 DEF Task
    <3> QED
      BY <1>4, <1>8, <2>3, <3>1 DEF CheckSample
  <2> QED
    BY <1>8, <2>1, <2>2, <2>3 DEF CheckSample
<1>9. CASE PutInCache(t)
  <2> DEFINE u == [t EXCEPT !.step = "send"]
  <2>1. u \in Task /\ u.config = t.config /\ u.stop = t.stop /\ Becomes(t, u)
    BY <1>1, <1>9 DEF Task, PutInCache
  <2> HIDE DEF u
  <2>2. HubTypes'
    BY <1>1, <1>2, <1>9, <2>1 DEF HubTypes, PutInCache, Becomes, Task
  <2> QED
    BY <1>2, <2>1, <2>2, TaskKeeps
<1>10. CASE Send(t)
  <2> DEFINE u == [t EXCEPT !.step = "tick"]
  <2>1. u \in Task /\ u.config = t.config /\ u.stop = t.stop /\ Becomes(t, u)
    BY <1>1, <1>10 DEF Task, Send
  <2> HIDE DEF u
  <2>2. Event(t) \in [config : Configurations, value : Nat]
    BY <1>1 DEF Event, Task
  <2>3. sent' \in Seq([config : Configurations, value : Nat])
    BY <1>1, <1>10, <2>2 DEF Send, HubTypes
  <2>4. HubTypes'
    BY <1>1, <1>2, <1>10, <2>1, <2>3 DEF HubTypes, Send, Becomes
  <2> QED
    BY <1>2, <2>1, <2>4, TaskKeeps
<1> QED
  BY <1>5, <1>6, <1>7, <1>8, <1>9, <1>10

\* One subscription changes.
PutSub(s, k, x) == subs' = [subs EXCEPT ![s][k] = x]
LEMMA OneSub ==
    ASSUME HubTypes, NEW s \in Subscriber, NEW k \in Kind, NEW x \in Subscription, PutSub(s, k, x)
    PROVE  /\ subs' \in [Subscriber -> [Kind -> {NoSub} \cup Subscription]]
           /\ \A r \in Subscriber, j \in Kind : subs'[r][j] = IF r = s /\ j = k THEN x ELSE subs[r][j]
  BY DEF HubTypes, PutSub

LEMMA Live ==
    ASSUME NEW c
    PROVE  \A s \in Subscriber, k \in Kind :
               <<s, k>> \in LiveOn(c) <=> subs[s][k].step = "live" /\ subs[s][k].config = c
  BY DEF LiveOn, AtSub
LEMMA LiveNext ==
    ASSUME NEW c
    PROVE  \A s \in Subscriber, k \in Kind :
               <<s, k>> \in LiveOn(c)' <=> subs'[s][k].step = "live" /\ subs'[s][k].config = c
  BY DEF LiveOn, AtSub

LEMMA SubHasKind ==
    ASSUME HubInv, NEW s \in Subscriber, NEW k \in Kind, subs[s][k].step # "none"
    PROVE  /\ subs[s][k] \in Subscription /\ subs[s][k] # NoSub
           /\ subs[s][k].config \in Configurations /\ subs[s][k].config.kind = k
<1>1. subs[s][k] \in {NoSub} \cup Subscription
  BY DEF HubInv, HubTypes
<1>2. subs[s][k] # NoSub
  BY DEF NoSub
<1> QED
  BY <1>1, <1>2 DEF HubInv, KindsFit, Subscription

\* A subscription that is not counted yet, or has heard something.
LEMMA SubKeeps ==
    ASSUME HubInv, NEW s \in Subscriber, NEW k \in Kind, NEW x \in Subscription, x.config.kind = k,
           x.step = "live" <=> AtSub(s, k, "live"),
           x.step = "live" => x.config = subs[s][k].config,
           PutSub(s, k, x), UNCHANGED <<system, spawned, tasks, samplers, hubCache, sent>>
    PROVE  HubInv'
<1>1. HubTypes
  BY DEF HubInv
<1>2. \A r \in Subscriber, j \in Kind : subs'[r][j] = IF r = s /\ j = k THEN x ELSE subs[r][j]
  BY <1>1, OneSub
<1>3. HubTypes' /\ KindsFit'
  <2>1. HubTypes'
    BY <1>1, OneSub DEF HubTypes
  <2>2. KindsFit'
    BY <1>2 DEF HubInv, KindsFit
  <2> QED
    BY <2>1, <2>2
<1>4. \A c \in Configurations : LiveOn(c)' = LiveOn(c) /\ Running(c)' = Running(c)
  BY <1>2 DEF LiveOn, AtSub, Running
<1> QED
  BY <1>3, <1>4 DEF HubInv, HubCounts, HasSampler

LEMMA MemberOfSeq == ASSUME NEW S, NEW e \in Seq(S), NEW n \in 1 .. Len(e) PROVE e[n] \in S
  OBVIOUS

LEMMA SubscriberKeeps ==
    ASSUME HubInv, NEW s \in Subscriber, NEW k \in Kind,
           Replay(s, k) \/ Recv(s, k) \/ \E i \in Interval : Receive(s, k, i)
    PROVE  HubInv'
<1> DEFINE sub == subs[s][k]
<1>0. UNCHANGED <<system, spawned, tasks, samplers, hubCache, sent>>
  BY DEF Replay, Recv, Receive
<1>1. /\ hubCache \in [Configurations -> Nat] /\ sent \in Seq([config : Configurations, value : Nat])
      /\ subs \in [Subscriber -> [Kind -> {NoSub} \cup Subscription]]
  BY DEF HubInv, HubTypes
<1>2. CASE \E i \in Interval : Receive(s, k, i)
  <2>1. PICK i \in Interval : Receive(s, k, i)
    BY <1>2
  <2>2. Normalized(Configuration(k, i)) \in Configurations /\ Normalized(Configuration(k, i)).kind = k
    BY <2>1, NewConfiguration DEF Receive
  <2> DEFINE x == [step |-> "replay", replay |-> NoValue, config |-> Normalized(Configuration(k, i)),
                   seen |-> Len(sent), last |-> NoValue]
  <2>3. x \in Subscription /\ x.config.kind = k /\ x.step # "live"
    BY <1>1, <2>2 DEF Subscription, NoValue
  <2>4. ~AtSub(s, k, "live") /\ PutSub(s, k, x)
    BY <2>1 DEF Receive, AtSub, PutSub
  <2> HIDE DEF x
  <2> QED
    BY <1>0, <2>3, <2>4, SubKeeps
<1>3. CASE Replay(s, k)
  <2>1. sub.step = "replay"
    BY <1>3 DEF Replay, AtSub
  <2>2. sub \in Subscription /\ sub.config \in Configurations /\ sub.config.kind = k
    BY <2>1, SubHasKind
  <2> DEFINE x == [sub EXCEPT !.step = "register", !.replay = hubCache[sub.config]]
  <2>3. x \in Subscription /\ x.config.kind = k /\ x.step # "live"
    BY <1>1, <2>2 DEF Subscription
  <2>4. PutSub(s, k, x)
    BY <1>1, <1>3 DEF Replay, PutSub
  <2> HIDE DEF x
  <2> QED
    BY <1>0, <2>1, <2>3, <2>4, SubKeeps DEF AtSub
<1>4. CASE Recv(s, k)
  <2>1. sub.step = "live"
    BY <1>4 DEF Recv, AtSub
  <2>2. sub \in Subscription /\ sub.config.kind = k
    BY <2>1, SubHasKind
  <2>3. ASSUME NEW x \in Subscription, PutSub(s, k, x), x.step = "live", x.config = sub.config PROVE HubInv'
    BY <1>0, <2>1, <2>2, <2>3, SubKeeps DEF AtSub
  <2>4. CASE subs' = [subs EXCEPT ![s][k].last = sub.replay, ![s][k].replay = NoValue]
    <3> DEFINE x == [sub EXCEPT !.last = sub.replay, !.replay = NoValue]
    <3>1. x \in Subscription /\ x.step = "live" /\ x.config = sub.config
      BY <2>1, <2>2 DEF Subscription, NoValue
    <3>2. PutSub(s, k, x)
      BY <1>1, <2>4 DEF PutSub
    <3> HIDE DEF x
    <3> QED
      BY <2>3, <3>1, <3>2
  <2>5. CASE sub.seen < Len(sent) /\ ~(sub.replay # NoValue)
    <3> DEFINE place == IF sub.seen < OldestPlace THEN OldestPlace + 1 ELSE sub.seen + 1
               last == IF sent[place].config = sub.config THEN sent[place].value ELSE sub.last
               x == [sub EXCEPT !.seen = place, !.last = last]
    <3>1. sub.seen \in Nat /\ Len(sent) \in Nat /\ Capacity \in Nat \ {0}
      BY <1>1, <2>2, HubAssumption DEF Subscription
    <3>2. place \in 1 .. Len(sent)
      BY <2>5, <3>1 DEF OldestPlace
    <3>3. subs' = [subs EXCEPT ![s][k].seen = place, ![s][k].last = last]
      BY <1>1, <1>4, <2>5 DEF Recv
    <3> HIDE DEF place
    <3>4. place \in Nat /\ last \in Nat
      <4>1. sent[place] \in [config : Configurations, value : Nat]
        BY <1>1, <3>2, MemberOfSeq
      <4> QED
        BY <2>2, <3>2, <4>1 DEF Subscription
    <3> HIDE DEF last
    <3>5. x \in Subscription /\ x.step = "live" /\ x.config = sub.config
      BY <2>1, <2>2, <3>4 DEF Subscription
    <3>6. PutSub(s, k, x)
      BY <1>1, <3>3 DEF PutSub
    <3> HIDE DEF x
    <3> QED
      BY <2>3, <3>5, <3>6
  <2> QED
    BY <1>4, <2>4, <2>5 DEF Recv
<1> QED
  BY <1>2, <1>3, <1>4

\* The first of a configuration starts a task, the others are counted.
LEMMA RegisterKeeps == ASSUME HubInv, NEW s \in Subscriber, NEW k \in Kind, Register(s, k) PROVE HubInv'
<1> DEFINE d == subs[s][k].config
           x == [subs[s][k] EXCEPT !.step = "live"]
           new == [id |-> spawned + 1, config |-> d, step |-> "tick", stop |-> FALSE,
                   sample |-> NoValue, previous |-> NoValue]
<1>0. HubTypes
  BY DEF HubInv
<1>1. /\ subs[s][k].step = "register" /\ subs[s][k] \in Subscription
      /\ d \in Configurations /\ d.kind = k
  <2>1. subs[s][k].step = "register"
    BY DEF Register, AtSub
  <2> QED
    BY <2>1, SubHasKind
<1>2. x \in Subscription /\ x.step = "live" /\ x.config = d
  BY <1>1 DEF Subscription
<1>3. /\ PutSub(s, k, x) /\ samplers' = [samplers EXCEPT ![d] = @ + 1]
      /\ tasks' = IF samplers[d] = 0 THEN tasks \cup {new} ELSE tasks
      /\ spawned' \in Nat /\ UNCHANGED <<system, hubCache, sent>>
  BY <1>0 DEF Register, SpawnSampler, HubTypes, PutSub
<1>4. new \in Task /\ new.config = d /\ ~new.stop
  BY <1>0, <1>1 DEF Task, HubTypes, NoValue
<1>5. samplers \in [Configurations -> Nat]
  BY <1>0 DEF HubTypes
<1> HIDE DEF d, x, new
<1>6. \A r \in Subscriber, j \in Kind : subs'[r][j] = IF r = s /\ j = k THEN x ELSE subs[r][j]
  BY <1>0, <1>2, <1>3, OneSub
<1>7. HubTypes' /\ KindsFit'
  <2>1. samplers' \in [Configurations -> Nat]
    BY <1>1, <1>3, <1>5
  <2>2. subs' \in [Subscriber -> [Kind -> {NoSub} \cup Subscription]]
    BY <1>0, <1>2, <1>3, OneSub
  <2>3. HubTypes'
    BY <1>0, <1>3, <1>4, <2>1, <2>2 DEF HubTypes
  <2> QED
    BY <1>1, <1>2, <1>6, <2>3 DEF HubInv, KindsFit
<1>8. ASSUME NEW c \in Configurations PROVE (HubCounts(c) /\ HasSampler(c))'
  <2>1. LiveOn(c)' = IF c = d THEN LiveOn(c) \cup {<<s, k>>} ELSE LiveOn(c)
    BY <1>1, <1>2, <1>6 DEF LiveOn, AtSub
  <2>2. <<s, k>> \notin LiveOn(c)
    BY <1>1 DEF LiveOn, AtSub
  <2>3. samplers'[c] = IF c = d THEN samplers[c] + 1 ELSE samplers[c]
    BY <1>3, <1>5
  <2>4. IsFiniteSet(LiveOn(c)) /\ samplers[c] = Cardinality(LiveOn(c))
    BY DEF HubInv, HubCounts
  <2>5. HubCounts(c)'
    BY <2>1, <2>2, <2>3, <2>4, FS_AddElement, ZenonT(40) DEF HubCounts
  <2>6. Running(c)' = IF c = d /\ samplers[d] = 0 THEN Running(c) \cup {new} ELSE Running(c)
    BY <1>3, <1>4 DEF Running
  <2>7. HasSampler(c)
    BY DEF HubInv
  <2>8. HasSampler(c)'
    BY <1>5, <2>3, <2>6, <2>7 DEF HasSampler
  <2> QED
    BY <2>5, <2>8
<1> QED
  BY <1>7, <1>8 DEF HubInv

\* A subscriber leaves: what it held is counted down, and stopped at zero.
LEMMA PluginStopsKeeps == ASSUME HubInv, NEW s \in Subscriber, PluginStops(s) PROVE HubInv'
<1> DEFINE Left(t) == IF t.config \in Held(s) /\ samplers[t.config] = 1 THEN [t EXCEPT !.stop = TRUE] ELSE t
<1>1. /\ subs' = [subs EXCEPT ![s] = [k \in Kind |-> NoSub]]
      /\ samplers' = [c \in Configurations |-> samplers[c] - IF c \in Held(s) THEN 1 ELSE 0]
      /\ tasks' = {Left(t) : t \in tasks}
      /\ \A k \in Kind : subs[s][k].step \in {"none", "live"}
  BY DEF PluginStops, LeaveSamplers
<1>0. HubTypes
  BY DEF HubInv
<1>2. samplers \in [Configurations -> Nat] /\ tasks \subseteq Task
  BY <1>0 DEF HubTypes
<1>3. \A t \in tasks : Left(t) \in Task /\ Left(t).config = t.config
                       /\ (Left(t).stop <=> t.stop \/ (t.config \in Held(s) /\ samplers[t.config] = 1))
  BY <1>2 DEF Task
<1> HIDE DEF Left
<1>4. /\ \A r \in Subscriber, j \in Kind : subs'[r][j] = IF r = s THEN NoSub ELSE subs[r][j]
      /\ subs' \in [Subscriber -> [Kind -> {NoSub} \cup Subscription]]
  BY <1>0, <1>1 DEF HubTypes
<1>5. \A c \in Configurations : c \in Held(s) <=> c.kind \in Kind /\ <<s, c.kind>> \in LiveOn(c)
  <2> SUFFICES ASSUME NEW c \in Configurations
               PROVE  c \in Held(s) <=> c.kind \in Kind /\ <<s, c.kind>> \in LiveOn(c)
    OBVIOUS
  <2>1. c \in Held(s) <=> \E k \in Kind : subs[s][k].step = "live" /\ subs[s][k].config = c
    BY DEF Held, AtSub
  <2> QED
    BY <2>1, Live, SubHasKind
<1>6. ASSUME NEW c \in Configurations PROVE (HubCounts(c) /\ HasSampler(c))' /\ samplers'[c] \in Nat
  <2>1. LiveOn(c)' = LiveOn(c) \ {<<s, c.kind>>}
    <3>1. \A r \in Subscriber, k \in Kind :
             <<r, k>> \in LiveOn(c)' <=> r # s /\ <<r, k>> \in LiveOn(c)
      <4> SUFFICES ASSUME NEW r \in Subscriber, NEW k \in Kind
                   PROVE  <<r, k>> \in LiveOn(c)' <=> r # s /\ <<r, k>> \in LiveOn(c)
        OBVIOUS
      <4>1. <<r, k>> \in LiveOn(c)' <=> subs'[r][k].step = "live" /\ subs'[r][k].config = c
        BY LiveNext
      <4>2. <<r, k>> \in LiveOn(c) <=> subs[r][k].step = "live" /\ subs[r][k].config = c
        BY Live
      <4>3. subs'[r][k] = IF r = s THEN NoSub ELSE subs[r][k]
        BY <1>4
      <4> QED
        BY <4>1, <4>2, <4>3 DEF NoSub
    <3>2. \A k \in Kind : <<s, k>> \in LiveOn(c) => k = c.kind
      BY Live, SubHasKind
    <3>3. LiveOn(c)' \subseteq Subscriber \X Kind /\ LiveOn(c) \subseteq Subscriber \X Kind
      BY DEF LiveOn
    <3> QED
      BY <3>1, <3>2, <3>3
  <2>2. c \in Held(s) <=> <<s, c.kind>> \in LiveOn(c)
    BY <1>5 DEF LiveOn
  <2>3. IsFiniteSet(LiveOn(c)) /\ samplers[c] = Cardinality(LiveOn(c)) /\ samplers[c] \in Nat
    BY <1>2 DEF HubInv, HubCounts
  <2>4. samplers'[c] = samplers[c] - IF c \in Held(s) THEN 1 ELSE 0
    BY <1>1
  <2>5. c \in Held(s) => samplers[c] # 0
    BY <2>2, <2>3, FS_EmptySet
  <2>6. HubCounts(c)'
    <3> DEFINE one == <<s, c.kind>>
    <3>1. LiveOn(c)' = LiveOn(c) \ {one} /\ (c \in Held(s) <=> one \in LiveOn(c))
      BY <2>1, <2>2
    <3> HIDE DEF one
    <3>2. /\ IsFiniteSet(LiveOn(c) \ {one})
          /\ Cardinality(LiveOn(c) \ {one}) = IF one \in LiveOn(c) THEN Cardinality(LiveOn(c)) - 1
                                                              ELSE Cardinality(LiveOn(c))
      BY <2>3, FS_RemoveElement
    <3> QED
      BY <2>3, <2>4, <3>1, <3>2 DEF HubCounts
  <2>7. Running(c)' = IF c \in Held(s) /\ samplers[c] = 1 THEN {} ELSE Running(c)
    <3>1. CASE c \in Held(s) /\ samplers[c] = 1
      <4>1. \A t \in tasks : t.config = c => Left(t).stop
        BY <1>3, <3>1
      <4> QED
        BY <1>1, <1>3, <3>1, <4>1 DEF Running
    <3>2. CASE ~(c \in Held(s) /\ samplers[c] = 1)
      <4>1. \A t \in tasks : t.config = c => Left(t) = t
        BY <3>2 DEF Left
      <4> QED
        BY <1>1, <1>3, <3>2, <4>1 DEF Running
    <3> QED
      BY <3>1, <3>2
  <2>8. HasSampler(c)
    BY DEF HubInv
  <2>9. HasSampler(c)'
    BY <2>3, <2>4, <2>5, <2>7, <2>8 DEF HasSampler
  <2> QED
    BY <2>3, <2>4, <2>5, <2>6, <2>9
<1>7. HubTypes' /\ KindsFit'
  <2>1. samplers' \in [Configurations -> Nat]
    BY <1>1, <1>6
  <2>2. tasks' \subseteq Task
    BY <1>1, <1>3
  <2>3. UNCHANGED <<system, hubCache, sent, spawned>>
    BY DEF PluginStops
  <2>4. HubTypes'
    BY <1>0, <1>4, <2>1, <2>2, <2>3 DEF HubTypes
  <2> QED
    BY <1>4, <2>4 DEF HubInv, KindsFit
<1> QED
  BY <1>6, <1>7 DEF HubInv

\* One sampler per configuration that somebody listens to, and none for the others, for any
\* subscribers, intervals and order of their steps (hub.rs, subscribe and unsubscribe).
THEOREM SamplersCorrect == HubSpec => []SamplersMatchSubscribers
<1>1. HubInv /\ [HubNext]_hubVars => HubInv'
  <2> SUFFICES ASSUME HubInv, [HubNext]_hubVars PROVE HubInv'
    OBVIOUS
  <2>1. CASE UNCHANGED hubVars
    BY <2>1 DEF hubVars, HubInv, HubTypes, KindsFit, HubCounts, HasSampler, LiveOn, Running, AtSub
  <2>2. ASSUME NEW k \in Supported, Changes(k) PROVE HubInv'
    <3>1. /\ UNCHANGED <<samplers, tasks, hubCache, sent, subs, spawned>>
          /\ system' = [system EXCEPT ![k] = @ + 1]
      BY <2>2 DEF Changes
    <3>2. HubTypes'
      BY <3>1 DEF HubInv, HubTypes
    <3>3. \A c : LiveOn(c)' = LiveOn(c) /\ Running(c)' = Running(c)
      BY <3>1 DEF LiveOn, Running, AtSub
    <3> QED
      BY <3>1, <3>2, <3>3 DEF HubInv, KindsFit, HubCounts, HasSampler
  <2>3. CASE HubNext
    BY <2>2, <2>3, SamplerKeeps, SubscriberKeeps, RegisterKeeps, PluginStopsKeeps DEF HubNext
  <2> QED
    BY <2>1, <2>3
<1>2. HubInv => SamplersMatchSubscribers
  <2> SUFFICES ASSUME HubInv, NEW c \in Configurations
               PROVE  /\ samplers[c] = Cardinality(LiveOn(c))
                      /\ Cardinality(Running(c)) = IF LiveOn(c) = {} THEN 0 ELSE 1
    BY DEF SamplersMatchSubscribers
  <2>1. samplers[c] = Cardinality(LiveOn(c)) /\ (samplers[c] = 0 <=> LiveOn(c) = {})
    BY FS_EmptySet DEF HubInv, HubCounts
  <2>2. Cardinality(Running(c)) = IF samplers[c] = 0 THEN 0 ELSE 1
    BY FS_EmptySet, FS_Singleton DEF HubInv, HasSampler
  <2> QED
    BY <2>1, <2>2
<1> QED
  BY <1>1, <1>2, HubInitInv, PTL DEF HubSpec

--------------------------------------------------------------------------------
(****************************************************************************)
(* StoreCatalog.  A version that a catalog blocks is off once that catalog   *)
(* has been acted on.                                                        *)
(****************************************************************************)

Catalogs == [listed : Version, blocked : SUBSET Version]
Receipts == {Unreceived} \cup [version : Version, blocked : Nat, byStore : BOOLEAN]
CacheSteps == {"signature", "body", "bodyfile", "signed", "etag", "adopt"}
RefreshTasks ==
    [step : {"none", "queued", "blocklist", "done"}] \cup [step : {"get"}, etag : Nat]
    \cup [step : CacheSteps, body : Nat, etag : Nat]
    \cup [step : {"switch"}, receipt : Receipts, off : BOOLEAN] \cup [step : {"save"}, receipt : Receipts]
Installs == [step : {"none"}] \cup [step : {"refresh", "guard"}, expected : Version]
            \cup [step : {"stage"}, gen : Nat, version : Version, byStore : BOOLEAN]

CatalogTypes ==
    /\ published \in Seq(Catalogs) /\ server \in Nat
    /\ catalog \in [gen : Nat, etag : Nat, state : {"fresh", "stale", "unavailable"}]
    /\ cached \in [body : Nat, signature : Nat, etag : Nat]
    /\ refreshes \in [Refresher -> RefreshTasks] /\ refreshLock \in Refresher \cup {Nobody}
    /\ receipt \in Receipts /\ install \in Installs /\ applied \in Nat
    /\ off \in BOOLEAN /\ chosenOff \in BOOLEAN

\* Only catalogs that were published are known.
Published(gen) == gen <= Len(published)
KnownArePublished ==
    /\ 1 <= server /\ Published(server) /\ Published(catalog.gen) /\ Published(cached.body)
    /\ Published(applied)
    /\ \A r \in Refresher : refreshes[r].step \in CacheSteps => Published(refreshes[r].body)
    /\ install.step = "stage" => Published(install.gen)

\* Refreshes take turns.
OneRefreshes == \A r \in Refresher : refreshes[r].step \notin {"none", "queued"} => refreshLock = r

\* An install waits for its refresh, and what it goes on with is not blocked.
InstallWaits == refreshes["install"].step # "none" => install.step = "refresh"
StagedIsAllowed ==
    install.step = "stage" /\ install.gen # NoCatalog => ~Blocks(install.gen, install.version)

\* What a refresh decides by is what there is, unless the user switched the plugin since.
DecidesByWhatIs ==
    \A r \in Refresher :
        /\ refreshes[r].step = "switch" =>
               /\ refreshes[r].receipt = receipt
               /\ applied # NoCatalog => applied = catalog.gen /\ off = refreshes[r].off
        /\ refreshes[r].step = "save" => refreshes[r].receipt.version = receipt.version
\* Once it has decided, a plugin that is blocked is off.
DecidedIsOff ==
    \/ \E r \in Refresher : refreshes[r].step = "switch"
    \/ applied # NoCatalog /\ HasPlugin /\ Blocks(applied, receipt.version) => off

CatalogInv == /\ CatalogTypes /\ KnownArePublished /\ OneRefreshes /\ InstallWaits /\ StagedIsAllowed
              /\ DecidesByWhatIs /\ DecidedIsOff

LEMMA CatalogInvInit == CatalogInit => CatalogInv
<1> SUFFICES ASSUME CatalogInit PROVE CatalogInv
  OBVIOUS
<1>1. PICK v \in Version : published = <<[listed |-> v, blocked |-> {}]>>
  BY DEF CatalogInit
<1>2. published \in Seq(Catalogs) /\ Len(published) = 1
  BY <1>1 DEF Catalogs
<1>3. catalog \in [gen : {0, 1}, etag : {0, 1}, state : {"fresh", "stale", "unavailable"}]
      /\ cached \in [body : {0, 1}, signature : {0, 1}, etag : {0, 1}]
  BY DEF CatalogInit, NoCatalog
<1>4. receipt \in Receipts
  <2>1. CASE receipt = Unreceived
    BY <2>1 DEF Receipts
  <2>2. ASSUME NEW w \in Version, receipt = [version |-> w, blocked |-> NoCatalog, byStore |-> FALSE]
        PROVE  receipt \in Receipts
    BY <2>2 DEF Receipts, NoCatalog
  <2> QED
    BY <2>1, <2>2 DEF CatalogInit
<1>5. off \in BOOLEAN /\ chosenOff \in BOOLEAN
  BY DEF CatalogInit
<1>6. CatalogTypes
  BY <1>2, <1>3, <1>4, <1>5 DEF CatalogInit, CatalogTypes, RefreshTasks, IdleRefresh, Installs, NoInstall, NoCatalog
<1>7. KnownArePublished /\ StagedIsAllowed
  BY <1>2, <1>3 DEF CatalogInit, KnownArePublished, StagedIsAllowed, Published, IdleRefresh, NoInstall, NoCatalog, CacheSteps
<1>8. OneRefreshes /\ InstallWaits /\ DecidesByWhatIs /\ DecidedIsOff
  BY CatalogAssumption DEF CatalogInit, OneRefreshes, InstallWaits, DecidesByWhatIs, DecidedIsOff, IdleRefresh, NoCatalog
<1> QED
  BY <1>6, <1>7, <1>8 DEF CatalogInv

LEMMA OneTask ==
  ASSUME CatalogInv, NEW r \in Refresher, NEW t \in RefreshTasks, Refreshing(r, t)
  PROVE  /\ refreshes' \in [Refresher -> RefreshTasks] /\ refreshes'[r] = t
         /\ \A q \in Refresher \ {r} : refreshes'[q] = refreshes[q]
  BY DEF CatalogInv, CatalogTypes, Refreshing

\* While one refreshes, no other one decides.
LEMMA OthersRest ==
  ASSUME CatalogInv, NEW r \in Refresher, refreshes[r].step \notin {"none", "queued"}
  PROVE  refreshLock = r /\ \A q \in Refresher \ {r} : refreshes[q].step \in {"none", "queued"}
<1>1. refreshLock = r
  BY DEF CatalogInv, OneRefreshes
<1> QED
  BY <1>1 DEF CatalogInv, OneRefreshes

\* The steps of a refresh up to the blocklist.
LEMMA FetchKeeps ==
  ASSUME CatalogInv, NEW r \in Refresher, NEW t \in RefreshTasks, Refreshing(r, t),
         refreshes[r].step \notin {"none", "queued", "switch", "save"},
         t.step \notin {"none", "queued", "switch", "save"},
         t.step \in CacheSteps => Published(t.body),
         catalog' \in [gen : Nat, etag : Nat, state : {"fresh", "stale", "unavailable"}],
         cached' \in [body : Nat, signature : Nat, etag : Nat],
         Published(catalog'.gen), Published(cached'.body),
         UNCHANGED <<published, server, refreshLock, receipt, off, install, applied, chosenOff>>
  PROVE  CatalogInv'
<1>0. CatalogTypes /\ KnownArePublished /\ OneRefreshes /\ InstallWaits /\ StagedIsAllowed
      /\ DecidesByWhatIs /\ DecidedIsOff
  BY DEF CatalogInv
<1>1. /\ refreshes' \in [Refresher -> RefreshTasks] /\ refreshes'[r] = t
      /\ \A q \in Refresher \ {r} : refreshes'[q] = refreshes[q]
  BY OneTask
<1>2. refreshLock = r /\ \A q \in Refresher \ {r} : refreshes[q].step \in {"none", "queued"}
  BY OthersRest
<1>3. CatalogTypes'
  BY <1>0, <1>1 DEF CatalogTypes
<1>4. KnownArePublished'
  BY <1>0, <1>1 DEF KnownArePublished, Published
<1>5. OneRefreshes' /\ StagedIsAllowed'
  BY <1>0, <1>1 DEF OneRefreshes, StagedIsAllowed, Blocks
<1>6. InstallWaits'
  BY <1>0, <1>1, CatalogAssumption DEF InstallWaits
<1>7. DecidesByWhatIs'
  BY <1>0, <1>1, <1>2 DEF DecidesByWhatIs
<1>8. DecidedIsOff'
  BY <1>0, <1>1, <1>2 DEF DecidedIsOff, HasPlugin, Blocks
<1> QED
  BY <1>3, <1>4, <1>5, <1>6, <1>7, <1>8 DEF CatalogInv

LEMMA FailKeeps == ASSUME CatalogInv, NEW r \in Refresher, FailRefresh(r) PROVE CatalogInv'
<1>1. [step |-> "done"] \in RefreshTasks
  BY DEF RefreshTasks
<1>2. catalog' \in [gen : Nat, etag : Nat, state : {"fresh", "stale", "unavailable"}] /\ catalog'.gen = catalog.gen
  BY DEF FailRefresh, CatalogInv, CatalogTypes
<1>3. Published(catalog'.gen) /\ Published(cached'.body) /\ cached' \in [body : Nat, signature : Nat, etag : Nat]
  BY <1>2 DEF FailRefresh, CatalogInv, CatalogTypes, KnownArePublished
<1> QED
  BY <1>1, <1>2, <1>3, FetchKeeps DEF FailRefresh, OutsideRefresh, CacheSteps

LEMMA GetKeeps == ASSUME CatalogInv, NEW r \in Refresher, GetCatalog(r) PROVE CatalogInv'
<1>0. CatalogTypes /\ KnownArePublished
  BY DEF CatalogInv
<1>1. PICK label \in Nat :
         \/ catalog'.gen = catalog.gen /\ MarkFresh(catalog.gen, label) /\ Refreshing(r, [step |-> "blocklist"])
         \/ /\ Refreshing(r, [step |-> "signature", body |-> server, etag |-> label])
            /\ UNCHANGED catalog
  BY <1>0 DEF GetCatalog, CatalogTypes, NoCatalog, MarkFresh
<1>2. [step |-> "blocklist"] \in RefreshTasks /\ [step |-> "signature", body |-> server, etag |-> label] \in RefreshTasks
  BY <1>0 DEF RefreshTasks, CacheSteps, CatalogTypes
<1>3. catalog' \in [gen : Nat, etag : Nat, state : {"fresh", "stale", "unavailable"}] /\ catalog'.gen = catalog.gen
  BY <1>0, <1>1 DEF MarkFresh, CatalogTypes
<1>4. Published(catalog'.gen) /\ Published(cached'.body) /\ cached' \in [body : Nat, signature : Nat, etag : Nat]
      /\ Published(server)
  BY <1>0, <1>3 DEF GetCatalog, CatalogTypes, KnownArePublished
<1> QED
  BY <1>1, <1>2, <1>3, <1>4, FetchKeeps DEF GetCatalog, AtRefresh, OutsideRefresh, CacheSteps

\* A refresh that has the catalog's body.
LEMMA HasBody ==
  ASSUME CatalogInv, NEW r \in Refresher, refreshes[r].step \in CacheSteps
  PROVE  refreshes[r] \in [step : CacheSteps, body : Nat, etag : Nat] /\ Published(refreshes[r].body)
<1>1. refreshes[r] \in RefreshTasks /\ Published(refreshes[r].body)
  BY DEF CatalogInv, CatalogTypes, KnownArePublished
<1> QED
  BY <1>1 DEF RefreshTasks, CacheSteps

LEMMA NextCacheStep ==
  ASSUME CatalogInv, NEW r \in Refresher, refreshes[r].step \in CacheSteps, NEW s \in CacheSteps
  PROVE  LET t == [refreshes[r] EXCEPT !.step = s]
         IN  t \in RefreshTasks /\ t.step = s /\ t.body = refreshes[r].body /\ Published(t.body)
<1>1. refreshes[r] \in [step : CacheSteps, body : Nat, etag : Nat] /\ Published(refreshes[r].body)
  BY HasBody
<1> DEFINE t == [refreshes[r] EXCEPT !.step = s]
<1>2. t \in [step : CacheSteps, body : Nat, etag : Nat] /\ t.step = s /\ t.body = refreshes[r].body
  BY <1>1
<1> QED
  BY <1>1, <1>2 DEF RefreshTasks

LEMMA SignatureKeeps == ASSUME CatalogInv, NEW r \in Refresher, GetSignature(r) PROVE CatalogInv'
<1> DEFINE t == [refreshes[r] EXCEPT !.step = "body"]
<1>0. CatalogTypes /\ KnownArePublished
  BY DEF CatalogInv
<1>1. t \in RefreshTasks /\ t.step = "body" /\ Published(t.body) /\ [step |-> "done"] \in RefreshTasks
  BY NextCacheStep DEF GetSignature, AtRefresh, CacheSteps, RefreshTasks
<1>2. catalog' \in [gen : Nat, etag : Nat, state : {"fresh", "stale", "unavailable"}] /\ catalog'.gen = catalog.gen
  BY <1>0 DEF GetSignature, CatalogTypes
<1>3. Published(catalog'.gen) /\ Published(cached'.body) /\ cached' \in [body : Nat, signature : Nat, etag : Nat]
  BY <1>0, <1>2 DEF GetSignature, CatalogTypes, KnownArePublished
<1>4. Refreshing(r, t) \/ Refreshing(r, [step |-> "done"])
  BY DEF GetSignature
<1> HIDE DEF t
<1> QED
  BY <1>1, <1>2, <1>3, <1>4, FetchKeeps DEF GetSignature, AtRefresh, OutsideRefresh, CacheSteps

LEMMA WriteKeeps ==
  ASSUME CatalogInv, NEW r \in Refresher, WriteCacheFile(r) \/ WriteFails(r) PROVE CatalogInv'
<1>0. CatalogTypes /\ KnownArePublished
  BY DEF CatalogInv
<1>1. PICK s \in CacheSteps : Refreshing(r, [refreshes[r] EXCEPT !.step = s])
  BY DEF WriteCacheFile, WriteFails, FileAfter, CacheSteps
<1> DEFINE t == [refreshes[r] EXCEPT !.step = s]
<1>2. refreshes[r].step \in CacheSteps
  BY DEF WriteCacheFile, WriteFails, CacheSteps
<1>3. t \in RefreshTasks /\ t.step = s /\ Published(t.body) /\ Published(refreshes[r].body)
  BY <1>2, NextCacheStep, HasBody
<1>4. refreshes[r].body \in Nat /\ refreshes[r].etag \in Nat
  BY <1>2, HasBody
<1>5. cached' \in [body : Nat, signature : Nat, etag : Nat] /\ Published(cached'.body) /\ UNCHANGED catalog
  <2>1. CASE cached' = cached
    BY <1>0, <2>1 DEF CatalogTypes, KnownArePublished, WriteCacheFile, WriteFails
  <2>2. CASE cached' = [cached EXCEPT !.body = refreshes[r].body]
    BY <1>0, <1>3, <1>4, <2>2 DEF CatalogTypes, KnownArePublished, WriteCacheFile, WriteFails
  <2>3. CASE cached' \in {[cached EXCEPT !.signature = refreshes[r].body], [cached EXCEPT !.etag = refreshes[r].etag]}
    BY <1>0, <1>4, <2>3 DEF CatalogTypes, KnownArePublished, WriteCacheFile, WriteFails
  <2> QED
    BY <2>1, <2>2, <2>3 DEF WriteCacheFile, WriteFails
<1>6. Published(catalog'.gen) /\ catalog' \in [gen : Nat, etag : Nat, state : {"fresh", "stale", "unavailable"}]
  BY <1>0, <1>5 DEF CatalogTypes, KnownArePublished
<1> HIDE DEF t
<1> QED
  BY <1>1, <1>2, <1>3, <1>5, <1>6, FetchKeeps DEF WriteCacheFile, WriteFails, OutsideRefresh, CacheSteps, t

LEMMA AdoptKeeps == ASSUME CatalogInv, NEW r \in Refresher, Adopt(r) PROVE CatalogInv'
<1>0. CatalogTypes /\ KnownArePublished /\ refreshes[r].step = "adopt"
  BY DEF CatalogInv, Adopt, AtRefresh
<1>1. refreshes[r].body \in Nat /\ refreshes[r].etag \in Nat /\ Published(refreshes[r].body)
  BY <1>0, HasBody DEF CacheSteps
<1>2. catalog' \in [gen : Nat, etag : Nat, state : {"fresh", "stale", "unavailable"}]
      /\ catalog'.gen = refreshes[r].body
  BY <1>0, <1>1 DEF Adopt, MarkFresh, CatalogTypes
<1>3. [step |-> "blocklist"] \in RefreshTasks
  BY DEF RefreshTasks
<1>4. Published(catalog'.gen) /\ Published(cached'.body) /\ cached' \in [body : Nat, signature : Nat, etag : Nat]
  BY <1>0, <1>1, <1>2 DEF Adopt, CatalogTypes, KnownArePublished
<1> QED
  BY <1>0, <1>2, <1>3, <1>4, FetchKeeps DEF Adopt, OutsideRefresh, CacheSteps

\* A refresh is asked for, and takes its turn.
LEMMA AskKeeps == ASSUME CatalogInv, NEW r \in Refresher, AskRefresh(r) \/ TakeTurn(r) PROVE CatalogInv'
<1>0. CatalogTypes /\ KnownArePublished /\ OneRefreshes /\ InstallWaits /\ StagedIsAllowed
      /\ DecidesByWhatIs /\ DecidedIsOff
  BY DEF CatalogInv
<1>1. PICK t \in RefreshTasks :
         /\ Refreshing(r, t) /\ t.step \in {"queued", "get"}
         /\ t.step = "get" => refreshLock = Nobody /\ refreshLock' = r
         /\ t.step = "queued" => r # "install" /\ UNCHANGED refreshLock
  BY <1>0 DEF AskRefresh, TakeTurn, RefreshTasks, CatalogTypes
<1>2. /\ refreshes' \in [Refresher -> RefreshTasks] /\ refreshes'[r] = t
      /\ \A q \in Refresher \ {r} : refreshes'[q] = refreshes[q]
  BY <1>1, OneTask
<1>3. UNCHANGED <<published, server, install, catalog, cached, receipt, off, applied, chosenOff>>
      /\ refreshes[r].step \in {"none", "queued"}
      /\ (r = "install" => refreshes[r].step = "queued")
  BY DEF AskRefresh, TakeTurn, OutsideRefresh, AtRefresh
<1>4. CatalogTypes'
  BY <1>0, <1>1, <1>2, <1>3 DEF CatalogTypes
<1>5. KnownArePublished' /\ StagedIsAllowed'
  BY <1>0, <1>1, <1>2, <1>3 DEF KnownArePublished, StagedIsAllowed, Published, Blocks, CacheSteps
<1>6. OneRefreshes'
  <2>1. CASE t.step = "queued"
    BY <1>0, <1>1, <1>2, <2>1 DEF OneRefreshes
  <2>2. CASE t.step = "get"
    <3>1. ASSUME NEW q \in Refresher, refreshes[q].step \notin {"none", "queued"} PROVE q = Nobody
      BY <1>0, <1>1, <2>2, <3>1 DEF OneRefreshes
    <3> QED
      BY <1>0, <1>1, <1>2, <2>2, <3>1, CatalogAssumption DEF OneRefreshes, Nobody
  <2> QED
    BY <1>1, <2>1, <2>2
<1>7. InstallWaits'
  BY <1>0, <1>1, <1>2, <1>3, CatalogAssumption DEF InstallWaits
<1>8. DecidesByWhatIs' /\ DecidedIsOff'
  BY <1>0, <1>1, <1>2, <1>3 DEF DecidesByWhatIs, DecidedIsOff, HasPlugin, Blocks
<1> QED
  BY <1>4, <1>5, <1>6, <1>7, <1>8 DEF CatalogInv

\* The blocklist: what is installed is read, decided on, and written.
LEMMA ReadKeeps == ASSUME CatalogInv, NEW r \in Refresher, ReadReceipts(r) PROVE CatalogInv'
<1> DEFINE t == [step |-> "switch", receipt |-> receipt, off |-> off]
<1>0. CatalogTypes /\ KnownArePublished /\ OneRefreshes /\ InstallWaits /\ StagedIsAllowed
      /\ DecidesByWhatIs /\ DecidedIsOff
  BY DEF CatalogInv
<1>1. t \in RefreshTasks /\ t.step = "switch" /\ t.receipt = receipt /\ t.off = off /\ Refreshing(r, t)
  BY <1>0 DEF RefreshTasks, CatalogTypes, ReadReceipts
<1> HIDE DEF t
<1>2. /\ refreshes' \in [Refresher -> RefreshTasks] /\ refreshes'[r] = t
      /\ \A q \in Refresher \ {r} : refreshes'[q] = refreshes[q]
  BY <1>1, OneTask
<1>3. /\ UNCHANGED <<published, server, install, catalog, cached, receipt, off, chosenOff, refreshLock>>
      /\ refreshes[r].step = "blocklist" /\ applied' = catalog.gen
  BY DEF ReadReceipts, OutsideRefresh, AtRefresh
<1>4. \A q \in Refresher \ {r} : refreshes[q].step \in {"none", "queued"}
  BY <1>3, OthersRest
<1>5. CatalogTypes'
  BY <1>0, <1>2, <1>3 DEF CatalogTypes
<1>6. KnownArePublished' /\ StagedIsAllowed'
  BY <1>0, <1>1, <1>2, <1>3 DEF KnownArePublished, StagedIsAllowed, Published, Blocks, CacheSteps
<1>7. OneRefreshes' /\ InstallWaits' /\ DecidedIsOff'
  BY <1>0, <1>1, <1>2, <1>3, CatalogAssumption DEF OneRefreshes, InstallWaits, DecidedIsOff
<1>8. DecidesByWhatIs'
  BY <1>0, <1>1, <1>2, <1>3, <1>4 DEF DecidesByWhatIs
<1> QED
  BY <1>5, <1>6, <1>7, <1>8 DEF CatalogInv

\* A blocked plugin that is not off yet is switched off, unless that fails.
LEMMA DecideKeeps ==
  ASSUME CatalogInv, NEW r \in Refresher, refreshes[r].step = "switch",
         NEW new \in Receipts, Refreshing(r, [step |-> "save", receipt |-> new]),
         new.version = receipt.version, off' \in BOOLEAN, applied' \in {applied, NoCatalog},
         applied' # NoCatalog /\ HasPlugin /\ Blocks(catalog.gen, receipt.version) => off',
         UNCHANGED <<published, server, install, catalog, cached, refreshLock, receipt, chosenOff>>
  PROVE  CatalogInv'
<1> DEFINE t == [step |-> "save", receipt |-> new]
<1>0. CatalogTypes /\ KnownArePublished /\ OneRefreshes /\ InstallWaits /\ StagedIsAllowed
      /\ DecidesByWhatIs /\ DecidedIsOff
  BY DEF CatalogInv
<1>1. t \in RefreshTasks /\ t.step = "save" /\ t.receipt = new /\ Refreshing(r, t)
  BY DEF RefreshTasks
<1> HIDE DEF t
<1>2. /\ refreshes' \in [Refresher -> RefreshTasks] /\ refreshes'[r] = t
      /\ \A q \in Refresher \ {r} : refreshes'[q] = refreshes[q]
  BY <1>1, OneTask
<1>4. \A q \in Refresher \ {r} : refreshes[q].step \in {"none", "queued"}
  BY OthersRest
<1>5. CatalogTypes'
  BY <1>0, <1>2 DEF CatalogTypes, NoCatalog
<1>6. KnownArePublished' /\ StagedIsAllowed'
  BY <1>0, <1>1, <1>2 DEF KnownArePublished, StagedIsAllowed, Published, Blocks, CacheSteps, CatalogTypes, NoCatalog
<1>7. OneRefreshes' /\ InstallWaits'
  BY <1>0, <1>1, <1>2, CatalogAssumption DEF OneRefreshes, InstallWaits
<1>8. DecidesByWhatIs'
  BY <1>0, <1>1, <1>2, <1>4 DEF DecidesByWhatIs
<1>9. DecidedIsOff'
  <2>1. applied # NoCatalog => applied = catalog.gen
    BY <1>0 DEF DecidesByWhatIs
  <2> QED
    BY <2>1 DEF DecidedIsOff, HasPlugin, Blocks, NoCatalog
<1> QED
  BY <1>5, <1>6, <1>7, <1>8, <1>9 DEF CatalogInv

LEMMA DecisionFits ==
  ASSUME NEW old \in Receipts, old # Unreceived, NEW wasOff \in BOOLEAN, CatalogInv
  PROVE  /\ Blocking(old, wasOff).receipt \in Receipts /\ Blocking(old, wasOff).receipt.version = old.version
         /\ Blocking(old, wasOff).off = (off \/ ~wasOff) /\ Blocking(old, wasOff).off \in BOOLEAN
         /\ Lifted(old).receipt \in Receipts /\ Lifted(old).receipt.version = old.version
         /\ Lifted(old).off \in BOOLEAN
         /\ [old EXCEPT !.blocked = catalog.gen] \in Receipts
         /\ [old EXCEPT !.blocked = catalog.gen].version = old.version
<1>1. old \in [version : Version, blocked : Nat, byStore : BOOLEAN] /\ catalog.gen \in Nat /\ off \in BOOLEAN
  BY DEF Receipts, CatalogInv, CatalogTypes
<1>2. ASSUME NEW b \in Nat, NEW s \in BOOLEAN
      PROVE  /\ [old EXCEPT !.blocked = b, !.byStore = s] \in [version : Version, blocked : Nat, byStore : BOOLEAN]
             /\ [old EXCEPT !.blocked = b, !.byStore = s].version = old.version
             /\ [old EXCEPT !.blocked = b] \in [version : Version, blocked : Nat, byStore : BOOLEAN]
             /\ [old EXCEPT !.blocked = b].version = old.version
  BY <1>1
<1>3. (old.byStore \/ ~wasOff) \in BOOLEAN /\ FALSE \in BOOLEAN /\ NoCatalog \in Nat
  BY DEF NoCatalog
<1> QED
  BY <1>1, <1>2, <1>3 DEF Blocking, Lifted, Receipts

LEMMA SwitchKeeps == ASSUME CatalogInv, NEW r \in Refresher, Switch(r) \/ SwitchFails(r) PROVE CatalogInv'
<1> DEFINE old == refreshes[r].receipt
           wasOff == refreshes[r].off
<1>1. /\ refreshes[r].step = "switch"
      /\ UNCHANGED <<published, server, install, catalog, cached, refreshLock, receipt, chosenOff>>
  BY DEF Switch, SwitchFails, AtRefresh, OutsideRefresh
<1>2. old = receipt /\ (applied # NoCatalog => off = wasOff)
  BY <1>1 DEF CatalogInv, DecidesByWhatIs
<1>3. wasOff \in BOOLEAN /\ old \in Receipts /\ off \in BOOLEAN
  BY <1>1 DEF CatalogInv, CatalogTypes, RefreshTasks, CacheSteps
<1>4. HasPlugin <=> old # Unreceived
  BY <1>2, <1>3, CatalogAssumption DEF HasPlugin, Receipts, Unreceived
<1> HIDE DEF old, wasOff
<1>5. CASE Switch(r)
  <2> DEFINE outcome == IF old = Unreceived THEN [receipt |-> old, off |-> off]
                        ELSE IF Blocks(catalog.gen, old.version) THEN Blocking(old, wasOff)
                        ELSE IF LiftsBlock(old) THEN Lifted(old)
                        ELSE [receipt |-> old, off |-> off]
  <2>1. off' = outcome.off /\ Refreshing(r, [step |-> "save", receipt |-> outcome.receipt]) /\ applied' = applied
    BY <1>5 DEF Switch, old, wasOff
  <2>2. outcome.receipt \in Receipts /\ outcome.receipt.version = old.version /\ outcome.off \in BOOLEAN
    BY <1>3, DecisionFits
  <2>3. applied # NoCatalog /\ HasPlugin /\ Blocks(catalog.gen, old.version) => outcome.off
    BY <1>2, <1>3, <1>4, DecisionFits
  <2> HIDE DEF outcome
  <2> QED
    BY <1>1, <1>2, <2>1, <2>2, <2>3, DecideKeeps
<1>6. CASE SwitchFails(r)
  <2>1. applied' = NoCatalog /\ off' = off /\ old # Unreceived
    BY <1>6 DEF SwitchFails, LiftsBlock, old
  <2>2. PICK new \in {[old EXCEPT !.blocked = catalog.gen], Lifted(old).receipt} :
           Refreshing(r, [step |-> "save", receipt |-> new])
    BY <1>6 DEF SwitchFails, old
  <2>3. new \in Receipts /\ new.version = old.version
    BY <1>3, <2>1, <2>2, DecisionFits
  <2> QED
    BY <1>1, <1>2, <1>3, <2>1, <2>2, <2>3, DecideKeeps
<1> QED
  BY <1>5, <1>6

LEMMA SaveKeeps == ASSUME CatalogInv, NEW r \in Refresher, SaveReceipts(r) PROVE CatalogInv'
<1> DEFINE t == [step |-> "done"]
<1>0. CatalogTypes /\ KnownArePublished /\ OneRefreshes /\ InstallWaits /\ StagedIsAllowed
      /\ DecidesByWhatIs /\ DecidedIsOff
  BY DEF CatalogInv
<1>1. t \in RefreshTasks /\ t.step = "done" /\ Refreshing(r, t)
  BY DEF RefreshTasks, SaveReceipts
<1> HIDE DEF t
<1>2. /\ refreshes' \in [Refresher -> RefreshTasks] /\ refreshes'[r] = t
      /\ \A q \in Refresher \ {r} : refreshes'[q] = refreshes[q]
  BY <1>1, OneTask
<1>3. /\ UNCHANGED <<published, server, install, catalog, cached, off, chosenOff, refreshLock, applied>>
      /\ refreshes[r].step = "save"
  BY DEF SaveReceipts, OutsideRefresh, AtRefresh
<1>4. \A q \in Refresher \ {r} : refreshes[q].step \in {"none", "queued"}
  BY <1>3, OthersRest
<1>5. receipt' \in Receipts /\ receipt'.version = receipt.version
  BY <1>0, <1>3 DEF SaveReceipts, CatalogTypes, RefreshTasks, CacheSteps, DecidesByWhatIs
<1>6. CatalogTypes'
  BY <1>0, <1>2, <1>3, <1>5 DEF CatalogTypes
<1>7. KnownArePublished' /\ StagedIsAllowed'
  BY <1>0, <1>1, <1>2, <1>3 DEF KnownArePublished, StagedIsAllowed, Published, Blocks, CacheSteps
<1>8. OneRefreshes' /\ InstallWaits'
  BY <1>0, <1>1, <1>2, <1>3, CatalogAssumption DEF OneRefreshes, InstallWaits
<1>9. DecidesByWhatIs' /\ DecidedIsOff'
  BY <1>0, <1>1, <1>2, <1>3, <1>4, <1>5 DEF DecidesByWhatIs, DecidedIsOff, HasPlugin, Blocks
<1> QED
  BY <1>6, <1>7, <1>8, <1>9 DEF CatalogInv

LEMMA EndKeepsCatalog == ASSUME CatalogInv, NEW r \in Refresher, EndRefresh(r) PROVE CatalogInv'
<1>0. CatalogTypes /\ KnownArePublished /\ OneRefreshes /\ InstallWaits /\ StagedIsAllowed
      /\ DecidesByWhatIs /\ DecidedIsOff
  BY DEF CatalogInv
<1>1. IdleRefresh \in RefreshTasks /\ IdleRefresh.step = "none" /\ Refreshing(r, IdleRefresh)
  BY DEF RefreshTasks, IdleRefresh, EndRefresh
<1>2. /\ refreshes' \in [Refresher -> RefreshTasks] /\ refreshes'[r] = IdleRefresh
      /\ \A q \in Refresher \ {r} : refreshes'[q] = refreshes[q]
  BY <1>1, OneTask
<1>3. /\ UNCHANGED <<published, server, catalog, cached, receipt, off, applied, chosenOff>>
      /\ refreshes[r].step = "done" /\ refreshLock' = Nobody
  BY DEF EndRefresh, AtRefresh
<1>4. \A q \in Refresher \ {r} : refreshes[q].step \in {"none", "queued"}
  BY <1>3, OthersRest
<1>5. install' \in Installs /\ (r = "install" => install'.step # "stage") /\ (r # "install" => install' = install)
  <2>1. CASE r = "install"
    <3>1. install \in [step : {"refresh", "guard"}, expected : Version]
      BY <1>0, <1>3, <2>1 DEF InstallWaits, CatalogTypes, Installs
    <3> QED
      BY <2>1, <3>1 DEF EndRefresh, Installs, NoInstall
  <2>2. CASE r # "install"
    BY <1>0, <2>2 DEF EndRefresh, CatalogTypes
  <2> QED
    BY <2>1, <2>2
<1>6. CatalogTypes'
  BY <1>0, <1>2, <1>3, <1>5 DEF CatalogTypes
<1>7. KnownArePublished' /\ StagedIsAllowed'
  BY <1>0, <1>1, <1>2, <1>3, <1>5 DEF KnownArePublished, StagedIsAllowed, Published, Blocks, CacheSteps
<1>8. OneRefreshes' /\ InstallWaits'
  BY <1>0, <1>1, <1>2, <1>3, <1>4, <1>5, CatalogAssumption DEF OneRefreshes, InstallWaits
<1>9. DecidesByWhatIs' /\ DecidedIsOff'
  BY <1>0, <1>1, <1>2, <1>3, <1>4 DEF DecidesByWhatIs, DecidedIsOff, HasPlugin, Blocks
<1> QED
  BY <1>6, <1>7, <1>8, <1>9 DEF CatalogInv

\* The server publishes, or answers with an older catalog.
LEMMA ServerKeeps == ASSUME CatalogInv, Publish \/ ServeOlder PROVE CatalogInv'
<1>0. CatalogTypes /\ KnownArePublished /\ OneRefreshes /\ InstallWaits /\ StagedIsAllowed
      /\ DecidesByWhatIs /\ DecidedIsOff
  BY DEF CatalogInv
<1>1. /\ UNCHANGED <<catalog, cached, refreshes, refreshLock, receipt, off, install, applied, chosenOff>>
      /\ published' \in Seq(Catalogs) /\ Len(published') >= Len(published)
      /\ \A gen \in 1 .. Len(published) : published'[gen] = published[gen]
      /\ server' \in 1 .. Len(published')
  <2>1. CASE Publish
    <3>1. PICK c \in Catalogs : published' = Append(published, c)
      BY <2>1 DEF Publish, Catalogs
    <3> QED
      BY <1>0, <2>1, <3>1 DEF Publish, CatalogTypes
  <2>2. CASE ServeOlder
    BY <1>0, <2>2 DEF ServeOlder, CatalogTypes
  <2> QED
    BY <2>1, <2>2
<1>2. CatalogTypes' /\ KnownArePublished'
  <2>0. Len(published) \in Nat /\ Len(published') \in Nat
    BY <1>0, <1>1 DEF CatalogTypes
  <2>1. ASSUME NEW gen \in Nat, Published(gen) PROVE gen <= Len(published')
    BY <1>1, <2>0, <2>1 DEF Published
  <2>2. CatalogTypes'
    BY <1>0, <1>1, <2>0 DEF CatalogTypes
  <2>3. ASSUME NEW r \in Refresher, refreshes[r].step \in CacheSteps PROVE refreshes[r].body <= Len(published')
    BY <2>1, <2>3, HasBody
  <2>4. install.step = "stage" => install.gen <= Len(published')
    BY <1>0, <2>1 DEF CatalogTypes, KnownArePublished, Installs
  <2>5. catalog.gen <= Len(published') /\ cached.body <= Len(published') /\ applied <= Len(published')
    BY <1>0, <2>1 DEF CatalogTypes, KnownArePublished
  <2>6. KnownArePublished'
    BY <1>1, <2>0, <2>3, <2>4, <2>5 DEF KnownArePublished, Published
  <2> QED
    BY <2>2, <2>6
<1>3. OneRefreshes' /\ InstallWaits' /\ DecidesByWhatIs'
  BY <1>0, <1>1 DEF OneRefreshes, InstallWaits, DecidesByWhatIs
<1>4. StagedIsAllowed'
  <2>1. install.step = "stage" /\ install.gen # NoCatalog => install.gen \in 1 .. Len(published)
    BY <1>0 DEF CatalogTypes, Installs, KnownArePublished, Published, NoCatalog
  <2> QED
    BY <1>0, <1>1, <2>1 DEF StagedIsAllowed, Blocks
<1>5. DecidedIsOff'
  <2>1. applied # NoCatalog => applied \in 1 .. Len(published)
    BY <1>0 DEF CatalogTypes, KnownArePublished, Published, NoCatalog
  <2> QED
    BY <1>0, <1>1, <2>1 DEF DecidedIsOff, HasPlugin, Blocks
<1> QED
  BY <1>2, <1>3, <1>4, <1>5 DEF CatalogInv

LEMMA ToggleKeeps == ASSUME CatalogInv, Toggle PROVE CatalogInv'
<1>0. CatalogTypes /\ KnownArePublished /\ OneRefreshes /\ InstallWaits /\ StagedIsAllowed
      /\ DecidesByWhatIs /\ DecidedIsOff
  BY DEF CatalogInv
<1>1. CatalogTypes' /\ KnownArePublished'
  BY <1>0 DEF Toggle, CatalogTypes, KnownArePublished, Published, NoCatalog
<1>2. OneRefreshes' /\ InstallWaits' /\ StagedIsAllowed' /\ DecidesByWhatIs' /\ DecidedIsOff'
  BY <1>0 DEF Toggle, OneRefreshes, InstallWaits, StagedIsAllowed, DecidesByWhatIs, DecidedIsOff, Blocks, HasPlugin
<1> QED
  BY <1>1, <1>2 DEF CatalogInv

LEMMA StartInstallKeeps == ASSUME CatalogInv, StartInstall PROVE CatalogInv'
<1> DEFINE t == [step |-> "queued"]
<1>0. CatalogTypes /\ KnownArePublished /\ OneRefreshes /\ InstallWaits /\ StagedIsAllowed
      /\ DecidesByWhatIs /\ DecidedIsOff
  BY DEF CatalogInv
<1>1. t \in RefreshTasks /\ t.step = "queued" /\ Refreshing("install", t)
  BY DEF RefreshTasks, StartInstall
<1> HIDE DEF t
<1>2. /\ refreshes' \in [Refresher -> RefreshTasks] /\ refreshes'["install"] = t
      /\ \A q \in Refresher \ {"install"} : refreshes'[q] = refreshes[q]
  BY <1>1, OneTask, CatalogAssumption
<1>3. /\ UNCHANGED <<published, server, catalog, cached, refreshLock, receipt, off, applied, chosenOff>>
      /\ refreshes["install"].step = "none" /\ install' \in Installs /\ install'.step = "refresh"
  BY DEF StartInstall, AtRefresh, Installs
<1>4. CatalogTypes' /\ KnownArePublished'
  BY <1>0, <1>1, <1>2, <1>3 DEF CatalogTypes, KnownArePublished, Published, CacheSteps
<1>5. OneRefreshes' /\ InstallWaits' /\ StagedIsAllowed' /\ DecidesByWhatIs'
  BY <1>0, <1>1, <1>2, <1>3 DEF OneRefreshes, InstallWaits, StagedIsAllowed, DecidesByWhatIs
<1>6. DecidedIsOff'
  BY <1>0, <1>1, <1>2, <1>3 DEF DecidedIsOff, HasPlugin, Blocks
<1> QED
  BY <1>4, <1>5, <1>6 DEF CatalogInv

LEMMA GuardKeeps == ASSUME CatalogInv, Guard PROVE CatalogInv'
<1>0. CatalogTypes /\ KnownArePublished /\ OneRefreshes /\ InstallWaits /\ StagedIsAllowed
      /\ DecidesByWhatIs /\ DecidedIsOff
  BY DEF CatalogInv
<1>1. CASE install' = NoInstall
  BY <1>0, <1>1 DEF Guard, NoInstall, CatalogInv, CatalogTypes, Installs, KnownArePublished, Published, OneRefreshes,
     InstallWaits, StagedIsAllowed, DecidesByWhatIs, DecidedIsOff, HasPlugin, Blocks
<1>2. CASE ~GuardRefuses(catalog.gen, install.expected)
  <2>1. install \in [step : {"refresh", "guard"}, expected : Version]
    BY <1>0 DEF Guard, CatalogTypes, Installs
  <2>2. (HasPlugin /\ receipt.byStore) \in BOOLEAN /\ catalog.gen \in Nat /\ Published(catalog.gen)
    BY <1>0, CatalogAssumption DEF CatalogTypes, Receipts, HasPlugin, Unreceived, KnownArePublished
  <2>3. install' = [step |-> "stage", gen |-> catalog.gen, version |-> Listed(catalog.gen),
                    byStore |-> HasPlugin /\ receipt.byStore]
        /\ Listed(catalog.gen) \in Version /\ ~Blocks(catalog.gen, Listed(catalog.gen))
    BY <1>2, <2>1 DEF Guard, GuardRefuses
  <2>4. install' \in Installs /\ install'.step = "stage" /\ install'.gen = catalog.gen
        /\ ~Blocks(install'.gen, install'.version)
    BY <2>2, <2>3 DEF Installs
  <2>5. CatalogTypes' /\ KnownArePublished'
    BY <1>0, <2>2, <2>4 DEF Guard, CatalogTypes, KnownArePublished, Published
  <2>6. OneRefreshes' /\ StagedIsAllowed' /\ DecidesByWhatIs' /\ DecidedIsOff'
    BY <1>0, <2>4 DEF Guard, OneRefreshes, StagedIsAllowed, DecidesByWhatIs, DecidedIsOff, HasPlugin, Blocks
  <2>7. InstallWaits'
    BY <1>0 DEF Guard, InstallWaits
  <2> QED
    BY <2>5, <2>6, <2>7 DEF CatalogInv
<1> QED
  BY <1>1, <1>2 DEF Guard

LEMMA FinishInstallKeeps == ASSUME CatalogInv, FinishInstall PROVE CatalogInv'
<1>0. CatalogTypes /\ KnownArePublished /\ OneRefreshes /\ InstallWaits /\ StagedIsAllowed
      /\ DecidesByWhatIs /\ DecidedIsOff
  BY DEF CatalogInv
<1>1. install \in [step : {"stage"}, gen : Nat, version : Version, byStore : BOOLEAN]
  BY <1>0 DEF FinishInstall, CatalogTypes, Installs
<1>2. receipt' \in Receipts /\ receipt'.version = install.version
  BY <1>1 DEF FinishInstall, Receipts, NoCatalog
<1>3. applied' = NoCatalog \/ (applied' = applied /\ applied = install.gen)
  BY DEF FinishInstall
<1>4. CatalogTypes' /\ KnownArePublished'
  BY <1>0, <1>2, <1>3 DEF FinishInstall, CatalogTypes, Installs, NoInstall, KnownArePublished, Published, NoCatalog
<1>5. OneRefreshes' /\ StagedIsAllowed' /\ DecidesByWhatIs'
  BY <1>0 DEF FinishInstall, ReceiptsFree, OneRefreshes, StagedIsAllowed, DecidesByWhatIs, NoInstall
<1>6. InstallWaits'
  BY <1>0 DEF FinishInstall, InstallWaits
<1>7. DecidedIsOff'
  BY <1>0, <1>2, <1>3 DEF FinishInstall, StagedIsAllowed, DecidedIsOff, Blocks
<1> QED
  BY <1>4, <1>5, <1>6, <1>7 DEF CatalogInv

LEMMA RebootKeeps == ASSUME CatalogInv, Reboot PROVE CatalogInv'
<1>0. CatalogTypes /\ KnownArePublished
  BY DEF CatalogInv
<1>1. /\ catalog' \in [gen : Nat, etag : Nat, state : {"fresh", "stale", "unavailable"}]
      /\ cached' \in [body : Nat, signature : Nat, etag : Nat]
      /\ catalog'.gen \in {0, cached.body} /\ cached'.body \in {0, cached.body}
  BY <1>0 DEF Reboot, CatalogTypes, NoCatalog
<1>2. /\ \A r \in Refresher : refreshes'[r].step = "none"
      /\ refreshes' \in [Refresher -> RefreshTasks] /\ install' \in Installs /\ install'.step = "none"
  BY DEF Reboot, IdleRefresh, RefreshTasks, NoInstall, Installs
<1>3. CatalogTypes'
  BY <1>0, <1>1, <1>2 DEF Reboot, CatalogTypes, NoCatalog
<1>4. KnownArePublished'
  BY <1>0, <1>1, <1>2 DEF Reboot, KnownArePublished, Published, NoCatalog, CacheSteps, CatalogTypes
<1>5. OneRefreshes' /\ InstallWaits' /\ StagedIsAllowed' /\ DecidesByWhatIs' /\ DecidedIsOff'
  BY <1>2, CatalogAssumption DEF Reboot, OneRefreshes, InstallWaits, StagedIsAllowed, DecidesByWhatIs, DecidedIsOff
<1> QED
  BY <1>3, <1>4, <1>5 DEF CatalogInv

LEMMA CatalogInvNext == CatalogInv /\ [CatalogNext]_catalogVars => CatalogInv'
<1> SUFFICES ASSUME CatalogInv, [CatalogNext]_catalogVars PROVE CatalogInv'
  OBVIOUS
<1>1. CASE UNCHANGED catalogVars
  <2>1. CatalogTypes' /\ KnownArePublished' /\ OneRefreshes' /\ InstallWaits'
    BY <1>1 DEF catalogVars, CatalogInv, CatalogTypes, KnownArePublished, Published, OneRefreshes, InstallWaits
  <2>2. StagedIsAllowed' /\ DecidesByWhatIs' /\ DecidedIsOff'
    BY <1>1 DEF catalogVars, CatalogInv, StagedIsAllowed, DecidesByWhatIs, DecidedIsOff, HasPlugin, Blocks
  <2> QED
    BY <2>1, <2>2 DEF CatalogInv
<1>2. CASE CatalogNext
  BY <1>2, ServerKeeps, ToggleKeeps, StartInstallKeeps, GuardKeeps, FinishInstallKeeps, RebootKeeps, AskKeeps,
     FailKeeps, GetKeeps, SignatureKeeps, WriteKeeps, AdoptKeeps, ReadKeeps, SwitchKeeps, SaveKeeps,
     EndKeepsCatalog DEF CatalogNext
<1> QED
  BY <1>1, <1>2

\* A plugin whose version the applied catalog blocks is off, unless the user or an install
\* touched it since, for all versions, refreshes and catalogs: the server publishes between
\* any two requests and the app dies between any two files (reconcile_blocklist).
THEOREM BlockedVersionsAreOff == CatalogSpec => []BlockedIsOff
<1>1. CatalogInv => BlockedIsOff
  BY DEF CatalogInv, DecidedIsOff, BlockedIsOff, ReceiptsFree
<1> QED
  BY <1>1, CatalogInvInit, CatalogInvNext, PTL DEF CatalogSpec

--------------------------------------------------------------------------------
(****************************************************************************)
(* ConfigThemes.  smabar works with the settings that are on disk, and       *)
(* what is on disk can be read.                                              *)
(****************************************************************************)

WatchFields == {"config", "hash", "event", "ready"}
\* The hash is that of a file with the settings smabar works with.
HashIsOfConfig == watch.config = watch.hash.value
\* While it runs and no file event waits, the settings on disk are the ones it works with,
\* even while another change is being written.
NothingUnseen == up /\ ~watch.event /\ ~watch.ready /\ Readable(disk) => watch.config = disk.value
\* What the user did not touch is what smabar wrote last.
OwnWordStands == ~edited => Readable(disk) /\ disk.value = watch.config

ConfigInv == DOMAIN watch = WatchFields /\ HashIsOfConfig /\ NothingUnseen /\ OwnWordStands

LEMMA PrettyIsReadable == ASSUME NEW c PROVE Readable(Pretty(c)) /\ Pretty(c).value = c
<1>1. Pretty(c).form = "pretty" /\ Broken.form = "broken" /\ Absent.form = "absent" /\ Pretty(c).value = c
  BY DEF Pretty, Broken, Absent
<1> QED
  BY <1>1 DEF Readable

LEMMA StartedFits ==
    ASSUME NEW content
    PROVE  LET w == Started(content)
           IN  DOMAIN w = WatchFields /\ w.config = content.value /\ w.hash = content
  BY DEF Started, WatchFields

LEMMA ConfigInvInit == ASSUME ThemeInit PROVE ConfigInv
<1>1. PICK c : disk = Pretty(c)
  BY DEF ThemeInit
<1>2. watch = Started(disk)
  BY DEF ThemeInit
<1>3. Readable(disk)
  BY <1>1, PrettyIsReadable
<1> QED
  BY <1>2, <1>3, StartedFits DEF ConfigInv, HashIsOfConfig, NothingUnseen, OwnWordStands

\* Commands leave the file and what the watcher knows alone: an update only asks for the write.
LEMMA ConfigAside ==
    ASSUME ConfigInv, UNCHANGED <<disk, watch, up, edited>>
    PROVE  ConfigInv'
  BY DEF ConfigInv, HashIsOfConfig, NothingUnseen, OwnWordStands, Readable

LEMMA CommitKeepsConfig == ASSUME ConfigInv, CommitUpdate PROVE ConfigInv'
<1>1. /\ disk' = Pretty(write.new)
      /\ watch' = [watch EXCEPT !.config = write.new, !.hash = Pretty(write.new), !.event = TRUE]
  BY DEF CommitUpdate, RecordWrite
<1>2. /\ DOMAIN watch' = WatchFields /\ watch'.config = write.new /\ watch'.hash = Pretty(write.new)
      /\ watch'.event = TRUE
  BY <1>1 DEF ConfigInv, WatchFields
<1>3. Readable(disk)' /\ disk'.value = write.new
  BY <1>1, PrettyIsReadable DEF Readable
<1>4. watch'.hash.value = write.new
  BY <1>2, PrettyIsReadable
<1> QED
  BY <1>2, <1>3, <1>4 DEF ConfigInv, HashIsOfConfig, NothingUnseen, OwnWordStands

LEMMA EditKeeps == ASSUME ConfigInv, Edit PROVE ConfigInv'
<1>1. watch' = [watch EXCEPT !.event = up] /\ edited' = TRUE /\ UNCHANGED up
  BY DEF Edit
<1>2. /\ DOMAIN watch' = WatchFields /\ watch'.config = watch.config /\ watch'.hash = watch.hash
      /\ watch'.event = up
  BY <1>1 DEF ConfigInv, WatchFields
<1> QED
  BY <1>1, <1>2 DEF ConfigInv, HashIsOfConfig, NothingUnseen, OwnWordStands

LEMMA SettleKeepsConfig == ASSUME ConfigInv, Settle PROVE ConfigInv'
<1>1. watch' = [watch EXCEPT !.event = FALSE, !.ready = TRUE] /\ UNCHANGED <<up, disk, edited>>
  BY DEF Settle
<1>2. /\ DOMAIN watch' = WatchFields /\ watch'.config = watch.config /\ watch'.hash = watch.hash
      /\ watch'.ready = TRUE
  BY <1>1 DEF ConfigInv, WatchFields
<1> QED
  BY <1>1, <1>2 DEF ConfigInv, HashIsOfConfig, NothingUnseen, OwnWordStands, Readable

LEMMA ReloadKeepsConfig == ASSUME ConfigInv, Reload PROVE ConfigInv'
<1>0. UNCHANGED <<up, disk>> /\ Observe(disk) /\ edited' = (edited /\ ~Readable(disk))
  BY DEF Reload
<1>1. CASE disk = watch.hash \/ ~Readable(disk)
  <2>1. watch' = [watch EXCEPT !.ready = FALSE]
    BY <1>0, <1>1 DEF Observe
  <2>2. DOMAIN watch' = WatchFields /\ watch'.config = watch.config /\ watch'.hash = watch.hash
    BY <2>1 DEF ConfigInv, WatchFields
  <2>3. Readable(disk) => watch.config = disk.value
    BY <1>1 DEF ConfigInv, HashIsOfConfig
  <2> QED
    BY <1>0, <2>2, <2>3 DEF ConfigInv, HashIsOfConfig, NothingUnseen, OwnWordStands, Readable
<1>2. CASE ~(disk = watch.hash \/ ~Readable(disk))
  <2>1. watch' = [watch EXCEPT !.ready = FALSE, !.hash = disk, !.config = disk.value]
    BY <1>0, <1>2 DEF Observe
  <2>2. DOMAIN watch' = WatchFields /\ watch'.config = disk.value /\ watch'.hash = disk
    BY <2>1 DEF ConfigInv, WatchFields
  <2> QED
    BY <1>0, <1>2, <2>2 DEF ConfigInv, HashIsOfConfig, NothingUnseen, OwnWordStands, Readable
<1> QED
  BY <1>1, <1>2

\* What a crash leaves can be read, and a start begins with it.
LEMMA CrashKeeps == ASSUME ConfigInv, Crash \/ Restart PROVE ConfigInv'
<1>1. CASE Crash
  <2>1. watch' = [watch EXCEPT !.event = FALSE, !.ready = FALSE] /\ UNCHANGED <<disk, edited>> /\ up' = FALSE
    BY <1>1 DEF Crash
  <2>2. DOMAIN watch' = WatchFields /\ watch'.config = watch.config /\ watch'.hash = watch.hash
    BY <2>1 DEF ConfigInv, WatchFields
  <2> QED
    BY <2>1, <2>2 DEF ConfigInv, HashIsOfConfig, NothingUnseen, OwnWordStands, Readable
<1>2. CASE Restart
  <2>1. watch' = Started(disk')
    BY <1>2 DEF Restart
  <2>2. DOMAIN watch' = WatchFields /\ watch'.config = disk'.value /\ watch'.hash = disk'
    BY <2>1, StartedFits
  <2>3. Readable(disk')
    BY <1>2, PrettyIsReadable DEF Restart, Readable
  <2> QED
    BY <2>2, <2>3 DEF ConfigInv, HashIsOfConfig, NothingUnseen, OwnWordStands, Readable
<1> QED
  BY <1>1, <1>2

LEMMA ConfigInvNext == ASSUME ConfigInv, [ThemeNext]_themeVars PROVE ConfigInv'
<1>1. CASE UNCHANGED themeVars
  BY <1>1, ConfigAside DEF themeVars
<1>2. ASSUME NEW s \in Slot, CommandSteps(s) PROVE ConfigInv'
  <2>1. UNCHANGED <<disk, watch, up, edited>>
    BY <1>2 DEF CommandSteps, SetTheme, Tune, Save, Delete, InstallTheme, Block, Import, ImportFetched,
                Rollback, Emit, Unlink, Restore, DeletedAgain, SaveReceipt, SwitchToDefault, OthersKept
  <2> QED
    BY <2>1, ConfigAside
<1>3. CASE \/ \E name \in Name, doc \in Document : ThemeWrite(name, doc)
           \/ \E name \in Name : ThemeRemove(name)
           \/ FailUpdate \/ LoopTakes \/ LoopEmits \/ SweepReceipts
  BY <1>3, ConfigAside DEF ThemeWrite, ThemeRemove, FailUpdate, LoopTakes, LoopEmits, SweepReceipts, OthersKept
<1> QED
  BY <1>1, <1>2, <1>3, CommitKeepsConfig, EditKeeps, SettleKeepsConfig, ReloadKeepsConfig, CrashKeeps
     DEF ThemeNext

LEMMA ConfigInvHolds == ThemeSpec => []ConfigInv
<1>1. ThemeInit => ConfigInv
  BY ConfigInvInit
<1>2. ConfigInv /\ [ThemeNext]_themeVars => ConfigInv'
  BY ConfigInvNext
<1> QED
  BY <1>1, <1>2, PTL DEF ThemeSpec

\* No edit of the settings file is lost to the debounce, to the suppression of smabar's own
\* writes, or to a write that overlaps it (config/watcher.rs:89, 279).
THEOREM EditsAreSeen == ThemeSpec => []ConfigCatchesUp
<1>1. ConfigInv => ConfigCatchesUp
  BY DEF ConfigInv, NothingUnseen, ConfigCatchesUp
<1> QED
  BY <1>1, ConfigInvHolds, PTL

\* A crash at any moment leaves a settings file that can be read, with the settings smabar
\* worked with, unless the user touched it (config/model.rs:251).
THEOREM DiskStaysComplete == ThemeSpec => []DiskIsComplete
<1>1. ConfigInv => DiskIsComplete
  BY DEF ConfigInv, OwnWordStands, DiskIsComplete
<1> QED
  BY <1>1, ConfigInvHolds, PTL

--------------------------------------------------------------------------------
(****************************************************************************)
(* Shortcuts.  What the page shows is what is set, or it is about to ask     *)
(* or be answered: every change of the pins and every icon that came         *)
(* leaves a notice the page has still to hear, for any pins, downloads,      *)
(* reorders and rejections.                                                  *)
(****************************************************************************)

\* What the page should show with the pins.
Wanted == Cached \cap ToSet(pins)

\* A change or an icon the page has still to be told of.
News == changed # <<>> \/ notices > 0 \/ \E f \in Fetcher : fetchers[f].got
PageOwed == News \/ \E r \in asked : r.gen = dock.gen

\* The answer the page waits for is right, or news come after it.
AnswersFit ==
    \A r \in asked : r.gen = dock.gen /\ r.done =>
        News \/ (r.answer.pins = pins /\ Sites(r.answer.icons) = Wanted)

\* What a page that shows this list has to expect.
ListFits(list) ==
    list = pins \/ PageOwed \/ dock.rolledBack \/ \E w \in reorders : w.list = list
IconsFit == Sites(dock.icons) = Wanted \/ PageOwed \/ dock.rolledBack

\* A reorder whose list the page shows can be taken back.
ReordersFit ==
    \A w \in reorders : w.last =>
        /\ w.list = dock.pins /\ w.previous.pins # w.list
        /\ w.previous.icons = dock.icons
        /\ ListFits(w.previous.pins)

\* The file a download fills is the temporary one, or became the icon.
FillsFit ==
    \A f \in Fetcher : fetchers[f].step = "fill" /\ First(f) \in Website /\ part[First(f)] = "none"
                          => icons[First(f)] # "none"

PinInv == AnswersFit /\ ListFits(dock.pins) /\ IconsFit /\ ReordersFit /\ FillsFit

\* The shapes of the state.
IsSeq(s) == \E S : s \in Seq(S)
FileShapes ==
    /\ IsSeq(changed) /\ notices \in Nat
    /\ icons = [w \in Website |-> icons[w]] /\ part = [w \in Website |-> part[w]]
Download(d) == d = [todo |-> d.todo, step |-> d.step, got |-> d.got] /\ d.got \in BOOLEAN
FetchShapes ==
    /\ fetchers = [f \in Fetcher |-> fetchers[f]]
    /\ \A f \in Fetcher : Download(fetchers[f])
DockShape(d) ==
    /\ d = [pins |-> d.pins, icons |-> d.icons, gen |-> d.gen, rolledBack |-> d.rolledBack]
    /\ d.gen \in Nat /\ d.rolledBack \in BOOLEAN
PageRequest(r) ==
    /\ r = [gen |-> r.gen, done |-> r.done, answer |-> r.answer]
    /\ r.gen \in Nat /\ r.done \in BOOLEAN
AskShapes   == \A r \in asked : PageRequest(r) /\ r.gen <= dock.gen
PageWrite(w) == w = [list |-> w.list, previous |-> w.previous, last |-> w.last]
WriteShapes == \A w \in reorders : PageWrite(w) /\ w.last \in BOOLEAN
PinShapes == FileShapes /\ FetchShapes /\ DockShape(dock) /\ AskShapes /\ WriteShapes

LEMMA AppendShape == \A s, e : IsSeq(s) => IsSeq(Append(s, e)) /\ Append(s, e) # <<>>
<1> SUFFICES ASSUME NEW s, NEW e, NEW S, s \in Seq(S)
             PROVE  IsSeq(Append(s, e)) /\ Append(s, e) # <<>>
  BY DEF IsSeq
<1> DEFINE T == S \cup {e}
<1>1. s \in Seq(T) /\ e \in T
  OBVIOUS
<1> HIDE DEF T
<1>2. Append(s, e) \in Seq(T) /\ Append(s, e) # <<>>
  BY <1>1
<1> QED
  BY <1>2 DEF IsSeq

LEMMA TailShape == \A s : IsSeq(s) /\ s # <<>> => IsSeq(Tail(s))
<1> SUFFICES ASSUME NEW s, s # <<>>, NEW S, s \in Seq(S) PROVE IsSeq(Tail(s))
  BY DEF IsSeq
<1>1. Tail(s) \in Seq(S)
  OBVIOUS
<1> QED
  BY <1>1 DEF IsSeq

\* A write of the pins changes nothing, or is news.
LEMMA PinsWritten ==
  ASSUME PinShapes, NEW list, SetPins(list)
  PROVE  IsSeq(changed') /\ (pins' # pins => changed' # <<>>)
         /\ (changed # <<>> => changed' # <<>>)
  BY AppendShape DEF SetPins, PinShapes, FileShapes

\* A reorder goes on as one whose list the page no longer shows.
LEMMA SupersededFacts ==
  ASSUME NEW W, \A w \in W : PageWrite(w)
  PROVE  /\ \A w \in Superseded(W) : PageWrite(w) /\ w.last = FALSE
         /\ \A w \in W : \E v \in Superseded(W) : v.list = w.list
<1>1. ASSUME NEW w \in W
      PROVE  [w EXCEPT !.last = FALSE] =
                [list |-> w.list, previous |-> w.previous, last |-> FALSE]
  <2>1. PICK a, b, c : w = [list |-> a, previous |-> b, last |-> c]
    BY DEF PageWrite
  <2>2. w.list = a /\ w.previous = b
    BY <2>1
  <2>3. \A l : [w EXCEPT !.last = l] = [list |-> a, previous |-> b, last |-> l]
    BY <2>1
  <2> QED
    BY <2>2, <2>3, Zenon
<1>2. ASSUME NEW v \in Superseded(W) PROVE PageWrite(v) /\ v.last = FALSE
  <2>1. PICK w \in W : v = [w EXCEPT !.last = FALSE]
    BY Zenon DEF Superseded
  <2>2. v = [list |-> w.list, previous |-> w.previous, last |-> FALSE]
    BY <1>1, <2>1, Zenon
  <2> QED
    BY <2>2 DEF PageWrite
<1>3. ASSUME NEW w \in W PROVE \E v \in Superseded(W) : v.list = w.list
  <2>1. [w EXCEPT !.last = FALSE] \in Superseded(W)
    BY Zenon DEF Superseded
  <2>2. [w EXCEPT !.last = FALSE].list = w.list
    <3> HIDE DEF Superseded
    <3> QED
      BY <1>1
  <2> QED
    BY <2>1, <2>2, Zenon
<1> QED
  BY <1>2, <1>3, Zenon

\* A download that goes on leaves the others alone.
LEMMA FetcherSet ==
  ASSUME FetchShapes, NEW f \in Fetcher, NEW d, Download(d), fetchers' = [fetchers EXCEPT ![f] = d]
  PROVE  /\ FetchShapes' /\ fetchers'[f] = d
         /\ \A g \in Fetcher \ {f} : fetchers'[g] = fetchers[g]
<1>1. fetchers'[f] = d /\ \A g \in Fetcher \ {f} : fetchers'[g] = fetchers[g]
  BY DEF FetchShapes
<1>2. fetchers' = [g \in Fetcher |-> fetchers'[g]]
  BY DEF FetchShapes
<1>3. ASSUME NEW g \in Fetcher PROVE Download(fetchers'[g])
  BY <1>1 DEF FetchShapes
<1> QED
  BY <1>1, <1>2, <1>3 DEF FetchShapes

\* What an answer that is given now shows.
LEMMA ResolvedFacts == Resolved.pins = pins /\ Sites(Resolved.icons) = Wanted
<1>1. Resolved.pins = pins
      /\ Resolved.icons = {<<w, icons[w]>> : w \in Wanted}
  BY DEF Resolved, Wanted
<1>2. \A w : <<w, icons[w]>>[1] = w
  OBVIOUS
<1>3. {i[1] : i \in {<<w, icons[w]>> : w \in Wanted}} = Wanted
  BY <1>2
<1> QED
  BY <1>1, <1>3 DEF Sites

LEMMA PinInit1 == PinInit => PinShapes /\ PinInv
<1> SUFFICES ASSUME PinInit PROVE PinShapes /\ PinInv
  OBVIOUS
<1>1. IsSeq(changed)
  BY DEF PinInit, IsSeq
<1>2. PinShapes
  <2>1. DockShape(dock)
    <3>1. dock = [pins |-> pins, icons |-> Resolved.icons, gen |-> 0, rolledBack |-> FALSE]
      BY DEF PinInit
    <3> HIDE DEF Resolved
    <3> QED
      BY <3>1 DEF DockShape
  <2>2. FetchShapes
    <3>1. fetchers = [f \in Fetcher |-> NoFetch]
      BY DEF PinInit
    <3>2. Download(NoFetch)
      BY DEF Download, NoFetch
    <3> QED
      BY <3>1, <3>2 DEF FetchShapes
  <2>3. FileShapes
    BY <1>1 DEF PinInit, FileShapes
  <2>4. AskShapes /\ WriteShapes
    BY DEF PinInit, AskShapes, WriteShapes
  <2> QED
    BY <2>1, <2>2, <2>3, <2>4 DEF PinShapes
<1>3. ListFits(dock.pins) /\ IconsFit
  BY ResolvedFacts DEF PinInit, ListFits, IconsFit
<1> QED
  BY <1>2, <1>3 DEF PinInit, PinInv, AnswersFit, ReordersFit, FillsFit, NoFetch

\* Whatever happens beside the page is news to it, or changes nothing.
LEMMA Beside ==
  ASSUME PinInv, UNCHANGED <<dock, asked, reorders>>,
         News' \/ (pins' = pins /\ Cached' = Cached /\ (News => News'))
  PROVE  AnswersFit' /\ ListFits(dock.pins)' /\ IconsFit' /\ ReordersFit'
<1>1. News' \/ (pins' = pins /\ Wanted' = Wanted /\ (News => News'))
  BY DEF Wanted
<1>2. PageOwed => PageOwed'
  BY DEF PageOwed, AnswersFit, PinInv
<1>3. \A list : ListFits(list) => ListFits(list)'
  BY <1>1, <1>2 DEF ListFits, PageOwed
<1>4. AnswersFit'
  BY <1>1 DEF PinInv, AnswersFit
<1>5. IconsFit'
  BY <1>1, <1>2 DEF PinInv, IconsFit, PageOwed
<1>6. ReordersFit'
  BY <1>3 DEF PinInv, ReordersFit
<1>7. ListFits(dock.pins)'
  BY <1>3 DEF PinInv
<1> QED
  BY <1>4, <1>5, <1>6, <1>7

\* A download goes on, keeping what it got.
LEMMA Advances ==
  ASSUME NEW d, Download(d), NEW fetched \in BOOLEAN
  PROVE  /\ Download(Advanced(d, fetched)) /\ Advanced(d, fetched).step # "fill"
         /\ Advanced(d, fetched).got = (d.got \/ fetched)
  BY DEF Download, Advanced

\* A download keeps the shape of the state and what is news.
LEMMA DownloadKeeps ==
  ASSUME PinShapes, NEW f \in Fetcher, NEW d, Download(d), fetchers[f].got => d.got,
         fetchers' = [fetchers EXCEPT ![f] = d],
         UNCHANGED <<pins, changed, notices, dock, asked, reorders>>,
         icons' = [w \in Website |-> icons'[w]], part' = [w \in Website |-> part'[w]]
  PROVE  /\ PinShapes' /\ (News => News') /\ (d.got => News')
         /\ fetchers'[f] = d
         /\ \A g \in Fetcher \ {f} : fetchers'[g] = fetchers[g]
<1>1. FetchShapes' /\ fetchers'[f] = d /\ \A g \in Fetcher \ {f} : fetchers'[g] = fetchers[g]
  BY FetcherSet DEF PinShapes
<1>2. FileShapes'
  BY DEF PinShapes, FileShapes
<1>3. DockShape(dock)' /\ AskShapes' /\ WriteShapes'
  BY DEF PinShapes, DockShape, AskShapes, WriteShapes
<1>4. (News => News') /\ (d.got => News')
  BY <1>1 DEF News
<1> QED
  BY <1>1, <1>2, <1>3, <1>4 DEF PinShapes

\* A download keeps its file, and its icon is news.
LEMMA FetchStep ==
  ASSUME PinShapes, PinInv, NEW f \in Fetcher,
         NoIcon(f) \/ Truncate(f) \/ Fill(f) \/ Rename(f)
  PROVE  /\ PinShapes' /\ FillsFit'
         /\ News' \/ (pins' = pins /\ Cached' = Cached /\ (News => News'))
<1>0. /\ Download(fetchers[f]) /\ fetchers = [g \in Fetcher |-> fetchers[g]]
      /\ icons = [w \in Website |-> icons[w]] /\ part = [w \in Website |-> part[w]]
  BY DEF PinShapes, FetchShapes, FileShapes
<1>1. UNCHANGED <<pins, changed, notices, dock, asked, reorders>>
  BY DEF NoIcon, Truncate, Fill, Rename
<1> DEFINE WithStep(s) == [todo |-> fetchers[f].todo, step |-> s, got |-> fetchers[f].got]
<1>2. ASSUME NEW s, fetchers' = [fetchers EXCEPT ![f].step = s]
      PROVE  fetchers' = [fetchers EXCEPT ![f] = WithStep(s)] /\ Download(WithStep(s))
             /\ (fetchers[f].got => WithStep(s).got) /\ WithStep(s).step = s
  <2>1. [fetchers[f] EXCEPT !.step = s] = WithStep(s)
    BY <1>0 DEF Download
  <2> QED
    BY <1>0, <1>2, <2>1 DEF Download
<1> HIDE DEF WithStep
<1>4. CASE NoIcon(f)
  <2> DEFINE d == Advanced(fetchers[f], FALSE)
  <2>1. fetchers' = [fetchers EXCEPT ![f] = d] /\ UNCHANGED <<icons, part>>
    BY <1>4 DEF NoIcon
  <2>2. Download(d) /\ d.step # "fill" /\ (fetchers[f].got => d.got)
    BY <1>0, Advances
  <2> HIDE DEF d
  <2>3. /\ PinShapes' /\ (News => News') /\ fetchers'[f] = d
        /\ \A g \in Fetcher \ {f} : fetchers'[g] = fetchers[g]
    BY <1>0, <1>1, <2>1, <2>2, DownloadKeeps
  <2>4. FillsFit'
    BY <2>1, <2>2, <2>3 DEF FillsFit, PinInv, First
  <2> QED
    BY <1>1, <2>1, <2>3, <2>4 DEF Cached
<1>5. CASE Truncate(f)
  <2>1. fetchers' = [fetchers EXCEPT ![f].step = "fill"] /\ icons' = icons
        /\ part' = [part EXCEPT ![First(f)] = "partial"]
    BY <1>5 DEF Truncate
  <2>2. part' = [w \in Website |-> part'[w]]
        /\ \A w \in Website : part'[w] = IF w = First(f) THEN "partial" ELSE part[w]
    BY <1>0, <2>1
  <2>3. /\ PinShapes' /\ (News => News') /\ fetchers'[f] = WithStep("fill")
        /\ \A g \in Fetcher \ {f} : fetchers'[g] = fetchers[g]
    BY <1>0, <1>1, <1>2, <2>1, <2>2, DownloadKeeps
  <2>4. First(f)' = First(f)
    BY <2>3 DEF First, WithStep
  <2>5. FillsFit'
    BY <2>1, <2>2, <2>3, <2>4 DEF FillsFit, PinInv, First
  <2> QED
    BY <1>1, <2>1, <2>3, <2>5 DEF Cached
<1>6. CASE Fill(f)
  <2>1. /\ fetchers' = [fetchers EXCEPT ![f].step = "rename"] /\ fetchers[f].step = "fill"
        /\ \/ part[First(f)] # "none" /\ part' = [part EXCEPT ![First(f)] = "full"] /\ icons' = icons
           \/ part[First(f)] = "none" /\ icons' = [icons EXCEPT ![First(f)] = "full"] /\ part' = part
    BY <1>6 DEF Fill, Working
  <2>8. part' = [w \in Website |-> part'[w]] /\ icons' = [w \in Website |-> icons'[w]]
    BY <1>0, <2>1
  <2> DEFINE Files == \A w \in Website : /\ part'[w] = "none" => part[w] = "none"
                                         /\ icons'[w] = icons[w]
                                            \/ (w = First(f) /\ part[w] = "none" /\ icons'[w] = "full")
  <2>9. ASSUME part[First(f)] # "none" PROVE Files
    <3>1. /\ \A w \in Website : part'[w] = part[w] \/ part'[w] = "full"
          /\ \A w \in Website : icons'[w] = icons[w]
      BY <1>0, <2>1, <2>9
    <3>2. \A w \in Website : part'[w] = "none" => part[w] = "none"
      BY <1>0, <2>1, <2>9
    <3> QED
      BY <3>1, <3>2
  <2>10. ASSUME part[First(f)] = "none" PROVE Files
    <3>1. /\ \A w \in Website : part'[w] = part[w]
          /\ \A w \in Website : icons'[w] = IF w = First(f) THEN "full" ELSE icons[w]
      BY <1>0, <2>1, <2>10
    <3> QED
      BY <2>10, <3>1
  <2>2. Files
    BY <2>9, <2>10
  <2>3. /\ PinShapes' /\ (News => News') /\ fetchers'[f] = WithStep("rename")
        /\ WithStep("rename").step = "rename"
        /\ \A g \in Fetcher \ {f} : fetchers'[g] = fetchers[g]
    BY <1>0, <1>1, <1>2, <2>1, <2>8, DownloadKeeps
  <2>4. \A w \in Website : icons'[w] # "none" <=> icons[w] # "none"
    BY <2>1, <2>2 DEF PinInv, FillsFit
  <2>5. Cached' = Cached
    BY <2>4 DEF Cached
  <2>6. FillsFit'
    <3> SUFFICES ASSUME NEW g \in Fetcher, fetchers'[g].step = "fill",
                        First(g)' \in Website, part'[First(g)'] = "none"
                 PROVE  icons'[First(g)'] # "none"
      BY DEF FillsFit
    <3>1. g # f /\ fetchers[g].step = "fill" /\ First(g)' = First(g)
      BY <2>3 DEF First
    <3>2. part[First(g)] = "none" => icons[First(g)] # "none"
      BY <3>1 DEF PinInv, FillsFit
    <3>3. part[First(g)] = "none"
      BY <2>2, <3>1
    <3> QED
      BY <2>4, <3>1, <3>2, <3>3
  <2> QED
    BY <1>1, <2>3, <2>5, <2>6
<1>7. CASE Rename(f)
  <2> DEFINE w0 == First(f)
  <2>1. PICK fetched \in BOOLEAN : fetched = (part[w0] # "none")
    OBVIOUS
  <2> DEFINE d == Advanced(fetchers[f], fetched)
  <2>2. /\ fetchers' = [fetchers EXCEPT ![f] = Advanced(fetchers[f], part[w0] # "none")]
        /\ part' = [part EXCEPT ![w0] = "none"]
        /\ icons' = [icons EXCEPT ![w0] = IF part[w0] = "none" THEN icons[w0] ELSE part[w0]]
    BY <1>7, Zenon DEF Rename
  <2>3. fetchers' = [fetchers EXCEPT ![f] = d]
    BY <2>1, <2>2, Zenon
  <2>4. Download(d) /\ d.step # "fill" /\ (fetchers[f].got => d.got) /\ (fetched => d.got)
    BY <1>0, Advances
  <2>5. /\ part' = [w \in Website |-> part'[w]] /\ icons' = [w \in Website |-> icons'[w]]
        /\ \A w \in Website : /\ part'[w] = IF w = w0 THEN "none" ELSE part[w]
                              /\ icons'[w] = IF w = w0 /\ part[w] # "none" THEN part[w] ELSE icons[w]
    BY <1>0, <2>2
  <2> HIDE DEF d, w0
  <2>6. /\ PinShapes' /\ (News => News') /\ (fetched => News') /\ fetchers'[f] = d
        /\ \A g \in Fetcher \ {f} : fetchers'[g] = fetchers[g]
    BY <1>0, <1>1, <2>3, <2>4, <2>5, DownloadKeeps
  <2>7. ASSUME ~fetched PROVE Cached' = Cached
    <3>1. \A w \in Website : icons'[w] = icons[w]
      BY <2>1, <2>5, <2>7
    <3> QED
      BY <3>1 DEF Cached
  <2>8. FillsFit'
    <3> SUFFICES ASSUME NEW g \in Fetcher, fetchers'[g].step = "fill",
                        First(g)' \in Website, part'[First(g)'] = "none"
                 PROVE  icons'[First(g)'] # "none"
      BY DEF FillsFit
    <3>1. g # f /\ fetchers[g].step = "fill" /\ First(g)' = First(g)
      BY <2>4, <2>6 DEF First
    <3>2. part[First(g)] = "none" => icons[First(g)] # "none"
      BY <3>1 DEF PinInv, FillsFit
    <3>3. part[First(g)] # "none" => First(g) = w0
      BY <2>5, <3>1
    <3> QED
      BY <2>5, <3>1, <3>2, <3>3
  <2> QED
    BY <1>1, <2>6, <2>7, <2>8
<1> QED
  BY <1>4, <1>5, <1>6, <1>7

\* Pins, the loop and the downloads.
LEMMA BesideStep ==
  ASSUME PinShapes, PinInv,
         \/ \E p \in Pin : Unpin(p) \/ \E index \in 0 .. Len(pins) : PinShortcut(p, index)
         \/ \E f \in Fetcher : LoopTells(f) \/ NoIcon(f) \/ Truncate(f) \/ Fill(f) \/ Rename(f)
                                 \/ EmitIcons(f)
  PROVE  PinShapes' /\ PinInv'
<1>1. ASSUME NEW list, SetPins(list), UNCHANGED <<notices, icons, part, fetchers, dock, asked, reorders>>
      PROVE  PinShapes' /\ PinInv'
  <2>0. IsSeq(changed') /\ (pins' # pins => changed' # <<>>) /\ (changed # <<>> => changed' # <<>>)
    BY <1>1, PinsWritten
  <2>1. PinShapes'
    BY <1>1, <2>0 DEF PinShapes, FileShapes, FetchShapes, DockShape, AskShapes, WriteShapes
  <2>2. News' \/ (pins' = pins /\ Cached' = Cached /\ (News => News'))
    BY <1>1, <2>0 DEF News, Cached
  <2>3. FillsFit'
    BY <1>1 DEF FillsFit, PinInv, First
  <2> QED
    BY <1>1, <2>1, <2>2, <2>3, Beside DEF PinInv
<1>2. ASSUME NEW p \in Pin, Unpin(p) PROVE PinShapes' /\ PinInv'
  BY <1>1, <1>2 DEF Unpin
<1>3. ASSUME NEW p \in Pin, NEW index \in 0 .. Len(pins), PinShortcut(p, index)
      PROVE  PinShapes' /\ PinInv'
  BY <1>1, <1>3 DEF PinShortcut
<1>4. ASSUME NEW f \in Fetcher, LoopTells(f) PROVE PinShapes' /\ PinInv'
  <2>0. /\ changed # <<>> /\ fetchers[f] = NoFetch /\ changed' = Tail(changed)
        /\ notices' = notices + 1
        /\ UNCHANGED <<pins, icons, part, dock, asked, reorders>>
    BY <1>4 DEF LoopTells
  <2> DEFINE missing == SelectSeq(Websites(Head(changed)), LAMBDA w : w \notin Cached)
             step == IF missing = <<>> THEN "idle" ELSE "download"
             d == [todo |-> missing, got |-> FALSE, step |-> step]
  <2>1. fetchers' = [fetchers EXCEPT ![f] = d] /\ step # "fill"
    BY <1>4 DEF LoopTells
  <2> HIDE DEF missing, step
  <2>9. Download(d) /\ d.step # "fill"
    BY <2>1 DEF Download
  <2> HIDE DEF d
  <2>2. FetchShapes' /\ fetchers'[f] = d /\ \A g \in Fetcher \ {f} : fetchers'[g] = fetchers[g]
    BY <2>1, <2>9, FetcherSet DEF PinShapes
  <2>8. IsSeq(changed') /\ notices' \in Nat
    BY <2>0, TailShape DEF PinShapes, FileShapes
  <2>3. PinShapes'
    BY <2>0, <2>2, <2>8 DEF PinShapes, FileShapes, DockShape, AskShapes, WriteShapes
  <2>4. News'
    BY <2>0 DEF News, PinShapes, FileShapes
  <2>5. FillsFit'
    BY <2>0, <2>2, <2>9 DEF FillsFit, PinInv, First
  <2> QED
    BY <2>0, <2>3, <2>4, <2>5, Beside DEF PinInv
<1>5. ASSUME NEW f \in Fetcher, EmitIcons(f) PROVE PinShapes' /\ PinInv'
  <2>0. /\ notices' = notices + (IF fetchers[f].got THEN 1 ELSE 0)
        /\ fetchers' = [fetchers EXCEPT ![f] = NoFetch]
        /\ UNCHANGED <<pins, changed, icons, part, dock, asked, reorders>>
    BY <1>5 DEF EmitIcons
  <2>1. Download(NoFetch) /\ NoFetch.step = "idle" /\ ~NoFetch.got
    BY DEF NoFetch, Download
  <2>2. FetchShapes' /\ fetchers'[f] = NoFetch
        /\ \A g \in Fetcher \ {f} : fetchers'[g] = fetchers[g]
    BY <2>0, <2>1, FetcherSet DEF PinShapes
  <2>8. notices' \in Nat
    BY <2>0 DEF PinShapes, FileShapes
  <2>3. PinShapes'
    BY <2>0, <2>2, <2>8 DEF PinShapes, FileShapes, DockShape, AskShapes, WriteShapes
  <2>4. News => News'
    BY <2>0, <2>2 DEF News, PinShapes, FileShapes
  <2>5. FillsFit'
    BY <2>0, <2>1, <2>2 DEF FillsFit, PinInv, First
  <2>6. Cached' = Cached
    BY <2>0 DEF Cached
  <2> QED
    BY <2>0, <2>3, <2>4, <2>5, <2>6, Beside DEF PinInv
<1>6. ASSUME NEW f \in Fetcher, NoIcon(f) \/ Truncate(f) \/ Fill(f) \/ Rename(f)
      PROVE  PinShapes' /\ PinInv'
  <2>1. UNCHANGED <<dock, asked, reorders>>
    BY <1>6 DEF NoIcon, Truncate, Fill, Rename
  <2> QED
    BY <1>6, <2>1, FetchStep, Beside DEF PinInv
<1> QED
  BY <1>2, <1>3, <1>4, <1>5, <1>6

\* The page asks, and is answered.
LEMMA AskStep ==
  ASSUME PinShapes, PinInv, Hear \/ \E r \in asked : GetShortcuts(r) \/ Deliver(r)
  PROVE  PinShapes' /\ PinInv'
<1>1. CASE Hear
  <2>1. /\ notices > 0 /\ notices' = notices - 1
        /\ dock' = [dock EXCEPT !.gen = @ + 1]
        /\ asked' = asked \cup {[gen |-> dock.gen + 1, done |-> FALSE, answer |-> NoAnswer]}
        /\ UNCHANGED <<pins, changed, icons, part, fetchers, reorders>>
    BY <1>1 DEF Hear
  <2> DEFINE new == [gen |-> dock.gen + 1, done |-> FALSE, answer |-> NoAnswer]
  <2>2. dock' = [pins |-> dock.pins, icons |-> dock.icons, gen |-> dock.gen + 1,
                 rolledBack |-> dock.rolledBack]
    BY <2>1 DEF PinShapes, DockShape
  <2>0. dock.gen \in Nat /\ dock.rolledBack \in BOOLEAN
        /\ \A r \in asked : PageRequest(r) /\ r.gen <= dock.gen
    BY DEF PinShapes, DockShape, AskShapes
  <2>10. PageRequest(new) /\ new.gen = dock'.gen /\ new.done = FALSE
    BY <2>0, <2>2 DEF PageRequest
  <2>11. asked' = asked \cup {new}
    BY <2>1
  <2> HIDE DEF new
  <2>12. dock'.gen = dock.gen + 1 /\ dock'.pins = dock.pins /\ dock'.icons = dock.icons
         /\ dock'.rolledBack = dock.rolledBack
    BY <2>2
  <2>13. AskShapes'
    BY <2>0, <2>10, <2>11, <2>12 DEF AskShapes, PageRequest
  <2>14. DockShape(dock)'
    BY <2>0, <2>2 DEF DockShape
  <2>15. FileShapes' /\ FetchShapes' /\ WriteShapes'
    BY <2>1 DEF PinShapes, FileShapes, FetchShapes, WriteShapes
  <2>3. PinShapes'
    BY <2>13, <2>14, <2>15 DEF PinShapes
  <2>4. PageOwed'
    BY <2>10, <2>11 DEF PageOwed
  <2>5. AnswersFit'
    <3>1. \A r \in asked' : r.gen = dock'.gen => r.done = FALSE
      BY <2>0, <2>10, <2>11, <2>12 DEF PageRequest
    <3> QED
      BY <3>1 DEF AnswersFit
  <2>6. ListFits(dock.pins)' /\ IconsFit' /\ \A list : ListFits(list)'
    BY <2>4 DEF ListFits, IconsFit
  <2>7. ReordersFit'
    BY <2>1, <2>12, <2>6 DEF ReordersFit, PinInv
  <2>8. FillsFit'
    BY <2>1 DEF FillsFit, PinInv, First
  <2> QED
    BY <2>3, <2>5, <2>6, <2>7, <2>8 DEF PinInv
<1>2. ASSUME NEW r \in asked, GetShortcuts(r) PROVE PinShapes' /\ PinInv'
  <2> DEFINE next == [r EXCEPT !.done = TRUE, !.answer = Resolved]
  <2>1. /\ ~r.done /\ asked' = (asked \ {r}) \cup {next}
        /\ UNCHANGED <<pins, changed, notices, icons, part, fetchers, dock, reorders>>
    BY <1>2 DEF GetShortcuts
  <2>0. PageRequest(r) /\ r.gen <= dock.gen
    BY DEF PinShapes, AskShapes
  <2>2. next = [gen |-> r.gen, done |-> TRUE, answer |-> Resolved]
    <3>0. r = [gen |-> r.gen, done |-> r.done, answer |-> r.answer]
      BY <2>0 DEF PageRequest
    <3>1. ASSUME NEW q, NEW t, NEW u, q = [r EXCEPT !.done = t, !.answer = u]
          PROVE  q = [gen |-> r.gen, done |-> t, answer |-> u]
      BY ONLY <3>0, <3>1
    <3> QED
      BY <3>1, Zenon
  <2>10. PageRequest(next) /\ next.gen = r.gen /\ next.answer = Resolved
    <3> HIDE DEF next, Resolved
    <3> QED
      BY <2>0, <2>2 DEF PageRequest
  <2> HIDE DEF next
  <2>11. AskShapes'
    BY <2>0, <2>1, <2>10 DEF PinShapes, AskShapes, PageRequest
  <2>3. PinShapes'
    BY <2>1, <2>11 DEF PinShapes, FileShapes, FetchShapes, DockShape, WriteShapes
  <2>4. (News' <=> News) /\ Wanted' = Wanted
    BY <2>1 DEF News, Wanted, Cached
  <2>5. PageOwed => PageOwed'
    BY <2>1, <2>10, <2>4 DEF PageOwed
  <2>6. AnswersFit'
    <3> SUFFICES ASSUME NEW q \in asked', q.gen = dock'.gen, q.done, ~News'
                 PROVE  q.answer.pins = pins' /\ Sites(q.answer.icons)  = Wanted'
      BY DEF AnswersFit
    <3>1. CASE q = next
      BY <2>1, <2>4, <2>10, <3>1, ResolvedFacts
    <3>2. CASE q # next
      BY <2>1, <2>4, <3>2 DEF AnswersFit, PinInv
    <3> QED
      BY <3>1, <3>2
  <2>7. \A list : ListFits(list) => ListFits(list)'
    BY <2>1, <2>5 DEF ListFits
  <2>8. IconsFit' /\ ReordersFit' /\ ListFits(dock.pins)'
    BY <2>1, <2>4, <2>5, <2>7 DEF IconsFit, ReordersFit, PinInv
  <2>9. FillsFit'
    BY <2>1 DEF FillsFit, PinInv, First
  <2> QED
    BY <2>3, <2>6, <2>8, <2>9 DEF PinInv
<1>3. ASSUME NEW r \in asked, Deliver(r) PROVE PinShapes' /\ PinInv'
  <2>1. /\ r.done /\ asked' = asked \ {r}
        /\ UNCHANGED <<pins, changed, notices, icons, part, fetchers>>
        /\ IF r.gen = dock.gen THEN Show(r.answer) ELSE UNCHANGED <<dock, reorders>>
    BY <1>3 DEF Deliver
  <2>2. (News' <=> News) /\ Wanted' = Wanted
    BY <2>1 DEF News, Wanted, Cached
  <2>3. FillsFit'
    BY <2>1 DEF FillsFit, PinInv, First
  <2>4. CASE r.gen = dock.gen
    <3>1. /\ dock' = [pins |-> r.answer.pins, icons |-> r.answer.icons, gen |-> dock.gen,
                      rolledBack |-> FALSE]
          /\ reorders' = Superseded(reorders)
      BY <2>1, <2>4 DEF Show, PinShapes, DockShape
    <3>2. \A w \in reorders' : PageWrite(w) /\ w.last = FALSE
      BY <3>1, SupersededFacts DEF PinShapes, WriteShapes
    <3>8. DockShape(dock)' /\ dock'.gen = dock.gen
      BY <3>1 DEF PinShapes, DockShape
    <3>9. AskShapes'
      BY <2>1, <3>8 DEF PinShapes, AskShapes
    <3>3. PinShapes'
      BY <2>1, <3>8, <3>9, <3>2 DEF PinShapes, FileShapes, FetchShapes, WriteShapes
    <3>4. News \/ (r.answer.pins = pins /\ Sites(r.answer.icons) = Wanted)
      BY <2>1, <2>4 DEF PinInv, AnswersFit
    <3>5. ListFits(dock.pins)' /\ IconsFit'
      BY <2>1, <2>2, <3>1, <3>4 DEF ListFits, IconsFit, PageOwed
    <3>6. ReordersFit'
      BY <3>2 DEF ReordersFit
    <3>7. AnswersFit'
      BY <2>1, <2>2, <3>1 DEF AnswersFit, PinInv
    <3> QED
      BY <2>3, <3>3, <3>5, <3>6, <3>7 DEF PinInv
  <2>5. CASE r.gen # dock.gen
    <3>1. UNCHANGED <<dock, reorders>>
      BY <2>1, <2>5
    <3>2. PinShapes'
      BY <2>1, <3>1 DEF PinShapes, FileShapes, FetchShapes, DockShape, AskShapes, WriteShapes
    <3>3. PageOwed => PageOwed'
      BY <2>1, <2>2, <2>5, <3>1 DEF PageOwed
    <3>4. \A list : ListFits(list) => ListFits(list)'
      BY <2>1, <3>1, <3>3 DEF ListFits
    <3>5. IconsFit' /\ ReordersFit' /\ ListFits(dock.pins)' /\ AnswersFit'
      BY <2>1, <2>2, <3>1, <3>3, <3>4 DEF IconsFit, ReordersFit, AnswersFit, PinInv
    <3> QED
      BY <2>3, <3>2, <3>5 DEF PinInv
  <2> QED
    BY <2>4, <2>5
<1> QED
  BY <1>1, <1>2, <1>3

\* The user reorders the pins on the page; the write is taken or rejected.
LEMMA ReorderStep ==
  ASSUME PinShapes, PinInv,
         \/ \E from, to \in DOMAIN dock.pins : Reorder(from, to)
         \/ \E w \in reorders : UpdateConfig(w) \/ Rejected(w)
  PROVE  PinShapes' /\ PinInv'
<1>1. ASSUME NEW from \in DOMAIN dock.pins, NEW to \in DOMAIN dock.pins, Reorder(from, to)
      PROVE  PinShapes' /\ PinInv'
  <2>1. PICK list : /\ list # dock.pins
                    /\ dock' = [dock EXCEPT !.pins = list]
                    /\ reorders' = Superseded(reorders)
                                     \cup {[list |-> list, previous |-> dock, last |-> TRUE]}
                    /\ UNCHANGED <<pins, changed, notices, icons, part, fetchers, asked>>
    BY <1>1 DEF Reorder
  <2> DEFINE new == [list |-> list, previous |-> dock, last |-> TRUE]
  <2>0. /\ DockShape(dock) /\ \A w \in reorders : PageWrite(w)
    BY DEF PinShapes, WriteShapes
  <2>2. dock' = [pins |-> list, icons |-> dock.icons, gen |-> dock.gen,
                 rolledBack |-> dock.rolledBack]
    BY <2>0, <2>1 DEF DockShape
  <2>11. \A w \in Superseded(reorders) : PageWrite(w) /\ w.last = FALSE
    BY <2>0, SupersededFacts
  <2>12. \A w \in reorders : \E v \in Superseded(reorders) : v.list = w.list
    BY <2>0, SupersededFacts
  <2>13. /\ PageWrite(new) /\ new.list = list /\ new.last = TRUE
         /\ new.previous.pins = dock.pins /\ new.previous.icons = dock.icons
    BY DEF PageWrite
  <2>14. reorders' = Superseded(reorders) \cup {new}
    BY <2>1
  <2> HIDE DEF new
  <2>15. dock'.gen = dock.gen /\ dock'.pins = list /\ dock'.icons = dock.icons
         /\ dock'.rolledBack = dock.rolledBack
    BY <2>2
  <2>16. DockShape(dock)'
    BY <2>0, <2>2 DEF DockShape
  <2>17. WriteShapes'
    BY <2>11, <2>13, <2>14 DEF WriteShapes
  <2>18. FileShapes' /\ FetchShapes' /\ AskShapes'
    BY <2>1, <2>15 DEF PinShapes, FileShapes, FetchShapes, AskShapes
  <2>3. PinShapes'
    BY <2>16, <2>17, <2>18 DEF PinShapes
  <2>4. (News' <=> News) /\ Wanted' = Wanted /\ (PageOwed' <=> PageOwed)
    BY <2>1, <2>15 DEF News, Wanted, Cached, PageOwed
  <2>5. AnswersFit'
    BY <2>1, <2>15, <2>4 DEF AnswersFit, PinInv
  <2>6. ListFits(dock.pins)'
    BY <2>13, <2>14, <2>15 DEF ListFits
  <2>7. IconsFit'
    BY <2>1, <2>15, <2>4 DEF IconsFit, PinInv
  <2>8. \A l : ListFits(l) => ListFits(l)'
    BY <2>1, <2>12, <2>14, <2>15, <2>4 DEF ListFits
  <2>9. ReordersFit'
    BY <2>11, <2>13, <2>14, <2>15, <2>8, <2>1 DEF ReordersFit, PinInv
  <2>10. FillsFit'
    BY <2>1 DEF FillsFit, PinInv, First
  <2> QED
    BY <2>3, <2>5, <2>6, <2>7, <2>9, <2>10 DEF PinInv
<1>2. ASSUME NEW w \in reorders, UpdateConfig(w) PROVE PinShapes' /\ PinInv'
  <2>1. /\ SetPins(w.list) /\ pins' = w.list /\ reorders' = reorders \ {w}
        /\ UNCHANGED <<notices, icons, part, fetchers, dock, asked>>
    BY <1>2 DEF UpdateConfig, SetPins
  <2>0. IsSeq(changed') /\ (pins' # pins => changed' # <<>>) /\ (changed # <<>> => changed' # <<>>)
    BY <2>1, PinsWritten
  <2>2. PinShapes'
    BY <2>1, <2>0 DEF PinShapes, FileShapes, FetchShapes, DockShape, AskShapes, WriteShapes
  <2>3. News' \/ (pins' = pins /\ Wanted' = Wanted /\ (News => News'))
    BY <2>1, <2>0 DEF News, Wanted, Cached
  <2>4. PageOwed => PageOwed'
    BY <2>1, <2>3, <2>0 DEF PageOwed, News
  <2>5. \A list : ListFits(list) => ListFits(list)'
    BY <2>1, <2>3, <2>4 DEF ListFits, PageOwed
  <2>6. AnswersFit'
    BY <2>1, <2>3 DEF AnswersFit, PinInv
  <2>7. IconsFit'
    BY <2>1, <2>3, <2>4 DEF IconsFit, PinInv, PageOwed
  <2>8. ReordersFit' /\ ListFits(dock.pins)'
    BY <2>1, <2>5 DEF ReordersFit, PinInv
  <2>9. FillsFit'
    BY <2>1 DEF FillsFit, PinInv, First
  <2> QED
    BY <2>2, <2>6, <2>7, <2>8, <2>9 DEF PinInv
<1>3. ASSUME NEW w \in reorders, Rejected(w) PROVE PinShapes' /\ PinInv'
  <2>1. /\ reorders' = Superseded(reorders \ {w})
        /\ dock' = [pins |-> w.previous.pins, icons |-> w.previous.icons, gen |-> dock.gen,
                    rolledBack |-> dock.rolledBack \/ ~w.last]
        /\ UNCHANGED <<pins, changed, notices, icons, part, fetchers, asked>>
    BY <1>3 DEF Rejected, PinShapes, DockShape
  <2>0. /\ DockShape(dock) /\ w.last \in BOOLEAN /\ \A v \in reorders \ {w} : PageWrite(v)
    BY DEF PinShapes, WriteShapes
  <2>10. \A v \in reorders' : PageWrite(v) /\ v.last = FALSE
    BY <2>0, <2>1, SupersededFacts
  <2>11. \A u \in reorders \ {w} : \E v \in reorders' : v.list = u.list
    BY <2>0, <2>1, SupersededFacts
  <2>2. /\ \A v \in reorders' : PageWrite(v) /\ v.last = FALSE
        /\ \A u \in reorders \ {w} : \E v \in reorders' : v.list = u.list
    BY <2>10, <2>11
  <2>12. DockShape(dock)' /\ dock'.gen = dock.gen
    BY <2>0, <2>1 DEF DockShape
  <2>13. FileShapes' /\ FetchShapes' /\ AskShapes' /\ WriteShapes'
    BY <2>1, <2>10, <2>12 DEF PinShapes, FileShapes, FetchShapes, AskShapes, WriteShapes
  <2>3. PinShapes'
    BY <2>12, <2>13 DEF PinShapes
  <2>4. (News' <=> News) /\ Wanted' = Wanted /\ (PageOwed' <=> PageOwed)
    BY <2>1 DEF News, Wanted, Cached, PageOwed
  <2>5. AnswersFit'
    BY <2>1, <2>4 DEF AnswersFit, PinInv
  <2>6. ListFits(dock.pins)' /\ IconsFit'
    <3>1. CASE ~w.last
      BY <2>1, <3>1 DEF ListFits, IconsFit
    <3>2. CASE w.last
      <4>1. w.previous.icons = dock.icons /\ w.previous.pins # w.list
            /\ ListFits(w.previous.pins)
        BY <3>2 DEF PinInv, ReordersFit
      <4>2. IconsFit'
        BY <2>1, <2>4, <4>1 DEF IconsFit, PinInv
      <4>3. ListFits(dock.pins)'
        BY <2>1, <2>2, <2>4, <4>1 DEF ListFits
      <4> QED
        BY <4>2, <4>3
    <3> QED
      BY <2>0, <3>1, <3>2
  <2>7. ReordersFit'
    BY <2>2 DEF ReordersFit
  <2>8. FillsFit'
    BY <2>1 DEF FillsFit, PinInv, First
  <2> QED
    BY <2>3, <2>5, <2>6, <2>7, <2>8 DEF PinInv
<1> QED
  BY <1>1, <1>2, <1>3

LEMMA PinStep == PinShapes /\ PinInv /\ [PinNext]_pinVars => (PinShapes /\ PinInv)'
<1> SUFFICES ASSUME PinShapes, PinInv, [PinNext]_pinVars PROVE PinShapes' /\ PinInv'
  OBVIOUS
<1>1. CASE PinNext
  BY <1>1, BesideStep, AskStep, ReorderStep DEF PinNext
<1>2. CASE UNCHANGED pinVars
  <2>1. PinShapes'
    BY <1>2 DEF pinVars, PinShapes, FileShapes, FetchShapes, DockShape, AskShapes, WriteShapes
  <2>2. FillsFit'
    BY <1>2 DEF pinVars, PinInv, FillsFit, First
  <2>3. (News => News') /\ Cached' = Cached
    BY <1>2 DEF pinVars, News, Cached
  <2> QED
    BY <1>2, <2>1, <2>2, <2>3, Beside DEF pinVars, PinInv
<1> QED
  BY <1>1, <1>2

\* When nothing is under way the page shows the pins that are set, with an icon
\* wherever one is fetched, for any pins, downloads, reorders and rejections, unless a
\* rejected reorder took back more than itself (bridge.ts, ShortcutZone.tsx, icons.rs).
THEOREM PinsAreShown == PinSpec => []PageShowsPins
<1>1. PinShapes /\ PinInv => PageShowsPins
  <2> SUFFICES ASSUME PinShapes, PinInv, PinsSettled, ~dock.rolledBack
               PROVE  dock.pins = pins /\ Sites(dock.icons) = Sites(Resolved.icons)
    BY DEF PageShowsPins
  <2>1. ~PageOwed /\ reorders = {}
    BY DEF PinsSettled, PageOwed, News, NoFetch
  <2> QED
    BY <2>1, ResolvedFacts DEF PinInv, ListFits, IconsFit
<1> QED
  BY PinInit1, PinStep, <1>1, PTL DEF PinSpec
================================================================================
