--------------------------------- MODULE MCCore ---------------------------------
(***************************************************************************)
(* Bounds of the model checking runs of the settings and themes, the       *)
(* shortcuts, the provider hub, the store's catalog, the media sessions,   *)
(* the audio output and the sounds of plugins.  They share no              *)
(* state that a step of another one waits for, so one run explores each of *)
(* them on its own: moving says which one moves, and the others stay in an *)
(* initial state.                                                          *)
(***************************************************************************)
EXTENDS ConfigThemes, Shortcuts, ProviderHub, StoreCatalog, MediaSessions, SystemAudio, AudioPlayback

CONSTANT Movers   \* which of them the run explores
ASSUME MoverAssumption == Movers \subseteq 
    {"themes", "pins", "hub", "catalog", "media", "audio", "playback"}

VARIABLE moving

--------------------------------------------------------------------------------
\* Commands that overlap each other, a failed write, edits, a crash.
TB(set, tune, save, import, del, rem, inst, block, edit, fail, crash) ==
    [set |-> set, tune |-> tune, save |-> save, import |-> import, write |-> 0, delete |-> del,
     remove |-> rem, install |-> inst, block |-> block, edit |-> edit, fail |-> fail,
     crash |-> crash]
ThemeMixes ==
    {TB(1,0,1,0,0,0,0,0,0,1,0), TB(1,0,0,0,1,0,0,0,0,0,0), TB(0,1,0,0,1,0,0,0,0,1,0),
     TB(1,0,0,0,0,1,0,1,0,1,0), TB(0,1,0,0,0,0,0,0,2,1,1), TB(1,1,0,0,0,0,0,0,1,0,0),
     TB(0,0,1,0,0,0,1,0,0,1,0), [TB(0,0,1,1,0,0,0,0,0,0,0) EXCEPT !.write = 1]}
\* Two deletions of one theme; an import while the page is painted; a theme saved while
\* one of its name is installed.
TwoDeletions  == {TB(0,0,0,0,1,1,0,0,0,0,0)}
ImportPainted == {TB(1,0,0,1,0,0,0,0,0,0,0)}
SaveInstalled == {TB(0,0,1,0,0,0,1,0,0,0,0)}

\* Pins, downloads and orders that overlap.
PIB(pin, unpin, reorder, reject, missing) ==
    [pin |-> pin, unpin |-> unpin, reorder |-> reorder, reject |-> reject, missing |-> missing]
PinMixes == {PIB(2,0,0,0,1), PIB(1,1,0,0,0), PIB(1,0,1,0,0), PIB(0,0,1,1,0), PIB(0,1,1,1,0)}

\* Subscriptions that overlap changes, a failed sample, a plugin that stops.
HB(subscribe, stop, change, failure) ==
    [subscribe |-> subscribe, stop |-> stop, change |-> change, failure |-> failure]
HubMixes == {HB(2,0,2,1), HB(2,1,0,0), HB(2,2,0,0)}
\* A plugin that stops and subscribes again while its sampler publishes.
Resubscribes == {HB(2,1,1,0)}

\* Publications, replays and failures around refreshes, an install, a user's choice, a crash.
CB(publish, replay, refresh, inst, toggle, offline, unlabeled, unsaved, crash) ==
    [publish |-> publish, replay |-> replay, refresh |-> refresh, install |-> inst,
     toggle |-> toggle, offline |-> offline, unlabeled |-> unlabeled, unsaved |-> unsaved,
     crash |-> crash]
CatalogMixes ==
    {CB(2,0,3,0,0,1,0,0,1), CB(1,1,2,0,0,0,0,1,1), CB(2,0,2,0,1,0,0,1,0), CB(1,0,1,1,1,0,0,0,0),
     CB(1,1,2,0,0,0,1,0,0)}
\* The user switches the plugin off while a blocklist is applied, and the block is lifted.
UserChooses == {CB(2,0,2,0,1,0,0,0,0)}

\* Calls among players that come, go and change; a manager that goes stale, backs off, is slow.
VB(call, open, close, change, stale, refuse, slow) ==
    [call |-> call, open |-> open, close |-> close, change |-> change, stale |-> stale,
     refuse |-> refuse, slow |-> slow]
MediaMixes ==
    {VB(2,2,1,0,0,0,0), VB(3,1,0,0,1,1,0), VB(2,1,1,1,0,0,1), VB(2,1,0,0,0,0,3)}
SlowPlayers == {VB(2,2,0,0,0,0,3)}
TwoPlayers  == {<<"a", 1>>, <<"a", 2>>, <<"b", 1>>}

\* Commands among switches and turns of the knob, an outage, a deadline.
UB(command, switch, volume, outage, deadline) ==
    [command |-> command, switch |-> switch, volume |-> volume, outage |-> outage,
     deadline |-> deadline]
AudioMixes == {UB(2,1,1,0,1), UB(1,1,1,1,0), UB(2,0,0,1,1), UB(0,2,2,0,0)}

\* Playbacks that end, fail, are replaced, muted and controlled; sessions that go; callers that
\* give up.  FailsLate: the output fails while the worker closes it.
PB(play, control, over, fail, gone, expire, mute, broken) ==
    [play |-> play, control |-> control, end |-> over, fail |-> fail, gone |-> gone,
     expire |-> expire, mute |-> mute, broken |-> broken]
PlaybackMixes == {PB(2,0,1,0,1,1,0,0), PB(2,1,0,1,0,0,1,0), PB(3,0,0,0,1,0,0,1)}
FailsLate     == {PB(2,0,1,1,0,0,0,0)}
TwoSessions   == {<<"p", 1>>, <<"p", 2>>}

--------------------------------------------------------------------------------
AtRest(bounds, value, name) == moving # name => value = CHOOSE b \in bounds : TRUE

CoreInit ==
    /\ moving \in Movers
    /\ ThemeInit /\ AtRest(ThemeBudgets, themeLeft, "themes")
    /\ moving # "themes" => files = [n \in Name |-> NoFile]
    /\ PinInit /\ AtRest(PinBudgets, pinLeft, "pins")
    /\ moving # "pins" => pins = <<>>
    /\ HubInit /\ AtRest(HubBudgets, hubLeft, "hub")
    /\ CatalogInit /\ AtRest(CatalogBudgets, catalogLeft, "catalog")
    /\ moving # "catalog" => receipt = Unreceived /\ catalog.gen = NoCatalog /\ Listed(1) = 1
    /\ MediaInit /\ AtRest(MediaBudgets, mediaLeft, "media")
    /\ moving # "media" => host = "linux"
    /\ AudioInit /\ AtRest(AudioBudgets, audioLeft, "audio")
    /\ moving # "audio" => desktop = "linux"
    /\ PlaybackInit /\ AtRest(PlaybackBudgets, playbackLeft, "playback")

coreVars ==
    <<moving, themeVars, pinVars, hubVars, catalogVars, mediaVars, audioVars, playbackVars>>

CoreNext ==
    /\ UNCHANGED moving
    /\ \/ moving = "themes" /\ ThemeNext
          /\ UNCHANGED <<pinVars, hubVars, catalogVars,
                         mediaVars, audioVars, playbackVars>>
       \/ moving = "pins" /\ PinNext
          /\ UNCHANGED <<themeVars, hubVars, catalogVars,
                         mediaVars, audioVars, playbackVars>>
       \/ moving = "hub" /\ HubNext
          /\ UNCHANGED <<themeVars, pinVars, catalogVars,
                         mediaVars, audioVars, playbackVars>>
       \/ moving = "catalog" /\ CatalogNext
          /\ UNCHANGED <<themeVars, pinVars, hubVars,
                         mediaVars, audioVars, playbackVars>>
       \/ moving = "media" /\ MediaNext
          /\ UNCHANGED <<themeVars, pinVars, hubVars,
                         catalogVars, audioVars, playbackVars>>
       \/ moving = "audio" /\ AudioNext
          /\ UNCHANGED <<themeVars, pinVars, hubVars,
                         catalogVars, mediaVars, playbackVars>>
       \/ moving = "playback" /\ PlaybackNext
          /\ UNCHANGED <<themeVars, pinVars, hubVars,
                         catalogVars, mediaVars, audioVars>>

CoreSpec == CoreInit /\ [][CoreNext]_coreVars

\* Types of the modules.
CoreTypeOK ==
    /\ ThemeTypeOK /\ PinTypeOK /\ HubTypeOK /\ CatalogTypeOK
    /\ MediaTypeOK /\ AudioTypeOK /\ PlaybackTypeOK
================================================================================
