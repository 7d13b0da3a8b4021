SPECIFICATION CoreSpec
CONSTANTS
 Name = {a, b}
 Paint = {"plain", "dark"}
 Behaviour = {"float", "dock"}
 Slot = {1, 2}
 ThemeBudgets <- ThemeMixes
 Pin = {app, gone, news}
 Installed = {app}
 Website = {news}
 Fetcher = {1, 2}
 PinBudgets <- PinMixes
 Kind = {"cpu", "media"}
 Supported = {"cpu"}
 Interval = {0, 2000, 250, 100}
 Subscriber = {1, 2}
 Capacity = 4
 HubBudgets <- HubMixes
 Version = {1, 2}
 Fits = {1, 2}
 Refresher = {"timer", "install"}
 CatalogBudgets <- CatalogMixes
 MediaCall = {c1, c2}
 Playing <- TwoPlayers
 MethodTimeout = 3
 ReplyTimeout = 8
 MediaBudgets <- MediaMixes
 Output = {"speaker", "headset"}
 Loudness = {1, 2}
 AudioCommand = {"k1", "k2"}
 AudioBudgets <- AudioMixes
 AudioSession <- TwoSessions
 PlaybackId = {"bell"}
 AudioRequest = {"q1", "q2", "q3"}
 QueueLimit = 2
 PluginLimit = 1
 TotalLimit = 2
 PlaybackBudgets <- PlaybackMixes
 Movers = {"themes", "pins", "hub", "catalog", "media", "audio", "playback"}
CHECK_DEADLOCK FALSE
INVARIANTS ConfigCatchesUp PageShowsPins SamplersMatchSubscribers BlockedIsOff ActionsFindTheirPlayer  EveryPlaybackEndsOnce
