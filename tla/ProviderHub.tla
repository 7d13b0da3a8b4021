------------------------------ MODULE ProviderHub ------------------------------
(***************************************************************************)
(* The hub of the system samplers (providers/hub.rs) and the plugins that  *)
(* subscribe to it (plugins/handlers.rs).                                  *)
(*                                                                         *)
(* One sampler task runs per configuration that somebody subscribed to.    *)
(* It publishes a value that changed: first to the cache, which is         *)
(* replayed to new subscribers, then to one broadcast channel all          *)
(* subscribers share.  Plugins subscribe and stop while samplers sample.   *)
(***************************************************************************)
EXTENDS Naturals, Sequences, FiniteSets

CONSTANTS Kind,        \* kinds of system data, as named by ProviderKind
          Supported,   \* the kinds this platform offers
          Interval,    \* intervals plugins ask for, in milliseconds
          Subscriber,  \* plugins that subscribe
          Capacity,    \* EVENT_CHANNEL_CAPACITY
          HubBudgets   \* bounds: what may happen, per kind of event

HubEvents == {"subscribe", "stop", "change", "failure"}
ASSUME HubAssumption == Supported \subseteq Kind /\ Capacity \in Nat \ {0}
                        /\ HubBudgets \subseteq [HubEvents -> Nat]

VARIABLES
    system,     \* what a sample of each kind would yield
    samplers,   \* subscribers counted per configuration; 0 without an entry
    tasks,      \* sampler tasks: configuration, step, sample, last value, stop signal
    hubCache,   \* the last event per configuration
    sent,       \* the broadcast channel
    subs,       \* subscriptions per plugin and kind: step, configuration, replay,
                \* place in the channel, last value forwarded
    spawned,    \* sampler tasks started so far
    hubLeft     \* bounds: the events that may still happen

hubVars == <<system, samplers, tasks, hubCache, sent, subs, spawned, hubLeft>>

--------------------------------------------------------------------------------
NoValue  == 0
NoSub    == [step |-> "none"]
SpendHub(event) == hubLeft[event] > 0 /\ hubLeft' = [hubLeft EXCEPT ![event] = @ - 1]

DefaultInterval(kind) == CASE kind = "audio"   -> 500
                           [] kind = "media"   -> 1000
                           [] kind = "battery" -> 5000
                           [] kind = "disk"    -> 30000
                           [] OTHER            -> 2000
Configuration(kind, interval) == [kind |-> kind, interval |-> interval]
Normalized(c) == IF c.interval = 0 THEN [c EXCEPT !.interval = DefaultInterval(c.kind)] ELSE c
\* provider_interval: 0 or 250 .. 3600000 milliseconds
ValidInterval(interval) == interval = 0 \/ interval \in 250 .. 3600000
Configurations == {Normalized(Configuration(k, i)) : k \in Supported,
                                                     i \in {i \in Interval : ValidInterval(i)}}

HubInit ==
    /\ system = [k \in Supported |-> 1]
    /\ samplers = [c \in Configurations |-> 0] /\ tasks = {} /\ spawned = 0
    /\ hubCache = [c \in Configurations |-> NoValue] /\ sent = <<>>
    /\ subs = [s \in Subscriber |-> [k \in Kind |-> NoSub]]
    /\ hubLeft \in HubBudgets

Changes(k) ==
    /\ SpendHub("change")
    /\ system' = [system EXCEPT ![k] = @ + 1]
    /\ UNCHANGED <<samplers, tasks, hubCache, sent, subs, spawned>>

--------------------------------------------------------------------------------
(* Subscriptions: provider.subscribe and ProviderHub::subscribe. *)

AtSub(s, k, step) == subs[s][k].step = step

\* A plugin subscribes once per kind, with an interval in the range.  The receiver
\* comes first: nothing sent from now on is missed.
Receive(s, k, interval) ==
    /\ SpendHub("subscribe")
    /\ k \in Supported /\ ValidInterval(interval) /\ AtSub(s, k, "none")
    /\ subs' = [subs EXCEPT ![s][k] = [step |-> "replay", replay |-> NoValue,
                                       config |-> Normalized(Configuration(k, interval)),
                                       seen |-> Len(sent), last |-> NoValue]]
    /\ UNCHANGED <<system, samplers, tasks, hubCache, sent, spawned>>

Replay(s, k) ==
    /\ AtSub(s, k, "replay")
    /\ subs' = [subs EXCEPT ![s][k].step = "register",
                            ![s][k].replay = hubCache[subs[s][k].config]]
    /\ UNCHANGED <<system, samplers, tasks, hubCache, sent, spawned, hubLeft>>

SpawnSampler(c) ==
    /\ spawned' = spawned + 1
    /\ tasks' = tasks \cup {[id |-> spawned + 1, config |-> c, step |-> "tick", stop |-> FALSE,
                             sample |-> NoValue, previous |-> NoValue]}

\* The first subscriber of a configuration starts its sampler.
Register(s, k) ==
    LET c == subs[s][k].config
    IN /\ AtSub(s, k, "register")
       /\ samplers' = [samplers EXCEPT ![c] = @ + 1]
       /\ IF samplers[c] = 0 THEN SpawnSampler(c) ELSE UNCHANGED <<tasks, spawned>>
       /\ subs' = [subs EXCEPT ![s][k].step = "live"]
       /\ UNCHANGED <<system, hubCache, sent, hubLeft>>

Held(s) == {subs[s][k].config : k \in {k \in Kind : AtSub(s, k, "live")}}
\* MUTANT: the sampler is stopped by whoever leaves.
LeaveSamplers_All(s) ==
    /\ samplers' = [c \in Configurations |-> samplers[c] - IF c \in Held(s) THEN 1 ELSE 0]
    /\ tasks' = {IF t.config \in Held(s) THEN [t EXCEPT !.stop = TRUE] ELSE t : t \in tasks}
\* unsubscribe: the last subscription that is dropped stops the sampler.
LeaveSamplers(s) ==
    /\ samplers' = [c \in Configurations |-> samplers[c] - IF c \in Held(s) THEN 1 ELSE 0]
    /\ tasks' = {IF t.config \in Held(s) /\ samplers[t.config] = 1
                 THEN [t EXCEPT !.stop = TRUE] ELSE t : t \in tasks}

\* The plugin's run ends between two requests of it: its forwarders are aborted.
PluginStops(s) ==
    /\ \A k \in Kind : subs[s][k].step \in {"none", "live"}
    /\ \E k \in Kind : AtSub(s, k, "live")
    /\ SpendHub("stop")
    /\ LeaveSamplers(s)
    /\ subs' = [subs EXCEPT ![s] = [k \in Kind |-> NoSub]]
    /\ UNCHANGED <<system, hubCache, sent, spawned>>

\* The replayed value first, then the channel.  A receiver that lags skips to the
\* oldest event the channel still holds.
OldestPlace == IF Len(sent) > Capacity THEN Len(sent) - Capacity ELSE 0
Recv(s, k) ==
    /\ AtSub(s, k, "live")
    /\ \/ /\ subs[s][k].replay # NoValue
          /\ subs' = [subs EXCEPT ![s][k].last = subs[s][k].replay, ![s][k].replay = NoValue]
       \/ /\ subs[s][k].replay = NoValue /\ subs[s][k].seen < Len(sent)
          /\ LET place == IF subs[s][k].seen < OldestPlace THEN OldestPlace + 1
                          ELSE subs[s][k].seen + 1
             IN subs' = [subs EXCEPT ![s][k].seen = place,
                                     ![s][k].last = IF sent[place].config = subs[s][k].config
                                                    THEN sent[place].value ELSE @]
    /\ UNCHANGED <<system, samplers, tasks, hubCache, sent, spawned, hubLeft>>

--------------------------------------------------------------------------------
(* run_sampler *)

Becomes(t, u) == tasks' = (tasks \ {t}) \cup {u}
TaskEnds(t)   == tasks' = tasks \ {t}

\* The sample is taken off the task's thread; the task may be stopped meanwhile.  A
\* tick that would find the value it published is left out: it changes nothing.
Tick(t) ==
    /\ t.step = "tick" /\ ~t.stop /\ t.previous # system[t.config.kind]
    /\ Becomes(t, [t EXCEPT !.step = "check", !.sample = system[t.config.kind]])
    /\ UNCHANGED <<system, samplers, hubCache, sent, subs, spawned, hubLeft>>

SampleFails(t) ==
    /\ t.step = "check" /\ t.sample # NoValue /\ SpendHub("failure")
    /\ Becomes(t, [t EXCEPT !.sample = NoValue])
    /\ UNCHANGED <<system, samplers, hubCache, sent, subs, spawned>>

SeesStop(t) ==
    /\ t.step = "tick" /\ t.stop
    /\ TaskEnds(t)
    /\ UNCHANGED <<system, samplers, hubCache, sent, subs, spawned, hubLeft>>

\* A task that was stopped publishes nothing, and neither does a failed sample nor a
\* value that did not change.
CheckSample(t) ==
    /\ t.step = "check"
    /\ IF t.stop THEN TaskEnds(t)
       ELSE IF t.sample \in {NoValue, t.previous} THEN Becomes(t, [t EXCEPT !.step = "tick"])
       ELSE Becomes(t, [t EXCEPT !.step = "cache", !.previous = t.sample])
    /\ UNCHANGED <<system, samplers, hubCache, sent, subs, spawned, hubLeft>>

Event(t) == [config |-> t.config, value |-> t.sample]
PutInCache(t) ==
    /\ t.step = "cache"
    /\ hubCache' = [hubCache EXCEPT ![t.config] = t.sample]
    /\ Becomes(t, [t EXCEPT !.step = "send"])
    /\ UNCHANGED <<system, samplers, sent, subs, spawned, hubLeft>>
\* A channel without a receiver takes nothing.
Send(t) ==
    /\ t.step = "send"
    /\ sent' = Append(sent, Event(t))
    /\ Becomes(t, [t EXCEPT !.step = "tick"])
    /\ UNCHANGED <<system, samplers, hubCache, subs, spawned, hubLeft>>

--------------------------------------------------------------------------------
HubNext ==
    \/ \E k \in Supported : Changes(k)
    \/ \E s \in Subscriber, k \in Kind :
          Replay(s, k) \/ Register(s, k) \/ Recv(s, k) \/ \E i \in Interval : Receive(s, k, i)
    \/ \E s \in Subscriber : PluginStops(s)
    \/ \E t \in tasks : Tick(t) \/ SampleFails(t) \/ SeesStop(t) \/ CheckSample(t)
                          \/ PutInCache(t) \/ Send(t)

HubSpec == HubInit /\ [][HubNext]_hubVars

--------------------------------------------------------------------------------
(* Properties. *)

\* Types of the hub's state.
HubTypeOK ==
    /\ samplers \in [Configurations -> Nat] /\ hubCache \in [Configurations -> Nat]
    /\ sent \in Seq([config : Configurations, value : Nat])
    /\ \A s \in Subscriber, k \in Kind : subs[s][k].step \in {"none", "replay", "register", "live"}
    /\ \A t \in tasks : t.config \in Configurations /\ t.step \in {"tick", "check", "cache", "send"}

LiveOn(c)  == {at \in Subscriber \X Kind : AtSub(at[1], at[2], "live") /\ subs[at[1]][at[2]].config = c}
Running(c) == {t \in tasks : t.config = c /\ ~t.stop}

\* A configuration is sampled exactly while somebody is subscribed to it, by one task,
\* however subscriptions and stops overlap; intervals that mean the same share it
\* (hub.rs:41, 101).
SamplersMatchSubscribers ==
    \A c \in Configurations :
        /\ samplers[c] = Cardinality(LiveOn(c))
        /\ Cardinality(Running(c)) = IF LiveOn(c) = {} THEN 0 ELSE 1

\* When the sampler of a configuration has published what it sampled, the cache holds it,
\* and every subscriber that has read its channel was told it: a value between the cache
\* and the channel is missed by nobody (hub.rs:94).  Stops are left out: a sampler that
\* passed its check before the stop may publish after its successor.
SubscribersAreCurrent ==
    \A t \in tasks : t.step = "tick" /\ ~t.stop /\ t.previous # NoValue =>
        /\ hubCache[t.config] = t.previous
        /\ \A s \in Subscriber, k \in Kind :
              <<s, k>> \in LiveOn(t.config) /\ subs[s][k].replay = NoValue /\ subs[s][k].seen >= Len(sent)
                 => subs[s][k].last = t.previous
================================================================================
