---------------------------- MODULE AudioDevices ----------------------------
(* The audio devices of a session: the terminal's speaker and its routes, in
   talk_audio.py, and the voice channel's playback, in talk_discord.py.  They
   are two machines that share no state: what was played (the playback), and
   which devices the process points at (the routes).                          *)
EXTENDS Naturals, Sequences, FiniteSets, SequencesExt, FiniteSetsExt

-----------------------------------------------------------------------------
(* The playback: the playback side of DuplexAudio in talk_audio.py, the
   terminal's speaker, and of DiscordAudio with its _RealtimeSource in
   talk_discord.py, the voice channel.

   A barge-in drains what is queued and tells the provider how much of the
   answer was heard, so both count what the device pulled and never what was
   queued.  The terminal does everything under one lock.  The channel has two:
   a drain takes the count under one and empties the source under the other,
   and the host's player thread may read in between.  Audio is counted in
   units; a chunk belongs to an item, and `heard' is what really came out.     *)
CONSTANTS
    Items,          \* output items of the provider
    ChunkSizes,     \* the sizes, in units, a chunk may have
    Block,          \* units a device pulls at a time (a Discord frame, a terminal block)
    MaxBlocks,      \* MAX_PLAYBACK_BLOCKS, MAX_OUTPUT_FRAMES
    MaxUnits,       \* MAX_PLAYBACK_BYTES, in units
    MaxOffered      \* bound: chunks offered in all

ASSUME SizesAssumption == ChunkSizes \subseteq Nat \ {0} /\ Block \in Nat \ {0}

VARIABLES
    device,     \* "terminal" or "channel"
    playQueue,      \* _playback, _outbound: [item, size]
    residual,   \* _residual, _carry: [item, size], size 0 for none
    queued,     \* _queued_playback_bytes (terminal)
    consumed,   \* _consumed_playback_bytes; _frames_served * frame (channel)
    discarded,  \* _discarded_playback_bytes
    lost,       \* _dropped_playback_bytes; the channel's own discards
    played,     \* terminal: [item, units] since the last reset; channel: the baseline
    draining,   \* the channel's drain between its two locks
    offered,    \* units offered so far
    chunks,     \* chunks offered so far
    heard       \* the item of every unit the device pulled since the last reset

playVars == <<device, playQueue, residual, queued, consumed, discarded, lost, played, draining, offered, chunks, heard>>

NoItem == "no item"
Nothing == [item |-> NoItem, size |-> 0]
Sum(q) == FoldSeq(LAMBDA c, n : c.size + n, 0, q)
Heard(item, n) == [i \in 1..n |-> item]

PlayInit ==
    /\ device \in {"terminal", "channel"}
    /\ playQueue = <<>> /\ residual = Nothing /\ queued = 0 /\ consumed = 0 /\ discarded = 0 /\ lost = 0
    /\ played = [item |-> NoItem, units |-> 0] /\ draining = FALSE
    /\ offered = 0 /\ chunks = 0 /\ heard = <<>>

\* Variant: a chunk that did not fit is not counted.
CountedLossNone(n) == lost

CountedLoss(n) == lost + n

(* queue_playback                                                          *)
QueuePlayback(item, n) ==
    /\ chunks < MaxOffered /\ ~draining
    /\ chunks' = chunks + 1 /\ offered' = offered + n
    /\ IF Len(playQueue) >= MaxBlocks \/ (device = "terminal" /\ queued + n > MaxUnits)
       THEN lost' = CountedLoss(n) /\ UNCHANGED <<playQueue, queued>>
       ELSE /\ playQueue' = Append(playQueue, [item |-> item, size |-> n])
            /\ queued' = IF device = "terminal" THEN queued + n ELSE 0
            /\ UNCHANGED lost
    /\ UNCHANGED <<device, residual, consumed, discarded, played, draining, heard>>

\* Variant: a change of item does not restart the count.
CountedAlong(p, item, n) == [item |-> item, units |-> p.units + n]

Counted(p, item, n) == IF item = p.item THEN [p EXCEPT !.units = @ + n] ELSE [item |-> item, units |-> n]

(* What a pull takes: the packets in order, the kept rest of the last one
   first, up to a block; what is left of the packet it stopped in is kept.   *)
Packets == IF residual.size > 0 THEN <<residual>> \o playQueue ELSE playQueue
Prefix(k) == Sum(SubSeq(Packets, 1, k))
Whole == Max({k \in 0..Len(Packets) : Prefix(k) <= Block})
Cut == Whole < Len(Packets) /\ Prefix(Whole) < Block

TakenPackets ==
    LET whole == SubSeq(Packets, 1, Whole)
    IN IF Cut THEN Append(whole, [Packets[Whole + 1] EXCEPT !.size = Block - Prefix(Whole)]) ELSE whole

\* Variant: what is left of a packet is thrown away.
KeptNothing == Nothing

Residue == IF Cut THEN [Packets[Whole + 1] EXCEPT !.size = Prefix(Whole + 1) - Block] ELSE Nothing

(* _output_callback: the terminal plays what there is, short of a block or not. *)
OutputCallback ==
    /\ device = "terminal" /\ Packets # <<>>
    /\ residual' = Residue
    /\ playQueue' = SubSeq(Packets, Whole + (IF Cut THEN 2 ELSE 1), Len(Packets))
    /\ queued' = queued - Sum(TakenPackets) /\ consumed' = consumed + Sum(TakenPackets)
    /\ played' = FoldLeft(LAMBDA p, c : Counted(p, c.item, c.size), played, TakenPackets)
    /\ heard' = heard \o FoldLeft(LAMBDA h, c : h \o Heard(c.item, c.size), <<>>, TakenPackets)
    /\ UNCHANGED <<device, discarded, lost, draining, offered, chunks>>

(* read: the channel plays whole frames only and keeps a short one for later. *)
SourceReads ==
    /\ device = "channel" /\ Packets # <<>>
    /\ LET needed == {k \in 1..Len(Packets) : Prefix(k) >= Block}
           pulled == IF needed = {} THEN Len(Packets) ELSE Min(needed)
           held == Prefix(pulled)
       IN /\ playQueue' = SubSeq(Packets, pulled + 1, Len(Packets))
          /\ residual' = [item |-> NoItem, size |-> IF held >= Block THEN held - Block ELSE held]
          /\ consumed' = IF held >= Block THEN consumed + Block ELSE consumed
          /\ heard' = IF held >= Block THEN heard \o Heard(NoItem, Block) ELSE heard
    /\ UNCHANGED <<device, queued, discarded, lost, played, draining, offered, chunks>>

EmptiesQueue ==
    /\ playQueue' = <<>> /\ residual' = Nothing /\ queued' = 0
    /\ discarded' = discarded + Sum(Packets)

\* Variant: the count of what was heard is kept over a drain.
KeepsBoundary == UNCHANGED played

ResetsBoundary == played' = [item |-> NoItem, units |-> IF device = "channel" THEN consumed ELSE 0]

(* drain_playback on the terminal, in one piece.                           *)
DrainPlayback ==
    /\ device = "terminal"
    /\ EmptiesQueue /\ ResetsBoundary /\ heard' = <<>>
    /\ UNCHANGED <<device, consumed, lost, draining, offered, chunks>>

(* drain_playback on the channel: the count, then the source.              *)
DrainBegins ==
    /\ device = "channel" /\ ~draining
    /\ ResetsBoundary /\ draining' = TRUE
    /\ UNCHANGED <<device, playQueue, residual, queued, consumed, discarded, lost, offered, chunks, heard>>

DrainEnds ==
    /\ draining /\ draining' = FALSE
    /\ EmptiesQueue /\ heard' = <<>>
    /\ UNCHANGED <<device, consumed, lost, played, offered, chunks>>

ResetPlayed ==
    /\ ~draining /\ heard # <<>>
    /\ ResetsBoundary /\ heard' = <<>>
    /\ UNCHANGED <<device, playQueue, residual, queued, consumed, discarded, lost, draining, offered, chunks>>

PlayNext ==
    \/ \E item \in Items, n \in ChunkSizes : QueuePlayback(item, n)
    \/ OutputCallback \/ SourceReads \/ DrainPlayback \/ DrainBegins \/ DrainEnds \/ ResetPlayed

PlaySpec == PlayInit /\ [][PlayNext]_playVars

----------------------------------------------------------------------------
PlayTypeOK == residual.size \in Nat /\ queued \in Nat /\ discarded \in Nat

(* Every unit offered was played, discarded, refused, or is still waiting:
   a reply whose audio is all accounted for has really finished.             *)
Conserved ==
    /\ consumed + discarded + lost + Sum(Packets) = offered
    /\ device = "terminal" => queued = Sum(Packets)

Suffix(n) == SubSeq(heard, Len(heard) - n + 1, Len(heard))

(* The boundary a barge-in reports is what was heard of the last item, all of
   it and nothing of the item before; the channel never reports less than was
   heard.                                                                    *)
BoundaryIsHeard ==
    IF device = "channel" THEN ~draining => consumed - played.units >= Len(heard)
    ELSE /\ played.units <= Len(heard) /\ Suffix(played.units) = Heard(played.item, played.units)
         /\ played.units < Len(heard) => heard[Len(heard) - played.units] # played.item
         /\ heard # <<>> => played.units > 0

(* Nothing waits beyond the bounds of the queue.                           *)
PlaybackBounded == Len(playQueue) <= MaxBlocks /\ (device = "terminal" => queued <= MaxUnits)

\* What every state of the playback keeps: a unit is heard, queued or counted as lost, and
\* the queue stays within its bounds.
PlaybackSafe == PlayTypeOK /\ Conserved /\ BoundaryIsHeard /\ PlaybackBounded

(* After a drain the channel has played nothing.  (Refuted: the player may read
   a frame of the old answer between the drain's two locks, and that frame is
   counted as the next answer's.)                                            *)
DrainStartsAtZero == device = "channel" /\ ~draining => consumed - played.units = Len(heard)

-----------------------------------------------------------------------------
(* The routes: _PulseWebRtcAudio and DuplexAudio.start/stop
   in talk_audio.py.

   A session that uses the default devices loads a private PulseAudio
   echo-cancelling module and points PULSE_SOURCE and PULSE_SINK of the whole
   process at it (the two change together; `env' is the pair).  Several sessions
   may be open and stop in any order, one of them on another thread while the
   next one starts; anything else in the process may set the variables too.     *)
CONSTANTS
    Sets,           \* the DuplexAudio objects
    MaxOpens,       \* bound: starts in all
    MaxElsewhere    \* bound: times other code sets the variables

VARIABLES
    env,        \* PULSE_SOURCE/PULSE_SINK: "user", "elsewhere", or a route's own
    baseline,   \* _baseline_source/_baseline_sink
    routes,     \* _active_routes
    loaded,     \* the routes whose module PulseAudio has loaded
    changed,    \* the routes with _changed_environment
    stage,      \* set -> where its start or stop stands
    streams,    \* the sets whose two streams are open
    startup,    \* who holds _startup_lock, or "free"
    opens, elsewhere

routeVars == <<env, baseline, routes, loaded, changed, stage, streams, startup, opens, elsewhere>>

RouteInit ==
    /\ env = "user" /\ baseline = "user" /\ routes = <<>> /\ loaded = {} /\ changed = {}
    /\ stage = [d \in Sets |-> "closed"] /\ streams = {} /\ startup = "free" /\ opens = 0 /\ elsewhere = 0

To(d, s) == stage' = [stage EXCEPT ![d] = s]

(* start: one set at a time, under the startup lock.  Without pactl, on a named
   device or when the module does not load, the original devices are used.     *)
StartLoads(d) ==
    /\ stage[d] = "closed" /\ startup = "free" /\ opens < MaxOpens
    /\ startup' = d /\ opens' = opens + 1
    /\ \/ loaded' = loaded \cup {d} /\ To(d, "loaded")
       \/ UNCHANGED loaded /\ To(d, "opening")
    /\ UNCHANGED <<env, baseline, routes, changed, streams, elsewhere>>

\* Variant: every route takes what it finds as the baseline.
BaselineAlways == env

Baseline == IF routes = <<>> THEN env ELSE baseline

TakesEnvironment(d) ==
    /\ stage[d] = "loaded"
    /\ baseline' = Baseline
    /\ routes' = Append(routes, d)
    /\ env' = d /\ changed' = changed \cup {d}
    /\ To(d, "opening")
    /\ UNCHANGED <<loaded, streams, startup, opens, elsewhere>>

OpensSet(d) ==
    /\ stage[d] = "opening"
    /\ streams' = streams \cup {d} /\ startup' = "free"
    /\ To(d, "open")
    /\ UNCHANGED <<env, baseline, routes, loaded, changed, opens, elsewhere>>

(* The routed devices would not open: the route is undone and the original
   devices are tried; when those fail too, or there was no route, it is over.  *)
OpenFails(d) ==
    /\ stage[d] = "opening"
    /\ IF d \in loaded THEN To(d, "unrouting") /\ UNCHANGED startup
       ELSE To(d, "closed") /\ startup' = "free"
    /\ UNCHANGED <<env, baseline, routes, loaded, changed, streams, opens, elsewhere>>

SetStops(d) ==
    /\ stage[d] = "open"
    /\ streams' = streams \ {d}
    /\ To(d, IF d \in loaded THEN "stopping" ELSE "closed")
    /\ UNCHANGED <<env, baseline, routes, loaded, changed, startup, opens, elsewhere>>

\* Variant: the route that stops restores the baseline over the others.
RestoredBaseline(d, rest) == IF env \in Range(rest) \cup {d} THEN baseline ELSE env

(* What the variables become when a route stops: untouched if somebody else
   set them, the newest route still active, or the baseline.                 *)
Restored(d, rest) ==
    IF env \notin Range(rest) \cup {d} THEN env ELSE IF rest # <<>> THEN Last(rest) ELSE baseline

RestoresEnvironment(d) ==
    /\ stage[d] \in {"unrouting", "stopping"} /\ d \in changed
    /\ changed' = changed \ {d}
    /\ routes' = Remove(routes, d)
    /\ env' = Restored(d, routes')
    /\ UNCHANGED <<baseline, loaded, stage, streams, startup, opens, elsewhere>>

\* Variant: the module is unloaded before the variables are restored.
MayUnloadEarly(d) == TRUE

MayUnload(d) == d \notin changed

Unloads(d) ==
    /\ stage[d] \in {"unrouting", "stopping"} /\ MayUnload(d)
    /\ loaded' = loaded \ {d}
    /\ To(d, IF stage[d] = "unrouting" THEN "opening" ELSE "closed")
    /\ UNCHANGED <<env, baseline, routes, changed, streams, startup, opens, elsewhere>>

SetElsewhere ==
    /\ elsewhere < MaxElsewhere /\ elsewhere' = elsewhere + 1
    /\ env' = "elsewhere"
    /\ UNCHANGED <<baseline, routes, loaded, changed, stage, streams, startup, opens>>

RouteNext ==
    \/ \E d \in Sets : \/ StartLoads(d) \/ TakesEnvironment(d) \/ OpensSet(d) \/ OpenFails(d) \/ SetStops(d)
                       \/ RestoresEnvironment(d) \/ Unloads(d)
    \/ SetElsewhere

RouteSpec == RouteInit /\ [][RouteNext]_routeVars

----------------------------------------------------------------------------
RouteTypeOK == baseline \in Sets \cup {"user", "elsewhere"} /\ streams \subseteq Sets /\ startup \in Sets \cup {"free"}

(* The process never points at an audio module that is gone: what the variables
   name is the user's, somebody else's, or a module still loaded.              *)
NamesWhatIsLoaded == env \in Sets => env \in loaded

(* Whatever the order in which sessions stop, the user's own setting is back
   when the last of them is gone, and nobody else's is overwritten by a stop.   *)
SettingIsGivenBack == routes = <<>> => env \in {"user", "elsewhere"} /\ (elsewhere = 0 => env = "user")

(* The baseline never is one of the session's own modules.                   *)
BaselineIsForeign == baseline \notin Sets

(* The newest session that is still open is the one the devices follow.    *)
NewestIsFollowed == routes # <<>> /\ elsewhere = 0 => env = Last(routes)

(* The list of routes and what each of them believes agree.                 *)
RoutesAgree == Range(routes) = changed /\ changed \subseteq loaded /\ Len(routes) = Cardinality(changed)

\* What every state of the routes keeps: modules are counted, the operator's settings are
\* given back, and the newest route is the one that is followed.
RoutesSafe == RouteTypeOK /\ NamesWhatIsLoaded /\ SettingIsGivenBack /\ BaselineIsForeign /\ NewestIsFollowed /\ RoutesAgree

=============================================================================
