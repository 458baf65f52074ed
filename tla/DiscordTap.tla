----------------------------- MODULE DiscordTap -----------------------------
(* How a voice session borrows the host's Discord voice connection:
   DiscordAudio in talk_discord.py.

   The host publishes one voice connection at a time (a room, `published').
   Its socket reader thread copies the connection's list of listeners for
   every packet and calls them in turn; the host's listener decodes the packet
   into the receiver's buffers.  start() swaps that listener for a tap that
   calls it and then drains the buffers into `inbound', and stop() hands the
   connection back.  start and stop run under one lifecycle lock (`life'), but
   every touch of the host's registry is a step of its own: the reader thread
   may be anywhere inside an old copy of the list, and the host may leave, come
   back on another connection or re-register its listener between any two.

   `tap' is what the listener condition guards.  Audio is one stream of one
   speaker per room; a packet remembers the generation installed when it was
   decoded (born), whether its speaker was known then (known), and how many
   times the microphone had been resumed when the drain looked (turn).      *)
EXTENDS Naturals, Sequences, SequencesExt

CONSTANTS
    Rooms,          \* the host's voice connections, 1..n, in the order it opens them
    Encrypted,      \* whether the rooms are end-to-end encrypted
    MaxStarts,      \* bound: how often the session starts
    MaxPackets,     \* bound: packets that arrive in all
    MaxInbound,     \* MAX_INPUT_FRAMES
    MaxHostMoves,   \* bound: what the host does of its own accord
    MaxPauses       \* bound: how often the microphone is paused

ASSUME RoomsAssumption == Rooms \subseteq Nat \ {0}
ASSUME InboundAssumption == MaxInbound \in Nat \ {0}

VARIABLES
    published,  \* the room in the adapter's maps, 0 for none
    opened,     \* the rooms opened so far
    running,    \* room -> its receiver's _running
    listeners,  \* room -> the connection's socket listeners, in call order
    onPacket,   \* room -> the receiver's _on_packet
    mapped,     \* room -> the speaker's SSRC has a user
    buffers,    \* room -> what the host decoded and nobody took
    play,       \* the adapter's play_in_voice_channel: "host" or "parked"
    hostMoves,  \* host incidents so far
    reader,     \* room -> its socket reader thread: [at, todo, chunk, deaf]
    packets,    \* packets that arrived
    life,       \* the lifecycle transaction: where it stands
    again,      \* a start that has to stop first
    starts,     \* _listener_generation
    tap,        \* [bridge, tapped, installed, capture, closing, saved]
    active,     \* generation -> _active_listener_callbacks
    inbound,    \* _inbound: each entry is one drained buffer
    paused,     \* _input_paused
    pausing,    \* a pause or a resume between its two steps
    resumes     \* how often the microphone was resumed

hostSide == <<published, opened, running, listeners, onPacket, mapped, play, hostMoves>>
readSide == <<reader, packets, buffers>>
lifeSide == <<life, again, starts>>
earSide  == <<paused, pausing, resumes>>
tapVars  == <<hostSide, readSide, lifeSide, tap, active, inbound, earSide>>

Gens == 1..MaxStarts
Idle == [at |-> "idle", todo |-> <<>>, chunk |-> <<>>, deaf |-> FALSE]
NoTap == [bridge |-> 0, tapped |-> 0, installed |-> 0, capture |-> 0, closing |-> 0, saved |-> 0]

TapInit ==
    /\ published = 0 /\ opened = {} /\ hostMoves = 0 /\ play = "host"
    /\ running = [r \in Rooms |-> FALSE]
    /\ listeners = [r \in Rooms |-> <<>>]
    /\ onPacket = [r \in Rooms |-> 0]
    /\ mapped = [r \in Rooms |-> FALSE]
    /\ buffers = [r \in Rooms |-> <<>>]
    /\ reader = [r \in Rooms |-> Idle] /\ packets = 0
    /\ life = "idle" /\ again = FALSE /\ starts = 0
    /\ tap = NoTap /\ active = [g \in Gens |-> 0]
    /\ inbound = <<>>
    /\ paused = FALSE /\ pausing = "no" /\ resumes = 0

(* A listener is 0, the host's own, or the generation of a tap.            *)
Host == 0

----------------------------------------------------------------------------
(* The host, as the code uses it: it opens a connection, closes it (its
   receiver unregisters the callback it finds in _on_packet), re-registers
   its own listener on a live receiver, or learns who is speaking.          *)

HostJoins(r) ==
    /\ published = 0 /\ r \notin opened /\ \A q \in Rooms : q < r => q \in opened
    /\ published' = r /\ opened' = opened \cup {r}
    /\ running' = [running EXCEPT ![r] = TRUE]
    /\ listeners' = [listeners EXCEPT ![r] = <<Host>>]
    /\ onPacket' = [onPacket EXCEPT ![r] = Host]
    /\ UNCHANGED <<mapped, play, hostMoves, readSide, lifeSide, tap, active, inbound, earSide>>

HostLeaves ==
    /\ published # 0 /\ hostMoves < MaxHostMoves
    /\ published' = 0 /\ hostMoves' = hostMoves + 1
    /\ running' = [running EXCEPT ![published] = FALSE]
    /\ listeners' = [listeners EXCEPT ![published] = Remove(@, onPacket[published])]
    /\ UNCHANGED <<opened, onPacket, mapped, play, readSide, lifeSide, tap, active, inbound, earSide>>

HostRetakes ==
    /\ published # 0 /\ hostMoves < MaxHostMoves /\ onPacket[published] # Host
    /\ hostMoves' = hostMoves + 1
    /\ listeners' = [listeners EXCEPT ![published] =
            LET rest == Remove(@, onPacket[published])
            IN IF Contains(rest, Host) THEN rest ELSE Append(rest, Host)]
    /\ onPacket' = [onPacket EXCEPT ![published] = Host]
    /\ UNCHANGED <<published, opened, running, mapped, play, readSide, lifeSide, tap, active, inbound, earSide>>

HostIdentifies(r) ==
    /\ r = published /\ ~mapped[r]
    /\ mapped' = [mapped EXCEPT ![r] = TRUE]
    /\ UNCHANGED <<published, opened, running, listeners, onPacket, play, hostMoves,
                   readSide, lifeSide, tap, active, inbound, earSide>>

----------------------------------------------------------------------------
(* The socket reader thread of a room.  A drain and the write into inbound
   that follows it hold the listener condition, so nothing else that takes it
   can run in between; the microphone's flag has a lock of its own.          *)

Draining == \E r \in Rooms : reader[r].at = "put"
Exact == tap.bridge # 0 => published = tap.bridge
Owned == /\ tap.bridge # 0 /\ tap.tapped # 0 /\ tap.installed = starts
         /\ Exact /\ onPacket[tap.bridge] = tap.tapped

Decoded(r) == [born |-> tap.installed, known |-> mapped[r], turn |-> resumes]

(* The thread calls the next listener of its copy, or waits for a packet.   *)
Onwards(r) == IF Len(reader[r].todo) = 1 THEN Idle
              ELSE [Idle EXCEPT !.at = "next", !.todo = Tail(reader[r].todo)]

PacketArrives(r) ==
    /\ reader[r].at = "idle" /\ listeners[r] # <<>> /\ packets < MaxPackets
    /\ packets' = packets + 1
    /\ reader' = [reader EXCEPT ![r] = [@ EXCEPT !.at = "next", !.todo = listeners[r]]]
    /\ UNCHANGED <<hostSide, buffers, lifeSide, tap, active, inbound, earSide>>

HostHears(r) ==
    /\ reader[r].at = "next" /\ Head(reader[r].todo) = Host
    /\ buffers' = [buffers EXCEPT ![r] = Append(@, Decoded(r))]
    /\ reader' = [reader EXCEPT ![r] = Onwards(r)]
    /\ UNCHANGED <<hostSide, packets, lifeSide, tap, active, inbound, earSide>>

(* tapped: the callback parks while its generation's hand-over closes.     *)
Parked(g) == tap.closing = g /\ tap.installed = g /\ tap.tapped = g

EntersTap(r) ==
    /\ reader[r].at = "next" /\ ~Draining
    /\ LET g == Head(reader[r].todo)
       IN /\ g # Host /\ ~Parked(g)
          /\ active' = [active EXCEPT ![g] = @ + 1]
    /\ reader' = [reader EXCEPT ![r] = [@ EXCEPT !.at = "tap"]]
    /\ UNCHANGED <<hostSide, packets, buffers, lifeSide, tap, inbound, earSide>>

CallsOriginal(r) ==
    /\ reader[r].at = "tap"
    /\ buffers' = [buffers EXCEPT ![r] = Append(@, Decoded(r))]
    /\ reader' = [reader EXCEPT ![r] = [@ EXCEPT !.at = "after"]]
    /\ UNCHANGED <<hostSide, packets, lifeSide, tap, active, inbound, earSide>>

\* Variant: any tap of the room that is installed drains.
DrainsInstalled(g) == tap.installed # 0

Drains(g) == tap.installed = g /\ tap.capture = g /\ tap.tapped = g

TapReturns(r) ==
    LET g == Head(reader[r].todo)
    IN /\ reader[r].at = "after" /\ ~Draining /\ (~Drains(g) \/ ~Exact \/ tap.bridge # r)
       /\ active' = [active EXCEPT ![g] = @ - 1]
       /\ reader' = [reader EXCEPT ![r] = Onwards(r)]
       /\ UNCHANGED <<hostSide, packets, buffers, lifeSide, tap, inbound, earSide>>

(* _take_receiver_chunks: in an encrypted room everything decoded before the
   speaker had a user is ciphertext, and is dropped with the mapping found.  *)
Taken(r) == IF mapped[r] \/ ~Encrypted THEN buffers[r] ELSE <<>>

Drain(r) ==
    LET g == Head(reader[r].todo)
    IN /\ reader[r].at = "after" /\ ~Draining /\ Drains(g) /\ Exact /\ tap.bridge = r
       /\ reader' = [reader EXCEPT ![r] = [at |-> "put", todo |-> @.todo, chunk |-> Taken(r), deaf |-> paused]]
       /\ buffers' = [buffers EXCEPT ![r] = <<>>]
       /\ \/ UNCHANGED mapped
          \/ ~mapped[r] /\ buffers[r] # <<>> /\ mapped' = [mapped EXCEPT ![r] = TRUE]
       /\ UNCHANGED <<published, opened, running, listeners, onPacket, play, hostMoves,
                      packets, lifeSide, tap, active, inbound, earSide>>

\* Variant: a full queue keeps growing.
KeptAll(s) == s

Kept(s) == IF Len(s) > MaxInbound THEN SubSeq(s, Len(s) - MaxInbound + 1, Len(s)) ELSE s

Puts(r) ==
    LET g == Head(reader[r].todo)
    IN /\ reader[r].at = "put"
       /\ inbound' = IF reader[r].deaf \/ reader[r].chunk = <<>> THEN inbound
                     ELSE Kept(Append(inbound, reader[r].chunk))
       /\ active' = [active EXCEPT ![g] = @ - 1]
       /\ reader' = [reader EXCEPT ![r] = Onwards(r)]
       /\ UNCHANGED <<hostSide, packets, buffers, lifeSide, tap, earSide>>

----------------------------------------------------------------------------
(* start, one step per touch of what another thread can see.               *)

StartBegins ==
    /\ life = "idle" /\ starts < MaxStarts /\ ~Owned
    /\ IF tap.bridge # 0 THEN life' = "stop" /\ again' = TRUE ELSE life' = "start" /\ again' = FALSE
    /\ UNCHANGED <<hostSide, readSide, starts, tap, active, inbound, earSide>>

StartFails ==
    /\ life = "start" /\ published = 0
    /\ life' = "idle" /\ again' = FALSE
    /\ UNCHANGED <<hostSide, readSide, starts, tap, active, inbound, earSide>>

Installs ==
    /\ life = "start" /\ published # 0 /\ ~Draining
    /\ starts' = starts + 1
    /\ tap' = [NoTap EXCEPT !.bridge = published, !.tapped = starts + 1, !.installed = starts + 1,
                            !.saved = onPacket[published]]
    /\ life' = "add" /\ again' = FALSE
    /\ UNCHANGED <<hostSide, readSide, active, inbound, earSide>>

AddsTap ==
    /\ life = "add"
    /\ listeners' = [listeners EXCEPT ![tap.bridge] = Append(@, tap.tapped)]
    /\ life' = "remove"
    /\ UNCHANGED <<published, opened, running, onPacket, mapped, play, hostMoves, readSide,
                   again, starts, tap, active, inbound, earSide>>

RemovesOriginal ==
    /\ life = "remove" /\ Contains(listeners[tap.bridge], tap.saved)
    /\ listeners' = [listeners EXCEPT ![tap.bridge] = Remove(@, tap.saved)]
    /\ life' = "publish"
    /\ UNCHANGED <<published, opened, running, onPacket, mapped, play, hostMoves, readSide,
                   again, starts, tap, active, inbound, earSide>>

(* The swap failed half way: the generation is fenced first, then the host's
   registry is repaired on a best-effort basis.                             *)
SwapFails ==
    /\ life \in {"add", "remove"} /\ ~Draining
    /\ \/ life = "remove" /\ ~Contains(listeners[tap.bridge], tap.saved) /\ UNCHANGED hostMoves
       \/ hostMoves < MaxHostMoves /\ hostMoves' = hostMoves + 1
    /\ tap' = [NoTap EXCEPT !.saved = tap.saved]
    /\ listeners' = [listeners EXCEPT ![tap.bridge] =
            LET rest == Remove(@, tap.tapped)
            IN IF Contains(rest, tap.saved) THEN rest ELSE Append(rest, tap.saved)]
    /\ life' = "settle"
    /\ UNCHANGED <<published, opened, running, onPacket, mapped, play, readSide,
                   again, starts, active, inbound, earSide>>

Publishes ==
    /\ life = "publish" /\ ~Draining
    /\ onPacket' = [onPacket EXCEPT ![tap.bridge] = tap.tapped]
    /\ tap' = [tap EXCEPT !.closing = tap.installed]
    /\ life' = "close"
    /\ UNCHANGED <<published, opened, running, listeners, mapped, play, hostMoves, readSide,
                   again, starts, active, inbound, earSide>>

\* Variant: the buffers the host filled before the session are drained too.
DiscardsNothing == UNCHANGED buffers

Discards == buffers' = [buffers EXCEPT ![tap.bridge] = <<>>]

Opens ==
    /\ life = "close" /\ active[tap.installed] = 0 /\ ~Draining
    /\ Discards
    /\ tap' = [tap EXCEPT !.capture = tap.installed, !.closing = 0]
    /\ life' = "park"
    /\ UNCHANGED <<hostSide, reader, packets, again, starts, active, inbound, earSide>>

(* The host's own speech is parked while the session owns the channel; a
   source that cannot be played hands everything back.                       *)
ParksPlay ==
    /\ life = "park"
    /\ play' = "parked"
    /\ \/ life' = "idle" /\ UNCHANGED hostMoves
       \/ life' = "stop" /\ hostMoves < MaxHostMoves /\ hostMoves' = hostMoves + 1
    /\ UNCHANGED <<published, opened, running, listeners, onPacket, mapped, readSide,
                   again, starts, tap, active, inbound, earSide>>

----------------------------------------------------------------------------
(* stop: fence the generation, take the tap out, give the host's listener
   back if the tap is still what the host would look up, wait for callbacks
   already inside the tap, and only then empty the queue.                    *)

StopBegins ==
    /\ life = "idle" /\ tap.bridge # 0
    /\ life' = "stop"
    /\ UNCHANGED <<hostSide, readSide, again, starts, tap, active, inbound, earSide>>

Fences ==
    /\ life = "stop" /\ ~Draining
    /\ tap' = [NoTap EXCEPT !.bridge = tap.bridge, !.tapped = tap.tapped, !.saved = tap.saved]
    /\ life' = IF Owned THEN "restore" ELSE "leave"
    /\ UNCHANGED <<hostSide, readSide, again, starts, active, inbound, earSide>>

Restorable == running[tap.bridge] /\ onPacket[tap.bridge] = tap.tapped /\ Exact

LeavesRegistry ==
    /\ life \in {"restore", "leave"}
    /\ listeners' = [listeners EXCEPT ![tap.bridge] =
            LET rest == Remove(@, tap.tapped)
            IN IF life = "restore" /\ Restorable /\ ~Contains(rest, tap.saved) THEN Append(rest, tap.saved) ELSE rest]
    /\ life' = IF life = "restore" /\ Restorable THEN "recheck" ELSE "settle"
    /\ UNCHANGED <<published, opened, running, onPacket, mapped, play, hostMoves, readSide,
                   again, starts, tap, active, inbound, earSide>>

\* Variant: the host's listener stays on a connection that was just replaced.
RechecksNothing ==
    /\ onPacket' = [onPacket EXCEPT ![tap.bridge] = IF Exact /\ @ = tap.tapped THEN tap.saved ELSE @]
    /\ UNCHANGED listeners

Rechecks ==
    IF ~Exact
    THEN /\ listeners' = [listeners EXCEPT ![tap.bridge] = Remove(@, tap.saved)] /\ UNCHANGED onPacket
    ELSE /\ onPacket' = [onPacket EXCEPT ![tap.bridge] = IF @ = tap.tapped THEN tap.saved ELSE @]
         /\ UNCHANGED listeners

RestoresHost ==
    /\ life = "recheck" /\ Rechecks
    /\ life' = "settle"
    /\ UNCHANGED <<published, opened, running, mapped, play, hostMoves, readSide,
                   again, starts, tap, active, inbound, earSide>>

Quiet == \A g \in Gens : active[g] = 0

Settles ==
    /\ life = "settle" /\ Quiet
    /\ inbound' = <<>> /\ tap' = NoTap /\ play' = "host"
    /\ life' = IF again THEN "start" ELSE "idle"
    /\ UNCHANGED <<published, opened, running, listeners, onPacket, mapped, hostMoves, readSide,
                   again, starts, active, earSide>>

----------------------------------------------------------------------------
(* The session's side: reading fails closed when the host's connection is no
   longer the borrowed one; pause and resume are two steps each.             *)

ReadsInput ==
    /\ life = "idle" /\ tap.bridge # 0
    /\ IF ~Exact THEN life' = "stop" /\ UNCHANGED inbound
       ELSE /\ ~paused /\ inbound # <<>> /\ inbound' = Tail(inbound) /\ UNCHANGED life
    /\ UNCHANGED <<hostSide, readSide, again, starts, tap, active, earSide>>

PauseInput ==
    /\ pausing = "no" /\ ~paused /\ resumes < MaxPauses /\ life = "idle" /\ tap.bridge # 0
    /\ paused' = TRUE /\ pausing' = "pause"
    /\ UNCHANGED <<hostSide, readSide, lifeSide, tap, active, inbound, resumes>>

ResumeInput ==
    /\ pausing = "no" /\ paused
    /\ pausing' = "resume" /\ inbound' = <<>>
    /\ UNCHANGED <<hostSide, readSide, lifeSide, tap, active, paused, resumes>>

PauseEnds ==
    /\ pausing # "no"
    /\ pausing' = "no"
    /\ IF pausing = "pause" THEN inbound' = <<>> /\ UNCHANGED <<paused, resumes>>
       ELSE paused' = FALSE /\ resumes' = resumes + 1 /\ UNCHANGED inbound
    /\ UNCHANGED <<hostSide, readSide, lifeSide, tap, active>>

TapNext ==
    \/ \E r \in Rooms : \/ HostJoins(r) \/ HostIdentifies(r) \/ PacketArrives(r)
                        \/ HostHears(r) \/ EntersTap(r) \/ CallsOriginal(r) \/ TapReturns(r)
                        \/ Drain(r) \/ Puts(r)
    \/ HostLeaves \/ HostRetakes
    \/ StartBegins \/ StartFails \/ Installs \/ AddsTap \/ RemovesOriginal \/ SwapFails
    \/ Publishes \/ Opens \/ ParksPlay
    \/ StopBegins \/ Fences \/ LeavesRegistry \/ RestoresHost \/ Settles
    \/ ReadsInput \/ PauseInput \/ ResumeInput \/ PauseEnds

TapSpec == TapInit /\ [][TapNext]_tapVars

----------------------------------------------------------------------------
TapTypeOK ==
    /\ published \in Rooms \cup {0} /\ tap.bridge \in Rooms \cup {0}
    /\ \A r \in Rooms : onPacket[r] \in Gens \cup {Host} /\ reader[r].at \in {"idle", "next", "tap", "after", "put"}
    /\ \A g \in Gens : active[g] \in 0..2

Audible == UNION {Range(inbound[i]) : i \in DOMAIN inbound}

(* Whatever the session can read was decoded while its own tap was in: nothing
   the host had buffered before, nothing of an earlier session, and nothing at
   all once the connection is handed back.                                   *)
HeardIsOurs == life = "idle" => \A a \in Audible : tap.installed # 0 /\ a.born = tap.installed

(* A connection handed back is the host's again: its listener is registered
   once and is the one the host looks up, none of the session's taps is left
   on any connection, and the host can speak.                                *)
HandedBack ==
    life = "idle" /\ tap.bridge = 0 =>
        /\ \A r \in Rooms : \A i \in DOMAIN listeners[r] : listeners[r][i] = Host
        /\ \A r \in Rooms : r # published /\ ~running[r] /\ onPacket[r] # Host => listeners[r] = <<>>
        /\ published # 0 => listeners[published] = <<Host>> /\ onPacket[published] = Host
        /\ play = "host"

(* A tap always wraps the host's listener, never an older tap.             *)
WrapsTheHost == tap.bridge # 0 => tap.saved = Host

(* The queue to the session never outgrows its bound.                      *)
InboundBounded == Len(inbound) <= MaxInbound

\* What every state of the tap keeps: only this session's audio is heard, the host's
\* receiver is given back, wrapped once, and the queue stays within its bound.
TapSafe == TapTypeOK /\ HeardIsOurs /\ HandedBack /\ WrapsTheHost /\ InboundBounded

(* In an encrypted room nothing decoded before the speaker was known is heard.
   (Refuted: the host may learn who speaks between the decoding and the drain.) *)
HeardWasDecoded == Encrypted => \A a \in Audible : a.known

(* Audio from before a pause is never heard after the resume.  (Refuted: a
   drain that looked before the pause may write after the resume's own drain.) *)
PauseIsHeard == ~paused /\ pausing = "no" => \A a \in Audible : a.turn = resumes

=============================================================================
