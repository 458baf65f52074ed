-------------------------- MODULE MCRoom --------------------------
(* Instances of the modules of the audio side, in one run.  They share no
   state: a behaviour is a behaviour of one of them. *)
EXTENDS DiscordTap, VoiceSessions, AudioDevices, CascadeSpeech, OperatorPermits

VARIABLE part

RoomParts == {"tap", "sessions", "playback", "routes", "cascade", "permits"}

RoomVars  == <<part, tapVars, seatVars, playVars, routeVars, cascVars, permitVars>>

\* Every part starts; one of them is the one that runs, and the others start one way.
RoomInit ==
    /\ part \in RoomParts
    /\ TapInit /\ SeatInit /\ PlayInit /\ RouteInit /\ CascInit /\ PermitsInit
    /\ part # "playback" => device = "terminal"

RoomNext ==
    /\ UNCHANGED part
    /\ \/ /\ part = "tap" /\ TapNext
          /\ UNCHANGED <<seatVars, playVars, routeVars, cascVars, permitVars>>
       \/ /\ part = "sessions" /\ SeatNext
          /\ UNCHANGED <<tapVars, playVars, routeVars, cascVars, permitVars>>
       \/ /\ part = "playback" /\ PlayNext
          /\ UNCHANGED <<tapVars, seatVars, routeVars, cascVars, permitVars>>
       \/ /\ part = "routes" /\ RouteNext
          /\ UNCHANGED <<tapVars, seatVars, playVars, cascVars, permitVars>>
       \/ /\ part = "cascade" /\ CascNext
          /\ UNCHANGED <<tapVars, seatVars, playVars, routeVars, permitVars>>
       \/ /\ part = "permits" /\ PermitsNext
          /\ UNCHANGED <<tapVars, seatVars, playVars, routeVars, cascVars>>

RoomSpec == RoomInit /\ [][RoomNext]_RoomVars

\* The seat of a room and the voice that answers in it: one session, bound while it
\* lives, whose failure is shown and whose interrupted answers stay silent.
RoomVoiceSafe == SeatSafe /\ CascadeSafe

\* The devices: audio is heard or counted as lost, and the operator's settings are
\* given back.
DevicesSafe == PlaybackSafe /\ RoutesSafe

\* No session gets the result of another, and a tainted chain gets no permit.
NothingForOthers == ResultOfItsSession /\ TaintIsFinal
=============================================================================
