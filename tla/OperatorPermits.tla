--------------------------- MODULE OperatorPermits ---------------------------
(***************************************************************************)
(* Who spoke, and what may be done about it: the authorization ledger of a *)
(* Discord voice session (talk_operator_auth.py).                          *)
(*                                                                         *)
(* Packets of the room are recorded with their speaker.  The provider      *)
(* names the interval of an utterance; its commit asks for a response with *)
(* a token bound to the one speaker of that interval; the response that    *)
(* brings the token back has the speaker's authority, its calls get a      *)
(* permit each, and the response that continues it inherits it.            *)
(***************************************************************************)
EXTENDS Integers, Sequences, FiniteSets

CONSTANTS
  Operators, Guests,   \* speakers in the room
  Utterances,          \* VAD items
  RoomResponses,       \* response ids
  RoomCalls,           \* tool calls that change state
  EchoesMetadata,      \* the provider returns the token
  MaxTicks,            \* bound: packets
  KeptTicks,           \* _max_segments
  SeenResponses,       \* _max_seen_response_ids
  MaxBindings,         \* bound: tokens
  MaxStrange           \* bound: repeated, recycled, unasked and refused events, reconnects

ASSUME PermitsAssumption ==
  /\ EchoesMetadata \in BOOLEAN /\ MaxTicks \in Nat /\ KeptTicks \in Nat \ {0}
  /\ SeenResponses \in Nat \ {0} /\ MaxBindings \in Nat /\ MaxStrange \in Nat
  /\ "no one" \notin Operators \cup Guests

Speakers == Operators \cup Guests
Sounds == Speakers \cup {"unclear"}      \* packets nobody speaks in are left out
Bindings == 1..MaxBindings
NoOne == "no one"

VARIABLES
  room,       \* who was heard, packet by packet
  utterance,  \* utterance[i]: phase, interval and speaker
  binding,    \* the tokens made so far
  authority,  \* authority[r]: of a response
  permit,     \* permit[a]: of a call, and how often it ran
  mentioned,  \* the target was spoken of
  ledger,     \* [poisoned, base, forgotten]: base packets and forgotten responses are of
              \* earlier connections
  asked,      \* tokens of responses the provider was asked for
  strange

permitVars == <<room, utterance, binding, authority, permit, mentioned, ledger, asked, strange>>

NoUtterance == [phase |-> "none", from |-> 0, to |-> 0, tainted |-> FALSE, who |-> NoOne]
NoAuthority == [seen |-> FALSE, live |-> FALSE, of |-> 0, tainted |-> FALSE, next |-> 0]
NoPermit == [state |-> "none", of |-> "none", ran |-> 0]

PermitsInit ==
  /\ room = <<>> /\ utterance = [i \in Utterances |-> NoUtterance]
  /\ binding = <<>> /\ authority = [r \in RoomResponses |-> NoAuthority]
  /\ permit = [a \in RoomCalls |-> NoPermit]
  /\ mentioned = FALSE /\ ledger = [poisoned |-> FALSE, base |-> 0, forgotten |-> 0]
  /\ asked = {} /\ strange = 0

Strange == strange < MaxStrange /\ strange' = strange + 1

\* Packets that come when no utterance is open any more change nothing and are left out.
Packet(sound) ==
  /\ Len(room) < MaxTicks /\ \E i \in Utterances : utterance[i].phase \in {"none", "started"}
  /\ room' = Append(room, sound)
  /\ UNCHANGED <<utterance, binding, authority, permit, mentioned, ledger, asked, strange>>

\* note_transcript: a turn in which the target is named.
Mention ==
  /\ ~mentioned /\ mentioned' = TRUE
  /\ UNCHANGED <<room, utterance, binding, authority, permit, ledger, asked, strange>>

-----------------------------------------------------------------------------
(* Utterances.                                                             *)

Tainted(u) == [u EXCEPT !.tainted = TRUE, !.who = NoOne]

SpeechStarts(i, from) ==
  /\ from \in (ledger.base + 1)..Len(room)
  /\ IF utterance[i].phase = "none"
     THEN /\ utterance' = [utterance EXCEPT ![i].phase = "started", ![i].from = from]
          /\ UNCHANGED strange
     ELSE Strange /\ utterance' = [utterance EXCEPT ![i] = Tainted(@)]
  /\ UNCHANGED <<room, binding, authority, permit, mentioned, ledger, asked>>

\* What is still on record of an interval; older packets have been dropped.
Recorded(from, to) == {room[n] : n \in {m \in from..to : m > Len(room) - KeptTicks}}
Missing(from) == from <= Len(room) - KeptTicks

\* Variant: a second voice does not make the speaker ambiguous.
SpeakerFirst(from, to) ==
  LET users == Recorded(from, to) \cap Speakers
  IN IF Missing(from) \/ "unclear" \in Recorded(from, to) \/ users = {} THEN NoOne
     ELSE CHOOSE s \in users : users \cap Operators # {} => s \in Operators

SpeakerOf(from, to) ==
  LET users == Recorded(from, to) \cap Speakers
  IN IF ~Missing(from) /\ "unclear" \notin Recorded(from, to) /\ Cardinality(users) = 1
     THEN CHOOSE s \in users : TRUE ELSE NoOne

SpeechStops(i, to) ==
  LET u == utterance[i]
  IN /\ to \in (ledger.base + 1)..Len(room)
     /\ IF u.phase = "started" /\ ~u.tainted
        THEN /\ to >= u.from /\ UNCHANGED strange
             /\ utterance' = [utterance EXCEPT ![i] =
                  [@ EXCEPT !.phase = "stopped", !.to = to, !.who = SpeakerOf(u.from, to)]]
        ELSE /\ Strange
             /\ utterance' = [utterance EXCEPT ![i] =
                  Tainted([u EXCEPT !.phase = IF @ = "none" THEN "stopped" ELSE @])]
     /\ UNCHANGED <<room, binding, authority, permit, mentioned, ledger, asked>>

-----------------------------------------------------------------------------
(* Responses.                                                              *)

\* A token: whose it is, the utterance it goes back to, the chain it belongs to, whether its
\* response is still expected and whether the speech it comes from is too long ago.
NewBinding(who, root, chain) ==
  Append(binding, [who |-> who, root |-> root, chain |-> chain,
                   expected |-> ~ledger.poisoned, late |-> FALSE])

Expected == {t \in DOMAIN binding : binding[t].expected}
ChainTainted(chain) == \E r \in RoomResponses : authority[r].tainted /\ binding[authority[r].of].chain = chain

\* response_for_commit: every committed utterance is answered, but a commit that comes out of
\* order has nobody's authority.
Commit(i) ==
  LET u == utterance[i]
      ordered == u.phase = "stopped" /\ ~u.tainted
  IN /\ u.phase # "committed" /\ Len(binding) < MaxBindings
     /\ IF ordered THEN UNCHANGED strange ELSE Strange
     /\ utterance' = [utterance EXCEPT ![i] =
          [(IF ordered THEN u ELSE Tainted(u)) EXCEPT !.phase = "committed"]]
     /\ binding' = NewBinding(IF ordered THEN u.who ELSE NoOne, i, Len(binding) + 1)
     /\ asked' = asked \cup {Len(binding) + 1}
     /\ UNCHANGED <<room, authority, permit, mentioned, ledger>>

Refused(t) ==
  /\ t \in asked /\ Strange /\ asked' = asked \ {t}
  /\ UNCHANGED <<room, utterance, binding, authority, permit, mentioned, ledger>>

\* Without an echo the one response that is expected is taken to be this one.
Answered(t) ==
  IF EchoesMetadata THEN Expected \cap {t} ELSE IF Cardinality(Expected) = 1 THEN Expected ELSE {}

Seen(r) == authority[r].seen

Seens == Cardinality({r \in RoomResponses : authority[r].seen}) - ledger.forgotten
AllTainted == [r \in RoomResponses |-> [authority[r] EXCEPT !.tainted = @ \/ authority[r].of # 0, !.live = FALSE]]

\* response.created, for the token that was asked with or, unasked, for none (0).
Created(r, t) ==
  /\ t \in asked \cup {0}
  /\ IF t = 0 \/ Seen(r) THEN Strange ELSE UNCHANGED strange
  /\ asked' = asked \ {t}
  /\ LET by == Answered(t)
         used == [s \in DOMAIN binding |-> [binding[s] EXCEPT !.expected = @ /\ s \notin by]]
     IN \/ /\ Seen(r)
           /\ authority' = [authority EXCEPT ![r].tainted = authority[r].of # 0, ![r].live = FALSE]
           /\ binding' = [s \in DOMAIN binding |->
                [binding[s] EXCEPT !.expected = @ /\ s # authority[r].next /\ ~(EchoesMetadata /\ s = t)]]
           /\ UNCHANGED ledger
        \/ /\ ~Seen(r) /\ Seens >= SeenResponses
           /\ ledger' = [ledger EXCEPT !.poisoned = TRUE]
           /\ authority' = AllTainted
           /\ binding' = [s \in DOMAIN binding |-> [binding[s] EXCEPT !.expected = FALSE]]
        \/ /\ ~Seen(r) /\ Seens < SeenResponses
           /\ binding' = used
           /\ authority' = [authority EXCEPT ![r] =
                IF ledger.poisoned \/ by = {} \/ (\E s \in by : ChainTainted(binding[s].chain))
                THEN [NoAuthority EXCEPT !.seen = TRUE]
                ELSE [NoAuthority EXCEPT !.seen = TRUE, !.live = TRUE, !.of = CHOOSE s \in by : TRUE]]
           /\ UNCHANGED ledger
  /\ UNCHANGED <<room, utterance, permit, mentioned>>

-----------------------------------------------------------------------------
(* Calls.                                                                  *)

\* Variant: the taint of an earlier response of the chain is not looked up.
TrustsOwn(r) == authority[r].live /\ ~authority[r].tainted /\ ~ledger.poisoned
Trusts(r) ==
  /\ authority[r].live /\ ~authority[r].tainted /\ ~ledger.poisoned
  /\ ~ChainTainted(binding[authority[r].of].chain)

\* bind_tool_event: the first call of a response makes the token that continues it.
BindCall(a, r, targeted) ==
  LET minted == permit[a].state = "none" /\ Trusts(r) /\ binding[authority[r].of].who # NoOne
                /\ (targeted => mentioned)
      continues == Trusts(r) /\ authority[r].next = 0
  IN /\ IF permit[a].state = "none" THEN UNCHANGED strange ELSE Strange
     /\ permit[a].ran = 0 /\ authority[r].seen
     /\ permit' = [permit EXCEPT ![a] =
          IF @.state # "none" THEN @
          ELSE [state |-> IF minted THEN "minted" ELSE "refused", of |-> r, ran |-> 0]]
     /\ IF continues
        THEN /\ Len(binding) < MaxBindings
             /\ binding' = Append(binding, [binding[authority[r].of] EXCEPT !.expected = TRUE])
             /\ authority' = [authority EXCEPT ![r].next = Len(binding) + 1]
        ELSE UNCHANGED <<binding, authority>>
     /\ UNCHANGED <<room, utterance, mentioned, ledger, asked>>

Late(a) == binding[authority[permit[a].of].of].late

\* Variant: a permit is good for any number of executions.
ConsumedNever(p) == p
Consumed(p) == [p EXCEPT !.state = "consumed"]

\* authorize_tool, once for every attempt to execute the call.
Authorize(a) ==
  LET p == permit[a]
      r == p.of
      allowed == /\ p.state = "minted" /\ ~Late(a)
                 /\ ~ledger.poisoned /\ ~authority[r].tainted
                 /\ ~ChainTainted(binding[authority[r].of].chain)
                 /\ binding[authority[r].of].who \in Operators
  IN /\ p.state = "minted"
     /\ permit' = [permit EXCEPT ![a] = Consumed(IF allowed THEN [p EXCEPT !.ran = @ + 1] ELSE p)]
     /\ p.ran < 2
     /\ UNCHANGED <<room, utterance, binding, authority, mentioned, ledger, asked, strange>>

\* complete_response: the results go back with the continuing token, or nothing follows.
Completes(r, continued) ==
  /\ authority[r].live
  /\ authority' = [authority EXCEPT ![r].live = FALSE]
  /\ LET t == authority[r].next
     IN /\ continued => t # 0
        /\ asked' = IF continued THEN asked \cup {t} ELSE asked
        /\ binding' = [s \in DOMAIN binding |->
             [binding[s] EXCEPT !.expected = @ /\ (continued \/ s # t)]]
  /\ UNCHANGED <<room, utterance, permit, mentioned, ledger, strange>>

\* approval_permit_ttl_s after the speech of everything bound so far.
TimePasses ==
  /\ \E t \in DOMAIN binding : ~binding[t].late
  /\ binding' = [t \in DOMAIN binding |-> [binding[t] EXCEPT !.late = TRUE]]
  /\ UNCHANGED <<room, utterance, authority, permit, mentioned, ledger, asked, strange>>

\* clear: the connection is gone; what is under way keeps its permit and its taint.
Clear ==
  /\ Strange
  /\ utterance' = [i \in Utterances |-> [utterance[i] EXCEPT !.tainted = TRUE]]
  /\ authority' = AllTainted
  /\ binding' = [s \in DOMAIN binding |-> [binding[s] EXCEPT !.expected = FALSE]]
  /\ ledger' = [poisoned |-> FALSE, base |-> Len(room), forgotten |-> Seens + ledger.forgotten]
  /\ mentioned' = FALSE /\ asked' = {}
  /\ UNCHANGED <<room, permit>>

PermitsNext ==
  \/ \E s \in Sounds : Packet(s)
  \/ \E i \in Utterances : Commit(i) \/ \E n \in 1..MaxTicks : SpeechStarts(i, n) \/ SpeechStops(i, n)
  \/ \E t \in Bindings : Refused(t)
  \/ \E r \in RoomResponses : \/ \E t \in Bindings \cup {0} : Created(r, t)
                              \/ \E b \in BOOLEAN : Completes(r, b) \/ \E a \in RoomCalls : BindCall(a, r, b)
  \/ \E a \in RoomCalls : Authorize(a)
  \/ Mention \/ TimePasses \/ Clear

PermitsSpec == PermitsInit /\ [][PermitsNext]_permitVars

-----------------------------------------------------------------------------
Ran(a) == permit[a].ran > 0
RootOf(a) == binding[authority[permit[a].of].of].root

PermitsTypeOK ==
  /\ Expected \subseteq DOMAIN binding /\ asked \subseteq DOMAIN binding
  /\ \A r \in RoomResponses : authority[r].live => authority[r].seen /\ authority[r].of # 0
  /\ \A a \in RoomCalls : permit[a].ran <= 2

\* A call that changes state was executed only if, from the first packet of the utterance it
\* goes back to until its last, an operator was heard, only one, and nobody else, however many
\* responses lie in between and however much of the recording has been dropped since.
OperatorAlone ==
  \A a \in RoomCalls : Ran(a) =>
    LET u == utterance[RootOf(a)]
        heard == {room[n] : n \in u.from..u.to}
    IN Cardinality(heard) = 1 /\ heard \subseteq Operators

\* It was executed once.
RanOnce == \A a \in RoomCalls : permit[a].ran <= 1

\* A token has authority in one response only, and a response is continued by one token only.
TokenOnce ==
  \A r, s \in RoomResponses :
    /\ r # s /\ authority[r].of # 0 => authority[r].of # authority[s].of
    /\ authority[r].next # 0 => binding[authority[r].next].chain = binding[authority[r].of].chain
    /\ r # s /\ authority[r].next # 0 => authority[r].next # authority[s].next

\* What every state of the permits keeps: a permit is the operator's alone, runs one call
\* once, and a token binds one response.
PermitsSafe == PermitsTypeOK /\ OperatorAlone /\ RanOnce /\ TokenOnce

\* After a response id was used twice, the ids ran out or the connection went, nothing of that
\* chain gets a permit or is executed.
TaintIsFinal ==
  [][\A a \in RoomCalls :
       permit'[a] # permit[a] /\ permit'[a].state # "refused" /\ (permit'[a].state = "minted" \/ Ran(a)')
         => ~ledger.poisoned /\ ~ChainTainted(binding[authority[permit'[a].of].of].chain)]_permitVars

\* (Refuted: a refused response.create leaves its token expected.  Where the provider does not
\* echo tokens, no later response is recognised: two are expected from then on.)
ExpectedIsAsked ==
  \A t \in Expected : t \in asked \/ \E r \in RoomResponses : authority[r].live /\ authority[r].next = t
=============================================================================
