----------------------- MODULE OperatorPermitsProofs -----------------------
(***************************************************************************)
(* Proofs about OperatorPermits: PermitsSafe holds in every reachable      *)
(* state and every step satisfies TaintIsFinal, for every set of speakers, *)
(* utterances, responses and calls, every length of the recording that is  *)
(* kept, and whether or not the provider returns the tokens.               *)
(*                                                                         *)
(* The invariant follows the speaker: a token that is somebody's goes back *)
(* to an utterance that is over and in which nobody else was heard         *)
(* (VoiceInv), a response holds a token nobody else holds (TokenInv), and  *)
(* a call ran only once and under a token of an operator (CallInv).        *)
(***************************************************************************)
EXTENDS OperatorPermits, FiniteSetTheorems, TLAPS

Utterings == [phase: {"none", "started", "stopped", "committed"}, from: Nat, to: Nat,
              tainted: BOOLEAN, who: Speakers \cup {NoOne}]
Tokens == [who: Speakers \cup {NoOne}, root: Utterances, chain: Nat, expected: BOOLEAN,
           late: BOOLEAN]
Authorities == [seen: BOOLEAN, live: BOOLEAN, of: Nat, tainted: BOOLEAN, next: Nat]
Permits == [state: {"none", "minted", "refused", "consumed"}, of: RoomResponses \cup {"none"},
            ran: 0 .. 2]

LedgerOK ==
  /\ ledger = [poisoned |-> ledger.poisoned, base |-> ledger.base, forgotten |-> ledger.forgotten]
  /\ ledger.poisoned \in BOOLEAN /\ ledger.base \in Nat

Typed ==
  /\ room \in Seq(Sounds) /\ utterance \in [Utterances -> Utterings]
  /\ binding \in Seq(Tokens) /\ authority \in [RoomResponses -> Authorities]
  /\ permit \in [RoomCalls -> Permits] /\ asked \subseteq 1 .. Len(binding)
  /\ LedgerOK

\* From one packet to another, one speaker and nobody else was heard.
Alone(heard, from, to, who) ==
  1 <= from /\ from <= to /\ to <= Len(heard) /\ \A n \in from .. to : heard[n] = who

\* An utterance that stopped, and one that was committed and whose token is somebody's, was
\* that speaker's alone.
VoiceInv ==
  /\ \A i \in Utterances :
       LET u == utterance[i]
       IN  /\ u.phase = "started" => 1 <= u.from
           /\ u.phase = "stopped" /\ u.who # NoOne => Alone(room, u.from, u.to, u.who)
  /\ \A t \in 1 .. Len(binding) : binding[t].who # NoOne =>
       LET u == utterance[binding[t].root]
       IN  u.phase = "committed" /\ Alone(room, u.from, u.to, binding[t].who)

\* A response holds a token that nobody expects any more and no other response holds.
TokenInv ==
  /\ \A r \in RoomResponses :
       /\ authority[r].of \in 0 .. Len(binding) /\ authority[r].next \in 0 .. Len(binding)
       /\ authority[r].live => authority[r].seen /\ authority[r].of # 0
       /\ authority[r].of # 0 => ~binding[authority[r].of].expected
       /\ authority[r].next # 0 => authority[r].of # 0
  /\ TokenOnce

\* A call has its permit from a response that was seen, and ran under an operator's token.
CallInv ==
  \A a \in RoomCalls :
    LET p == permit[a]
    IN  /\ p.state \in {"none", "minted"} => p.ran = 0
        /\ p.state \in {"minted", "consumed"} =>
             p.of \in RoomResponses /\ authority[p.of].seen /\ authority[p.of].of # 0
        /\ p.ran <= 1
        /\ p.ran > 0 => p.state = "consumed" /\ binding[authority[p.of].of].who \in Operators

PermitsInv == Typed /\ VoiceInv /\ TokenInv /\ CallInv

-----------------------------------------------------------------------------
(* Types.                                                                  *)

\* A queue that gains an element at its end.
LEMMA Appended ==
  ASSUME NEW T, NEW s \in Seq(T), NEW e \in T
  PROVE  /\ Append(s, e) \in Seq(T) /\ Len(Append(s, e)) = Len(s) + 1
         /\ \A i \in 1 .. Len(s) : Append(s, e)[i] = s[i]
         /\ Append(s, e)[Len(s) + 1] = e
         /\ \A i \in 1 .. Len(Append(s, e)) : i \in 1 .. Len(s) \/ i = Len(s) + 1
OBVIOUS

\* A sequence rewritten in place.
LEMMA Rewritten ==
  ASSUME NEW T, NEW s \in Seq(T), NEW g,
         g = [i \in DOMAIN s |-> g[i]], \A i \in 1 .. Len(s) : g[i] \in T
  PROVE  g \in Seq(T) /\ Len(g) = Len(s)
<1>1. DOMAIN s = 1 .. Len(s) /\ Len(s) \in Nat
  OBVIOUS
<1>2. g \in [1 .. Len(s) -> T]
  BY <1>1
<1> QED
  BY <1>1, <1>2

\* A token rewritten in what is expected or late.
LEMMA TokenKept ==
  ASSUME NEW k \in Tokens, NEW e \in BOOLEAN
  PROVE  /\ [k EXCEPT !.expected = e] \in Tokens /\ [k EXCEPT !.late = e] \in Tokens
         /\ [k EXCEPT !.expected = e].who = k.who /\ [k EXCEPT !.expected = e].root = k.root
         /\ [k EXCEPT !.expected = e].chain = k.chain /\ [k EXCEPT !.expected = e].expected = e
         /\ [k EXCEPT !.late = e].who = k.who /\ [k EXCEPT !.late = e].root = k.root
         /\ [k EXCEPT !.late = e].chain = k.chain /\ [k EXCEPT !.late = e].expected = k.expected
BY DEF Tokens

\* How the tokens change: one is new, that of an utterance which is committed or one that
\* continues another; or what is expected of them falls.
Fresh(k) ==
  k.who # NoOne =>
    LET u == utterance[k.root]
    IN  /\ u.phase = "stopped" /\ u.who = k.who
        /\ utterance'[k.root] = [u EXCEPT !.phase = "committed"]
Copies(k) ==
  \E t \in 1 .. Len(binding) :
    k.who = binding[t].who /\ k.root = binding[t].root /\ k.chain = binding[t].chain
Grows(k) == binding' = Append(binding, k) /\ (Fresh(k) \/ Copies(k))
Rewrites ==
  /\ binding' \in Seq(Tokens) /\ Len(binding') = Len(binding)
  /\ \A t \in 1 .. Len(binding) :
       /\ binding'[t].who = binding[t].who /\ binding'[t].root = binding[t].root
       /\ binding'[t].chain = binding[t].chain
       /\ binding'[t].expected => binding[t].expected
TokensChange == Rewrites \/ \E k \in Tokens : Grows(k)

\* How the tokens change in a step.
LEMMA TokensMove == Typed /\ TokenInv /\ [PermitsNext]_permitVars => TokensChange
<1> SUFFICES ASSUME Typed /\ TokenInv, [PermitsNext]_permitVars PROVE TokensChange
  OBVIOUS
<1>0. /\ binding \in Seq(Tokens) /\ Len(binding) \in Nat /\ DOMAIN binding = 1 .. Len(binding)
      /\ \A t \in 1 .. Len(binding) : binding[t] \in Tokens
  BY DEF Typed
<1>k. UNCHANGED binding => TokensChange
  BY <1>0 DEF Rewrites, TokensChange
<1>w. ASSUME NEW g, binding' = g, g = [s \in DOMAIN binding |-> g[s]],
             \A s \in 1 .. Len(binding) : \E e \in BOOLEAN :
               g[s] = [binding[s] EXCEPT !.expected = e] /\ (e => binding[s].expected)
      PROVE  TokensChange
  <2>1. ASSUME NEW s \in 1 .. Len(binding)
        PROVE  /\ g[s] \in Tokens /\ g[s].who = binding[s].who /\ g[s].root = binding[s].root
               /\ g[s].chain = binding[s].chain
               /\ g[s].expected => binding[s].expected
    <3>1. PICK e \in BOOLEAN : g[s] = [binding[s] EXCEPT !.expected = e] /\ (e =>
       binding[s].expected)
      BY <1>w
    <3>2. PICK k \in Tokens : k = binding[s]
      BY <1>0
    <3>3. /\ [k EXCEPT !.expected = e] \in Tokens /\ [k EXCEPT !.expected = e].who = k.who
          /\ [k EXCEPT !.expected = e].root = k.root /\ [k EXCEPT !.expected = e].chain = k.chain
          /\ [k EXCEPT !.expected = e].expected = e
      BY DEF Tokens
    <3> QED
      BY <3>1, <3>2, <3>3
  <2>2. g \in Seq(Tokens) /\ Len(g) = Len(binding)
    BY <1>0, <1>w, <2>1, Rewritten
  <2> QED
    BY <1>w, <2>1, <2>2 DEF Rewrites, TokensChange
<1>1. ASSUME NEW s \in Sounds, Packet(s) PROVE TokensChange
  BY <1>1, <1>k DEF Packet
<1>2. ASSUME NEW i \in Utterances, Commit(i) PROVE TokensChange
  <2>1. PICK u \in Utterings : u = utterance[i]
    BY DEF Typed
  <2> DEFINE who == IF u.phase = "stopped" /\ ~u.tainted THEN u.who ELSE NoOne
  <2>2. PICK w \in Speakers \cup {NoOne} : w = who
    BY DEF Utterings
  <2>5. PICK good \in BOOLEAN : good <=> ~ledger.poisoned
    OBVIOUS
  <2>6. good = ~ledger.poisoned
    BY <2>5
  <2>3. PICK k \in Tokens : k = [who |-> w, root |-> i, chain |-> Len(binding) + 1,
                                 expected |-> good, late |-> FALSE]
    <3>1. Len(binding) + 1 \in Nat
      BY <1>0
    <3> QED
      BY <3>1 DEF Tokens
  <2>4. binding' = Append(binding, k)
    BY <1>2, <2>1, <2>2, <2>3, <2>6 DEF Commit, NewBinding
  <2>7. utterance'[i] = [u EXCEPT !.phase = "committed"] \/ w = NoOne
    BY <1>2, <2>1, <2>2 DEF Commit, Typed
  <2>8. w # NoOne => u.phase = "stopped" /\ u.who = w
    BY <2>2
  <2> QED
    BY <2>1, <2>3, <2>4, <2>7, <2>8 DEF Grows, Fresh, TokensChange
<1>3. ASSUME NEW i \in Utterances, NEW n \in 1 .. MaxTicks, SpeechStarts(i, n) PROVE TokensChange
  BY <1>3, <1>k DEF SpeechStarts
<1>4. ASSUME NEW i \in Utterances, NEW n \in 1 .. MaxTicks, SpeechStops(i, n) PROVE TokensChange
  BY <1>4, <1>k DEF SpeechStops
<1>5. ASSUME NEW t \in Bindings, Refused(t) PROVE TokensChange
  BY <1>5, <1>k DEF Refused
<1>6. ASSUME NEW r \in RoomResponses, NEW t \in Bindings \cup {0}, Created(r, t) PROVE TokensChange
  <2>1. CASE binding' = [s \in DOMAIN binding |->
                [binding[s] EXCEPT !.expected = @ /\ s # authority[r].next /\ ~(EchoesMetadata /\ s
                   = t)]]
    <3> DEFINE e(s) == binding[s].expected /\ s # authority[r].next /\ ~(EchoesMetadata /\ s = t)
               g == [s \in DOMAIN binding |-> [binding[s] EXCEPT !.expected = e(s)]]
    <3>1. binding' = g
      BY <2>1
    <3>2. g = [s \in DOMAIN binding |-> g[s]]
      OBVIOUS
    <3>5. \A s \in 1 .. Len(binding) : g[s] = [binding[s] EXCEPT !.expected = e(s)]
      BY <1>0
    <3>3. \A s \in 1 .. Len(binding) : e(s) \in BOOLEAN /\ (e(s) => binding[s].expected)
      BY <1>0 DEF Tokens
    <3>6. \A s \in 1 .. Len(binding) : \E x \in BOOLEAN :
            g[s] = [binding[s] EXCEPT !.expected = x] /\ (x => binding[s].expected)
      <4> HIDE DEF e, g
      <4> QED
        BY <3>3, <3>5
    <3> HIDE DEF e, g
    <3> QED
      BY <1>w, <3>1, <3>2, <3>6
  <2>2. CASE binding' = [s \in DOMAIN binding |-> [binding[s] EXCEPT !.expected = FALSE]]
    <3> DEFINE g == [s \in DOMAIN binding |-> [binding[s] EXCEPT !.expected = FALSE]]
    <3>2. g = [s \in DOMAIN binding |-> g[s]]
      OBVIOUS
    <3>5. \A s \in 1 .. Len(binding) : g[s] = [binding[s] EXCEPT !.expected = FALSE]
      BY <1>0
    <3>6. \A s \in 1 .. Len(binding) : \E x \in BOOLEAN :
            g[s] = [binding[s] EXCEPT !.expected = x] /\ (x => binding[s].expected)
      BY <3>5
    <3> HIDE DEF g
    <3>7. binding' = g
      BY <2>2 DEF g
    <3> QED
      BY <1>w, <3>2, <3>6, <3>7
  <2>3. CASE binding' = [s \in DOMAIN binding |-> [binding[s] EXCEPT !.expected = @ /\ s \notin
     Answered(t)]]
    <3> DEFINE e(s) == binding[s].expected /\ s \notin Answered(t)
               g == [s \in DOMAIN binding |-> [binding[s] EXCEPT !.expected = e(s)]]
    <3>1. binding' = g
      BY <2>3
    <3>2. g = [s \in DOMAIN binding |-> g[s]]
      OBVIOUS
    <3>5. \A s \in 1 .. Len(binding) : g[s] = [binding[s] EXCEPT !.expected = e(s)]
      BY <1>0
    <3>3. \A s \in 1 .. Len(binding) : e(s) \in BOOLEAN /\ (e(s) => binding[s].expected)
      BY <1>0 DEF Tokens
    <3>6. \A s \in 1 .. Len(binding) : \E x \in BOOLEAN :
            g[s] = [binding[s] EXCEPT !.expected = x] /\ (x => binding[s].expected)
      <4> HIDE DEF e, g
      <4> QED
        BY <3>3, <3>5
    <3> HIDE DEF e, g
    <3> QED
      BY <1>w, <3>1, <3>2, <3>6
  <2> QED
    BY <1>6, <2>1, <2>2, <2>3 DEF Created
<1>7. ASSUME NEW r \in RoomResponses, NEW b \in BOOLEAN, Completes(r, b) PROVE TokensChange
  <2> DEFINE e(s) == binding[s].expected /\ (b \/ s # authority[r].next)
             g == [s \in DOMAIN binding |-> [binding[s] EXCEPT !.expected = e(s)]]
  <2>1. binding' = g
    <3>1. \A s \in DOMAIN binding : [binding[s] EXCEPT !.expected = @ /\ (b \/ s #
       authority[r].next)]
                                    = [binding[s] EXCEPT !.expected = e(s)]
      OBVIOUS
    <3> QED
      BY <1>7, <3>1 DEF Completes
  <2>2. g = [s \in DOMAIN binding |-> g[s]]
    OBVIOUS
  <2>5. \A s \in 1 .. Len(binding) : g[s] = [binding[s] EXCEPT !.expected = e(s)]
    BY <1>0
  <2>3. \A s \in 1 .. Len(binding) : e(s) \in BOOLEAN /\ (e(s) => binding[s].expected)
    BY <1>0 DEF Tokens
  <2>6. \A s \in 1 .. Len(binding) : \E x \in BOOLEAN :
          g[s] = [binding[s] EXCEPT !.expected = x] /\ (x => binding[s].expected)
    <3> HIDE DEF e, g
    <3> QED
      BY <2>3, <2>5
  <2> HIDE DEF e, g
  <2> QED
    BY <1>w, <2>1, <2>2, <2>6
<1>8. ASSUME NEW a \in RoomCalls, NEW r \in RoomResponses, NEW b \in BOOLEAN, BindCall(a, r, b)
   PROVE TokensChange
  <2>1. CASE UNCHANGED binding
    BY <1>k, <2>1
  <2>2. CASE Trusts(r) /\ binding' = Append(binding, [binding[authority[r].of] EXCEPT !.expected =
     TRUE])
    <3>1. authority[r].of \in 1 .. Len(binding)
      BY <2>2 DEF TokenInv, Trusts
    <3>2. PICK t \in 1 .. Len(binding), q \in Tokens : t = authority[r].of /\ q = binding[t]
      BY <1>0, <3>1
    <3>3. PICK k \in Tokens : k = [q EXCEPT !.expected = TRUE]
      BY DEF Tokens
    <3>4. k.who = q.who /\ k.root = q.root /\ k.chain = q.chain
      BY <3>3 DEF Tokens
    <3> QED
      BY <2>2, <3>2, <3>3, <3>4 DEF Grows, Copies, TokensChange
  <2> QED
    BY <1>8, <2>1, <2>2 DEF BindCall
<1>9. ASSUME NEW a \in RoomCalls, Authorize(a) PROVE TokensChange
  BY <1>9, <1>k DEF Authorize
<1>10. CASE Mention
  BY <1>10, <1>k DEF Mention
<1>11. CASE TimePasses
  <2> DEFINE g == [s \in DOMAIN binding |-> [binding[s] EXCEPT !.late = TRUE]]
  <2>1. binding' = g
    BY <1>11 DEF TimePasses
  <2>2. \A s \in 1 .. Len(binding) :
          /\ g[s] \in Tokens /\ g[s].who = binding[s].who /\ g[s].root = binding[s].root
          /\ g[s].chain = binding[s].chain /\ g[s].expected = binding[s].expected
    BY <1>0, TokenKept
  <2>3. g = [s \in DOMAIN binding |-> g[s]]
    OBVIOUS
  <2> HIDE DEF g
  <2>4. g \in Seq(Tokens) /\ Len(g) = Len(binding)
    BY <1>0, <2>2, <2>3, Rewritten
  <2> QED
    BY <2>1, <2>2, <2>4 DEF Rewrites, TokensChange
<1>12. CASE Clear
  <2> DEFINE g == [s \in DOMAIN binding |-> [binding[s] EXCEPT !.expected = FALSE]]
  <2>1. binding' = g
    BY <1>12 DEF Clear
  <2>2. g = [s \in DOMAIN binding |-> g[s]]
    OBVIOUS
  <2>5. \A s \in 1 .. Len(binding) : g[s] = [binding[s] EXCEPT !.expected = FALSE]
    BY <1>0
  <2>6. \A s \in 1 .. Len(binding) : \E x \in BOOLEAN :
          g[s] = [binding[s] EXCEPT !.expected = x] /\ (x => binding[s].expected)
    BY <2>5
  <2> HIDE DEF g
  <2> QED
    BY <1>w, <2>1, <2>2, <2>6
<1>13. CASE UNCHANGED permitVars
  BY <1>13, <1>k DEF permitVars
<1> QED
  BY <1>1, <1>2, <1>3, <1>4, <1>5, <1>6, <1>7, <1>8, <1>9, <1>10, <1>11, <1>12, <1>13 DEF
     PermitsNext

\* What every change of the tokens leaves of those there are.
LEMMA TokensKept ==
  ASSUME binding \in Seq(Tokens), TokensChange
  PROVE  /\ binding' \in Seq(Tokens) /\ Len(binding) \in Nat /\ Len(binding') \in Nat
         /\ Len(binding) <= Len(binding')
         /\ \A t \in 1 .. Len(binding) :
              /\ t \in 1 .. Len(binding')
              /\ binding'[t].who = binding[t].who /\ binding'[t].root = binding[t].root
              /\ binding'[t].chain = binding[t].chain
              /\ binding'[t].expected => binding[t].expected
<1>1. CASE Rewrites
  BY <1>1 DEF Rewrites
<1>2. CASE \E k \in Tokens : Grows(k)
  <2>1. PICK k \in Tokens : Grows(k)
    BY <1>2
  <2>2. binding' = Append(binding, k)
    BY <2>1 DEF Grows
  <2>3. /\ Append(binding, k) \in Seq(Tokens) /\ Len(Append(binding, k)) = Len(binding) + 1
        /\ \A i \in 1 .. Len(binding) : Append(binding, k)[i] = binding[i]
    BY Appended
  <2> QED
    BY <2>2, <2>3
<1> QED
  BY <1>1, <1>2 DEF TokensChange

\* The recording only grows.
RoomStep ==
  /\ room' \in Seq(Sounds) /\ Len(room) \in Nat /\ Len(room') \in Nat /\ Len(room) <= Len(room')
  /\ \A n \in 1 .. Len(room) : room'[n] = room[n]

\* What was heard is not rewritten.
LEMMA RoomMoves == Typed /\ [PermitsNext]_permitVars => RoomStep
<1> SUFFICES ASSUME Typed, [PermitsNext]_permitVars PROVE RoomStep
  OBVIOUS
<1>1. ASSUME NEW s \in Sounds, Packet(s) PROVE RoomStep
  <2>1. room' = Append(room, s)
    BY <1>1 DEF Packet
  <2>2. /\ Append(room, s) \in Seq(Sounds) /\ Len(Append(room, s)) = Len(room) + 1
        /\ \A i \in 1 .. Len(room) : Append(room, s)[i] = room[i]
    BY Appended DEF Typed
  <2> QED
    BY <2>1, <2>2 DEF RoomStep, Typed
<1>2. ASSUME NEW i \in Utterances, Commit(i) PROVE RoomStep
  BY <1>2 DEF Commit, RoomStep, Typed
<1>3. ASSUME NEW i \in Utterances, NEW n \in 1 .. MaxTicks, SpeechStarts(i, n) PROVE RoomStep
  BY <1>3 DEF SpeechStarts, RoomStep, Typed
<1>4. ASSUME NEW i \in Utterances, NEW n \in 1 .. MaxTicks, SpeechStops(i, n) PROVE RoomStep
  BY <1>4 DEF SpeechStops, RoomStep, Typed
<1>5. ASSUME NEW t \in Bindings, Refused(t) PROVE RoomStep
  BY <1>5 DEF Refused, RoomStep, Typed
<1>6. ASSUME NEW r \in RoomResponses, NEW t \in Bindings \cup {0}, Created(r, t) PROVE RoomStep
  BY <1>6 DEF Created, RoomStep, Typed
<1>7. ASSUME NEW r \in RoomResponses, NEW b \in BOOLEAN, Completes(r, b) PROVE RoomStep
  BY <1>7 DEF Completes, RoomStep, Typed
<1>8. ASSUME NEW a \in RoomCalls, NEW r \in RoomResponses, NEW b \in BOOLEAN, BindCall(a, r, b)
   PROVE RoomStep
  BY <1>8 DEF BindCall, RoomStep, Typed
<1>9. ASSUME NEW a \in RoomCalls, Authorize(a) PROVE RoomStep
  BY <1>9 DEF Authorize, RoomStep, Typed
<1>10. CASE Mention
  BY <1>10 DEF Mention, RoomStep, Typed
<1>11. CASE TimePasses
  BY <1>11 DEF TimePasses, RoomStep, Typed
<1>12. CASE Clear
  BY <1>12 DEF Clear, RoomStep, Typed
<1>13. CASE UNCHANGED permitVars
  BY <1>13 DEF permitVars, RoomStep, Typed
<1> QED
  BY <1>1, <1>2, <1>3, <1>4, <1>5, <1>6, <1>7, <1>8, <1>9, <1>10, <1>11, <1>12, <1>13 DEF
     PermitsNext

\* The ledger keeps its types.
LEMMA LedgerMoves == Typed /\ [PermitsNext]_permitVars => LedgerOK'
<1> SUFFICES ASSUME Typed, [PermitsNext]_permitVars PROVE LedgerOK'
  OBVIOUS
<1>1. ASSUME NEW s \in Sounds, Packet(s) PROVE LedgerOK'
  BY <1>1 DEF Packet, LedgerOK, Typed
<1>2. ASSUME NEW i \in Utterances, Commit(i) PROVE LedgerOK'
  BY <1>2 DEF Commit, LedgerOK, Typed
<1>3. ASSUME NEW i \in Utterances, NEW n \in 1 .. MaxTicks, SpeechStarts(i, n) PROVE LedgerOK'
  BY <1>3 DEF SpeechStarts, LedgerOK, Typed
<1>4. ASSUME NEW i \in Utterances, NEW n \in 1 .. MaxTicks, SpeechStops(i, n) PROVE LedgerOK'
  BY <1>4 DEF SpeechStops, LedgerOK, Typed
<1>5. ASSUME NEW t \in Bindings, Refused(t) PROVE LedgerOK'
  BY <1>5 DEF Refused, LedgerOK, Typed
<1>6. ASSUME NEW r \in RoomResponses, NEW t \in Bindings \cup {0}, Created(r, t) PROVE LedgerOK'
  <2>1. CASE UNCHANGED ledger
    BY <2>1 DEF LedgerOK, Typed
  <2>2. CASE ledger' = [ledger EXCEPT !.poisoned = TRUE]
    <3>1. ledger = [poisoned |-> ledger.poisoned, base |-> ledger.base,
                    forgotten |-> ledger.forgotten]
      BY DEF LedgerOK, Typed
    <3>2. ledger' = [poisoned |-> TRUE, base |-> ledger.base, forgotten |-> ledger.forgotten]
      BY <2>2, <3>1
    <3> QED
      BY <3>2 DEF LedgerOK, Typed
  <2> QED
    BY <1>6, <2>1, <2>2 DEF Created
<1>7. ASSUME NEW r \in RoomResponses, NEW b \in BOOLEAN, Completes(r, b) PROVE LedgerOK'
  BY <1>7 DEF Completes, LedgerOK, Typed
<1>8. ASSUME NEW a \in RoomCalls, NEW r \in RoomResponses, NEW b \in BOOLEAN, BindCall(a, r, b)
   PROVE LedgerOK'
  BY <1>8 DEF BindCall, LedgerOK, Typed
<1>9. ASSUME NEW a \in RoomCalls, Authorize(a) PROVE LedgerOK'
  BY <1>9 DEF Authorize, LedgerOK, Typed
<1>10. CASE Mention
  BY <1>10 DEF Mention, LedgerOK, Typed
<1>11. CASE TimePasses
  BY <1>11 DEF TimePasses, LedgerOK, Typed
<1>12. CASE Clear
  <2>1. Len(room) \in Nat
    BY DEF Typed
  <2>2. ledger' = [poisoned |-> FALSE, base |-> Len(room), forgotten |-> Seens + ledger.forgotten]
    BY <1>12 DEF Clear
  <2> QED
    BY <2>1, <2>2 DEF LedgerOK
<1>13. CASE UNCHANGED permitVars
  BY <1>13 DEF permitVars, LedgerOK, Typed
<1> QED
  BY <1>1, <1>2, <1>3, <1>4, <1>5, <1>6, <1>7, <1>8, <1>9, <1>10, <1>11, <1>12, <1>13 DEF
     PermitsNext

\* Only tokens there are were asked with.
LEMMA AskedTyped ==
  Typed /\ TokenInv /\ [PermitsNext]_permitVars => asked' \subseteq 1 .. Len(binding')
<1> SUFFICES ASSUME Typed /\ TokenInv, [PermitsNext]_permitVars
             PROVE  asked' \subseteq 1 .. Len(binding')
  OBVIOUS
<1>0. /\ binding \in Seq(Tokens) /\ Len(binding) \in Nat /\ Len(binding') \in Nat
      /\ Len(binding) <= Len(binding') /\ asked \subseteq 1 .. Len(binding)
  BY TokensMove, TokensKept DEF Typed
<1>1. ASSUME NEW s \in Sounds, Packet(s) PROVE asked' \subseteq 1 .. Len(binding')
  BY <1>1, <1>0 DEF Packet
<1>2. ASSUME NEW i \in Utterances, Commit(i) PROVE asked' \subseteq 1 .. Len(binding')
  <2>1. \E k : binding' = Append(binding, k)
    BY <1>2 DEF Commit, NewBinding
  <2>2. Len(binding') = Len(binding) + 1
    BY <1>0, <2>1
  <2> QED
    BY <1>2, <1>0, <2>2 DEF Commit
<1>3. ASSUME NEW i \in Utterances, NEW n \in 1 .. MaxTicks, SpeechStarts(i, n)
      PROVE  asked' \subseteq 1 .. Len(binding')
  BY <1>3, <1>0 DEF SpeechStarts
<1>4. ASSUME NEW i \in Utterances, NEW n \in 1 .. MaxTicks, SpeechStops(i, n)
      PROVE  asked' \subseteq 1 .. Len(binding')
  BY <1>4, <1>0 DEF SpeechStops
<1>5. ASSUME NEW t \in Bindings, Refused(t) PROVE asked' \subseteq 1 .. Len(binding')
  BY <1>5, <1>0 DEF Refused
<1>6. ASSUME NEW r \in RoomResponses, NEW t \in Bindings \cup {0}, Created(r, t)
      PROVE  asked' \subseteq 1 .. Len(binding')
  BY <1>6, <1>0 DEF Created
<1>7. ASSUME NEW r \in RoomResponses, NEW b \in BOOLEAN, Completes(r, b)
      PROVE  asked' \subseteq 1 .. Len(binding')
  <2>1. authority[r].next \in 0 .. Len(binding)
    BY DEF TokenInv
  <2> QED
    BY <1>7, <1>0, <2>1 DEF Completes
<1>8. ASSUME NEW a \in RoomCalls, NEW r \in RoomResponses, NEW b \in BOOLEAN, BindCall(a, r, b)
   PROVE asked' \subseteq 1 .. Len(binding')
  BY <1>8, <1>0 DEF BindCall
<1>9. ASSUME NEW a \in RoomCalls, Authorize(a) PROVE asked' \subseteq 1 .. Len(binding')
  BY <1>9, <1>0 DEF Authorize
<1>10. CASE Mention
  BY <1>10, <1>0 DEF Mention
<1>11. CASE TimePasses
  BY <1>11, <1>0 DEF TimePasses
<1>12. CASE Clear
  BY <1>12 DEF Clear
<1>13. CASE UNCHANGED permitVars
  BY <1>13, <1>0 DEF permitVars
<1> QED
  BY <1>1, <1>2, <1>3, <1>4, <1>5, <1>6, <1>7, <1>8, <1>9, <1>10, <1>11, <1>12, <1>13 DEF
     PermitsNext

-----------------------------------------------------------------------------
(* Who spoke.                                                              *)

\* An interval that has a speaker is still on record as a whole, and nobody else is in it.
LEMMA SpeakerIsAlone ==
  ASSUME room \in Seq(Sounds), NEW from \in Nat, NEW to \in Nat,
         1 <= from, from <= to, to <= Len(room)
  PROVE  /\ SpeakerOf(from, to) \in Speakers \cup {NoOne}
         /\ SpeakerOf(from, to) # NoOne => Alone(room, from, to, SpeakerOf(from, to))
<1> DEFINE heard == {room[n] : n \in from .. to}
           users == Recorded(from, to) \cap Speakers
           sole == ~Missing(from) /\ "unclear" \notin Recorded(from, to) /\ Cardinality(users) = 1
<1>1. CASE ~sole
  BY <1>1 DEF SpeakerOf
<1>2. CASE sole
  <2>0. ~Missing(from)
    BY <1>2
  <2>1. from > Len(room) - KeptTicks /\ Len(room) \in Nat /\ KeptTicks \in Nat
    <3>1. KeptTicks \in Nat
      BY PermitsAssumption
    <3>2. Len(room) \in Nat
      OBVIOUS
    <3> QED
      BY <2>0, <3>1, <3>2 DEF Missing
  <2>2. {m \in from .. to : m > Len(room) - KeptTicks} = from .. to
    BY <2>1
  <2>3. Recorded(from, to) = heard
    BY <2>2 DEF Recorded
  <2>4. \A n \in from .. to : room[n] \in Sounds
    BY <2>1
  <2>5. \A n \in from .. to : room[n] # "unclear"
    BY <1>2, <2>3
  <2>6. users = heard
    BY <2>3, <2>4, <2>5 DEF Sounds
  <2>7. IsFiniteSet(heard)
    <3> DEFINE f == [n \in from .. to |-> room[n]]
    <3>1. f \in Surjection(from .. to, heard)
      BY DEF Surjection
    <3>2. IsFiniteSet(from .. to)
      BY FS_Interval
    <3> QED
      BY <3>1, <3>2, FS_Surjection
  <2>8. PICK c : heard = {c}
    <3>1. Cardinality(heard) = 1
      BY <1>2, <2>6
    <3> HIDE DEF heard
    <3> QED
      BY <2>7, <3>1, FS_Singleton
  <2>9. SpeakerOf(from, to) = c
    <3>1. SpeakerOf(from, to) = CHOOSE x \in users : TRUE
      BY <1>2 DEF SpeakerOf
    <3>2. users = {c}
      BY <2>6, <2>8
    <3> QED
      BY <3>1, <3>2
  <2>10. c \in Speakers
    BY <2>6, <2>8
  <2>11. \A n \in from .. to : room[n] = c
    BY <2>8
  <2> QED
    BY <2>9, <2>10, <2>11 DEF Alone
<1> QED
  BY <1>1, <1>2

\* How an utterance changes: one that is committed keeps its interval, one that starts has a
\* beginning, and one that stops with a speaker was that speaker's alone.
Holds(w) ==
  /\ w.phase = "started" => 1 <= w.from
  /\ w.phase = "stopped" /\ w.who # NoOne => Alone(room, w.from, w.to, w.who)
Becomes(i, w) == utterance' = [utterance EXCEPT ![i] = w]
UtteranceStep ==
  /\ utterance' \in [Utterances -> Utterings]
  /\ \A j \in Utterances :
       /\ Holds(utterance'[j])
       /\ utterance[j].phase = "committed" =>
            /\ utterance'[j].phase = "committed" /\ utterance'[j].from = utterance[j].from
            /\ utterance'[j].to = utterance[j].to

\* What the actions make of an utterance.
LEMMA TaintedKept ==
  ASSUME NEW u \in Utterings
  PROVE  /\ Tainted(u) \in Utterings /\ Tainted(u).phase = u.phase /\ Tainted(u).from = u.from
         /\ Tainted(u).to = u.to /\ Tainted(u).who = NoOne
         /\ \A q \in {"none", "started", "stopped", "committed"} :
              LET v == [u EXCEPT !.phase = q] IN
              /\ v \in Utterings /\ v.phase = q /\ v.from = u.from /\ v.to = u.to
              /\ v.who = u.who /\ v.tainted = u.tainted
BY DEF Tainted, Utterings

\* How the utterances change in a step.
LEMMA UtterancesMove == Typed /\ VoiceInv /\ [PermitsNext]_permitVars => UtteranceStep
<1> SUFFICES ASSUME Typed /\ VoiceInv, [PermitsNext]_permitVars PROVE UtteranceStep
  OBVIOUS
<1>0. /\ utterance \in [Utterances -> Utterings] /\ room \in Seq(Sounds) /\ Len(room) \in Nat
      /\ ledger.base \in Nat
  BY DEF Typed, LedgerOK
<1>h. \A j \in Utterances : Holds(utterance[j])
  BY DEF VoiceInv, Holds
<1>k. UNCHANGED utterance => UtteranceStep
  BY <1>0, <1>h DEF UtteranceStep
<1>e. ASSUME NEW j \in Utterances, NEW w \in Utterings,
             Becomes(j, w), Holds(w),
             utterance[j].phase = "committed" =>
               w.phase = "committed" /\ w.from = utterance[j].from /\ w.to = utterance[j].to
      PROVE  UtteranceStep
  BY <1>0, <1>h, <1>e DEF UtteranceStep, Becomes
<1>1. ASSUME NEW s \in Sounds, Packet(s) PROVE UtteranceStep
  BY <1>1, <1>k DEF Packet
<1>2. ASSUME NEW i \in Utterances, Commit(i) PROVE UtteranceStep
  <2>1. PICK u \in Utterings : u = utterance[i]
    BY <1>0
  <2>2. PICK v \in Utterings : v = IF u.phase = "stopped" /\ ~u.tainted THEN u ELSE Tainted(u)
    BY TaintedKept
  <2>3. PICK w \in Utterings : w = [v EXCEPT !.phase = "committed"]
    BY TaintedKept
  <2>4. Becomes(i, w)
    BY <1>2, <2>1, <2>2, <2>3 DEF Commit, Becomes
  <2>5. w.phase = "committed"
    BY <2>3, TaintedKept
  <2>6. utterance[i].phase # "committed"
    BY <1>2 DEF Commit
  <2>7. Holds(w)
    BY <2>5 DEF Holds
  <2> QED
    BY <1>2, <1>e, <2>4, <2>6, <2>7, Zenon
<1>3. ASSUME NEW i \in Utterances, NEW n \in 1 .. MaxTicks, SpeechStarts(i, n) PROVE UtteranceStep
  <2>1. PICK u \in Utterings : u = utterance[i]
    BY <1>0
  <2>2. CASE u.phase = "none"
    <3>1. PICK w \in Utterings : w = [u EXCEPT !.phase = "started", !.from = n]
      <4>1. n \in Nat
        BY <1>3
      <4> QED
        BY <4>1 DEF Utterings
    <3>2. Becomes(i, w)
      BY <1>3, <1>0, <2>1, <2>2, <3>1 DEF SpeechStarts, Becomes
    <3>3. w.phase = "started" /\ w.from = n
      BY <3>1 DEF Utterings
    <3>4. 1 <= n
      BY <1>3, <1>0 DEF SpeechStarts
    <3>5. Holds(w)
      BY <3>3, <3>4 DEF Holds
    <3> QED
      BY <1>3, <1>e, <2>1, <2>2, <3>2, <3>5, Zenon
  <2>3. CASE u.phase # "none"
    <3>1. PICK w \in Utterings : w = Tainted(u)
      BY TaintedKept
    <3>2. Becomes(i, w)
      BY <1>3, <1>0, <2>1, <2>3, <3>1 DEF SpeechStarts, Becomes
    <3>3. w.phase = u.phase /\ w.from = u.from /\ w.to = u.to /\ w.who = NoOne
      BY <3>1, TaintedKept
    <3>4. Holds(w)
      BY <1>h, <2>1, <3>3 DEF Holds
    <3> QED
      BY <1>3, <1>e, <2>1, <3>2, <3>3, <3>4, Zenon
  <2> QED
    BY <2>2, <2>3
<1>4. ASSUME NEW i \in Utterances, NEW n \in 1 .. MaxTicks, SpeechStops(i, n) PROVE UtteranceStep
  <2>1. PICK u \in Utterings : u = utterance[i]
    BY <1>0
  <2>2. n \in Nat /\ 1 <= n /\ n <= Len(room)
    BY <1>4, <1>0 DEF SpeechStops
  <2>3. CASE u.phase = "started" /\ ~u.tainted
    <3>1. u.from \in Nat /\ 1 <= u.from /\ u.from <= n
      BY <1>4, <1>h, <2>1, <2>3 DEF SpeechStops, Holds, Utterings
    <3>2. /\ SpeakerOf(u.from, n) \in Speakers \cup {NoOne}
          /\ SpeakerOf(u.from, n) # NoOne => Alone(room, u.from, n, SpeakerOf(u.from, n))
      BY <1>0, <2>2, <3>1, SpeakerIsAlone
    <3>3. PICK who \in Speakers \cup {NoOne} : who = SpeakerOf(u.from, n)
      BY <3>2
    <3>4. PICK w \in Utterings : w = [u EXCEPT !.phase = "stopped", !.to = n, !.who = who]
      BY <2>2 DEF Utterings
    <3>5. Becomes(i, w)
      BY <1>4, <1>0, <2>1, <2>3, <3>3, <3>4 DEF SpeechStops, Becomes
    <3>6. w.phase = "stopped" /\ w.from = u.from /\ w.to = n /\ w.who = who
      BY <3>4 DEF Utterings
    <3>7. Holds(w)
      BY <3>2, <3>3, <3>6 DEF Holds
    <3> QED
      BY <1>4, <1>e, <2>1, <2>3, <3>5, <3>7, Zenon
  <2>4. CASE ~(u.phase = "started" /\ ~u.tainted)
    <3>1. PICK q \in {"none", "started", "stopped", "committed"} :
            q = IF u.phase = "none" THEN "stopped" ELSE u.phase
      BY DEF Utterings
    <3>2. PICK v \in Utterings : v = [u EXCEPT !.phase = q]
      BY TaintedKept
    <3>3. PICK w \in Utterings : w = Tainted(v)
      BY TaintedKept
    <3>4. Becomes(i, w)
      <4>1. v = [u EXCEPT !.phase = IF @ = "none" THEN "stopped" ELSE @]
        BY <3>1, <3>2
      <4>2. Becomes(i, Tainted([u EXCEPT !.phase = IF @ = "none" THEN "stopped" ELSE @]))
        BY <1>4, <2>1, <2>4 DEF SpeechStops, Becomes
      <4> QED
        BY <3>3, <4>1, <4>2, Zenon
    <3>5. v.phase = q /\ v.from = u.from /\ v.to = u.to
      BY <3>2, TaintedKept
    <3>6. w.phase = q /\ w.from = u.from /\ w.to = u.to /\ w.who = NoOne
      BY <3>3, <3>5, TaintedKept
    <3>7. Holds(w)
      BY <1>h, <2>1, <3>1, <3>6 DEF Holds
    <3> QED
      BY <1>4, <1>e, <2>1, <3>1, <3>4, <3>6, <3>7, Zenon
  <2> QED
    BY <2>3, <2>4
<1>5. ASSUME NEW t \in Bindings, Refused(t) PROVE UtteranceStep
  BY <1>5, <1>k DEF Refused
<1>6. ASSUME NEW r \in RoomResponses, NEW t \in Bindings \cup {0}, Created(r, t) PROVE UtteranceStep
  BY <1>6, <1>k DEF Created
<1>7. ASSUME NEW r \in RoomResponses, NEW b \in BOOLEAN, Completes(r, b) PROVE UtteranceStep
  BY <1>7, <1>k DEF Completes
<1>8. ASSUME NEW a \in RoomCalls, NEW r \in RoomResponses, NEW b \in BOOLEAN, BindCall(a, r, b)
   PROVE UtteranceStep
  BY <1>8, <1>k DEF BindCall
<1>9. ASSUME NEW a \in RoomCalls, Authorize(a) PROVE UtteranceStep
  BY <1>9, <1>k DEF Authorize
<1>10. CASE Mention
  BY <1>10, <1>k DEF Mention
<1>11. CASE TimePasses
  BY <1>11, <1>k DEF TimePasses
<1>12. CASE Clear
  <2>1. ASSUME NEW j \in Utterances
        PROVE  /\ utterance'[j] \in Utterings /\ utterance'[j].phase = utterance[j].phase
               /\ utterance'[j].from = utterance[j].from /\ utterance'[j].to = utterance[j].to
               /\ utterance'[j].who = utterance[j].who
    <3>1. PICK u \in Utterings : u = utterance[j]
      BY <1>0
    <3>2. utterance'[j] = [u EXCEPT !.tainted = TRUE]
      BY <1>12, <3>1 DEF Clear
    <3> QED
      BY <3>1, <3>2 DEF Utterings
  <2>2. utterance' = [j \in Utterances |-> utterance'[j]]
    BY <1>12 DEF Clear
  <2>3. utterance' \in [Utterances -> Utterings]
    BY <2>1, <2>2
  <2> QED
    BY <1>h, <2>1, <2>3 DEF UtteranceStep, Holds
<1>13. CASE UNCHANGED permitVars
  BY <1>13, <1>k DEF permitVars
<1> QED
  BY <1>1, <1>2, <1>3, <1>4, <1>5, <1>6, <1>7, <1>8, <1>9, <1>10, <1>11, <1>12, <1>13 DEF
     PermitsNext

-----------------------------------------------------------------------------
(* Who may command.                                                        *)

\* What the actions make of the authority of a response.
LEMMA AuthorityKept ==
  ASSUME NEW h \in Authorities
  PROVE  /\ \A x \in BOOLEAN : LET g == [h EXCEPT !.tainted = x, !.live = FALSE] IN
              g \in Authorities /\ g.of = h.of /\ g.next = h.next /\ g.seen = h.seen /\ ~g.live
         /\ LET g == [h EXCEPT !.live = FALSE] IN
              g \in Authorities /\ g.of = h.of /\ g.next = h.next /\ g.seen = h.seen /\ ~g.live
         /\ \A n \in Nat : LET g == [h EXCEPT !.next = n] IN
              /\ g \in Authorities /\ g.of = h.of /\ g.next = n /\ g.seen = h.seen
              /\ g.live = h.live
BY DEF Authorities

\* How the authority of the responses changes: what they hold stays and they may end; or one
\* that is new takes a token that was expected, or none; or one is continued by a new token
\* of its chain.
Falls ==
  \A r \in RoomResponses :
    /\ authority'[r].of = authority[r].of /\ authority'[r].next = authority[r].next
    /\ authority'[r].seen = authority[r].seen
    /\ authority'[r].live => authority[r].live
OthersKeep(r) == \A s \in RoomResponses : s # r => authority'[s] = authority[s]
Binds(r) ==
  /\ ~authority[r].seen /\ authority'[r].seen /\ authority'[r].next = 0
  /\ \/ authority'[r].of = 0 /\ ~authority'[r].live
     \/ \E t \in 1 .. Len(binding) :
          authority'[r].of = t /\ binding[t].expected /\ ~binding'[t].expected
Continues(r) ==
  /\ authority[r].of # 0 /\ authority[r].next = 0
  /\ authority'[r].of = authority[r].of /\ authority'[r].seen = authority[r].seen
  /\ authority'[r].live = authority[r].live /\ authority'[r].next = Len(binding) + 1
  /\ \E k \in Tokens : /\ binding' = Append(binding, k)
                       /\ k.chain = binding[authority[r].of].chain
AuthorityStep ==
  /\ authority' \in [RoomResponses -> Authorities]
  /\ Falls \/ \E r \in RoomResponses : OthersKeep(r) /\ (Binds(r) \/ Continues(r))

\* Whom a new connection, and the last id, find is tainted.
LEMMA AllFall ==
  ASSUME authority \in [RoomResponses -> Authorities], authority' = AllTainted
  PROVE  AuthorityStep
<1>1. ASSUME NEW r \in RoomResponses
      PROVE  /\ authority'[r] \in Authorities /\ authority'[r].of = authority[r].of
             /\ authority'[r].next = authority[r].next /\ authority'[r].seen = authority[r].seen
             /\ ~authority'[r].live
  <2>1. PICK h \in Authorities : h = authority[r]
    OBVIOUS
  <2>2. PICK x \in BOOLEAN : x <=> (h.tainted \/ h.of # 0)
    OBVIOUS
  <2>3. x = (h.tainted \/ h.of # 0)
    BY <2>2
  <2>4. PICK g \in Authorities : g = [h EXCEPT !.tainted = x, !.live = FALSE]
    BY AuthorityKept
  <2>5. authority'[r] = g
    BY <2>1, <2>3, <2>4 DEF AllTainted
  <2>6. g.of = h.of /\ g.next = h.next /\ g.seen = h.seen /\ ~g.live
    BY <2>4, AuthorityKept
  <2> QED
    BY <2>1, <2>5, <2>6
<1>2. authority' = [r \in RoomResponses |-> authority'[r]]
  BY DEF AllTainted
<1>3. authority' \in [RoomResponses -> Authorities]
  BY <1>1, <1>2
<1> QED
  BY <1>1, <1>3 DEF AuthorityStep, Falls

\* The response that a created event is taken for was expected.
LEMMA AnsweredIsExpected ==
  ASSUME NEW t
  PROVE  Answered(t) \subseteq Expected
BY DEF Answered

\* How the authority of the responses changes in a step.
LEMMA AuthorityMoves == Typed /\ TokenInv /\ [PermitsNext]_permitVars => AuthorityStep
<1> SUFFICES ASSUME Typed /\ TokenInv, [PermitsNext]_permitVars PROVE AuthorityStep
  OBVIOUS
<1>0. /\ authority \in [RoomResponses -> Authorities] /\ binding \in Seq(Tokens)
      /\ Len(binding) \in Nat /\ DOMAIN binding = 1 .. Len(binding)
  BY DEF Typed
<1>k. UNCHANGED authority => AuthorityStep
  BY <1>0 DEF AuthorityStep, Falls
<1>f. ASSUME NEW r \in RoomResponses, NEW h \in Authorities,
             authority' = [authority EXCEPT ![r] = h],
             h.of = authority[r].of, h.next = authority[r].next, h.seen = authority[r].seen, ~h.live
      PROVE  AuthorityStep
  BY <1>0, <1>f DEF AuthorityStep, Falls
<1>1. ASSUME NEW s \in Sounds, Packet(s) PROVE AuthorityStep
  BY <1>1, <1>k DEF Packet
<1>2. ASSUME NEW i \in Utterances, Commit(i) PROVE AuthorityStep
  BY <1>2, <1>k DEF Commit
<1>3. ASSUME NEW i \in Utterances, NEW n \in 1 .. MaxTicks, SpeechStarts(i, n) PROVE AuthorityStep
  BY <1>3, <1>k DEF SpeechStarts
<1>4. ASSUME NEW i \in Utterances, NEW n \in 1 .. MaxTicks, SpeechStops(i, n) PROVE AuthorityStep
  BY <1>4, <1>k DEF SpeechStops
<1>5. ASSUME NEW t \in Bindings, Refused(t) PROVE AuthorityStep
  BY <1>5, <1>k DEF Refused
<1>6. ASSUME NEW r \in RoomResponses, NEW t \in Bindings \cup {0}, Created(r, t) PROVE AuthorityStep
  <2>1. CASE authority' = [authority EXCEPT ![r].tainted = authority[r].of # 0, ![r].live = FALSE]
    <3>1. PICK h \in Authorities : h = authority[r]
      BY <1>0
    <3>2. PICK x \in BOOLEAN : x <=> h.of # 0
      OBVIOUS
    <3>3. x = (h.of # 0)
      BY <3>2
    <3>4. PICK g \in Authorities : g = [h EXCEPT !.tainted = x, !.live = FALSE]
      BY AuthorityKept
    <3>5. authority' = [authority EXCEPT ![r] = g]
      BY <1>0, <2>1, <3>1, <3>3, <3>4
    <3>6. g.of = h.of /\ g.next = h.next /\ g.seen = h.seen /\ ~g.live
      BY <3>4, AuthorityKept
    <3> QED
      BY <1>f, <3>1, <3>5, <3>6
  <2>2. CASE authority' = AllTainted
    BY <1>0, <2>2, AllFall
  <2> DEFINE by == Answered(t)
             unasked == [NoAuthority EXCEPT !.seen = TRUE]
             given == [NoAuthority EXCEPT !.seen = TRUE, !.live = TRUE, !.of = CHOOSE s \in by :
                TRUE]
             used == [s \in DOMAIN binding |-> [binding[s] EXCEPT !.expected = @ /\ s \notin by]]
  <2>3. CASE /\ ~Seen(r) /\ binding' = used
             /\ \/ authority' = [authority EXCEPT ![r] = unasked]
                \/ by # {} /\ authority' = [authority EXCEPT ![r] = given]
    <3>1. CASE authority' = [authority EXCEPT ![r] = unasked]
      <4>1. PICK h \in Authorities : h = unasked
        BY DEF NoAuthority, Authorities
      <4>2. h.seen /\ ~h.live /\ h.of = 0 /\ h.next = 0
        BY <4>1 DEF NoAuthority
      <4>3. /\ authority' \in [RoomResponses -> Authorities] /\ OthersKeep(r)
            /\ authority'[r] = h
        BY <1>0, <3>1, <4>1 DEF OthersKeep
      <4>4. Binds(r)
        BY <2>3, <4>2, <4>3 DEF Binds, Seen
      <4> QED
        BY <4>3, <4>4 DEF AuthorityStep
    <3>2. CASE by # {} /\ authority' = [authority EXCEPT ![r] = given]
      <4>1. PICK d : d = (CHOOSE s \in by : TRUE) /\ d \in by
        BY <3>2
      <4>2. d \in 1 .. Len(binding) /\ binding[d].expected
        BY <1>0, <4>1, AnsweredIsExpected DEF Expected
      <4>3. ~binding'[d].expected
        <5>1. PICK q \in Tokens : q = binding[d]
          BY <1>0, <4>2
        <5>2. binding'[d] = [q EXCEPT !.expected = FALSE]
          <6>1. binding'[d] = [binding[d] EXCEPT !.expected = binding[d].expected /\ d \notin by]
            BY <1>0, <2>3, <4>2
          <6>2. (binding[d].expected /\ d \notin by) = FALSE
            BY <4>1
          <6> QED
            BY <5>1, <6>1, <6>2
        <5> QED
          BY <5>2, TokenKept
      <4>4. d \in Nat
        BY <1>0, <4>2
      <4>5. PICK h \in Authorities : h = given
        BY <4>1, <4>4 DEF NoAuthority, Authorities
      <4>6. h.seen /\ h.of = d /\ h.next = 0
        BY <4>1, <4>5 DEF NoAuthority
      <4>7. authority' = [authority EXCEPT ![r] = h]
        BY <3>2, <4>5
      <4>8. /\ authority' \in [RoomResponses -> Authorities] /\ OthersKeep(r)
            /\ authority'[r] = h
        BY <1>0, <4>7 DEF OthersKeep
      <4>9. Binds(r)
        BY <2>3, <4>2, <4>3, <4>6, <4>8 DEF Binds, Seen
      <4> QED
        BY <4>8, <4>9 DEF AuthorityStep
    <3> QED
      BY <2>3, <3>1, <3>2
  <2> QED
    BY <1>6, <2>1, <2>2, <2>3 DEF Created
<1>7. ASSUME NEW r \in RoomResponses, NEW b \in BOOLEAN, Completes(r, b) PROVE AuthorityStep
  <2>1. PICK h \in Authorities : h = authority[r]
    BY <1>0
  <2>2. PICK g \in Authorities : g = [h EXCEPT !.live = FALSE]
    BY AuthorityKept
  <2>3. authority' = [authority EXCEPT ![r] = g]
    BY <1>7, <2>1, <2>2 DEF Completes
  <2>4. g.of = h.of /\ g.next = h.next /\ g.seen = h.seen /\ ~g.live
    BY <2>2, AuthorityKept
  <2> QED
    BY <1>f, <2>1, <2>3, <2>4
<1>8. ASSUME NEW a \in RoomCalls, NEW r \in RoomResponses, NEW b \in BOOLEAN, BindCall(a, r, b)
   PROVE AuthorityStep
  <2>1. CASE UNCHANGED authority
    BY <1>k, <2>1
  <2>2. CASE /\ Trusts(r) /\ authority[r].next = 0
             /\ binding' = Append(binding, [binding[authority[r].of] EXCEPT !.expected = TRUE])
             /\ authority' = [authority EXCEPT ![r].next = Len(binding) + 1]
    <3>1. PICK h \in Authorities : h = authority[r]
      BY <1>0
    <3>2. h.of # 0 /\ h.of \in 1 .. Len(binding)
      BY <2>2, <3>1 DEF TokenInv, Trusts
    <3>3. PICK q \in Tokens : q = binding[h.of]
      BY <1>0, <3>2
    <3>4. PICK k \in Tokens : k = [q EXCEPT !.expected = TRUE]
      BY TokenKept
    <3>5. k.chain = q.chain
      BY <3>4, TokenKept
    <3>6. binding' = Append(binding, k)
      BY <2>2, <3>1, <3>3, <3>4
    <3>7. PICK n \in Nat : n = Len(binding) + 1
      BY <1>0
    <3>8. PICK g \in Authorities : g = [h EXCEPT !.next = n]
      BY AuthorityKept
    <3>9. authority' = [authority EXCEPT ![r] = g]
      BY <2>2, <3>1, <3>7, <3>8
    <3>10. g.of = h.of /\ g.next = n /\ g.seen = h.seen /\ g.live = h.live
      BY <3>8, AuthorityKept
    <3>11. /\ authority' \in [RoomResponses -> Authorities] /\ OthersKeep(r)
           /\ authority'[r] = g
      BY <1>0, <3>9 DEF OthersKeep
    <3>12. Continues(r)
      BY <2>2, <3>1, <3>2, <3>3, <3>5, <3>6, <3>7, <3>10, <3>11 DEF Continues
    <3> QED
      BY <3>11, <3>12 DEF AuthorityStep
  <2> QED
    BY <1>8, <2>1, <2>2 DEF BindCall
<1>9. ASSUME NEW a \in RoomCalls, Authorize(a) PROVE AuthorityStep
  BY <1>9, <1>k DEF Authorize
<1>10. CASE Mention
  BY <1>10, <1>k DEF Mention
<1>11. CASE TimePasses
  BY <1>11, <1>k DEF TimePasses
<1>12. CASE Clear
  <2>1. authority' = AllTainted
    BY <1>12 DEF Clear
  <2> QED
    BY <1>0, <2>1, AllFall
<1>13. CASE UNCHANGED permitVars
  BY <1>13, <1>k DEF permitVars
<1> QED
  BY <1>1, <1>2, <1>3, <1>4, <1>5, <1>6, <1>7, <1>8, <1>9, <1>10, <1>11, <1>12, <1>13 DEF
     PermitsNext

\* How the permits change: a call that has none gets one from a response that may give it, or
\* none; and one that was given is used up, by a run if its token is an operator's.
Given(a) ==
  \E r \in RoomResponses :
    /\ permit[a].ran = 0 /\ permit'[a].ran = 0 /\ permit'[a].of = r
    /\ \/ permit'[a].state = "refused"
       \/ permit'[a].state = "minted" /\ Trusts(r)
Executes(a) ==
  LET p == permit[a]
      r == p.of IN
  /\ ~ledger.poisoned /\ ~ChainTainted(binding[authority[r].of].chain)
  /\ binding[authority[r].of].who \in Operators
Used(a) ==
  /\ permit[a].state = "minted" /\ permit'[a].state = "consumed"
  /\ permit'[a].of = permit[a].of
  /\ \/ permit'[a].ran = permit[a].ran
     \/ permit'[a].ran = permit[a].ran + 1 /\ Executes(a)
PermitStep ==
  /\ permit' \in [RoomCalls -> Permits]
  /\ \A a \in RoomCalls : permit'[a] = permit[a] \/ Given(a) \/ Used(a)

\* How the permits change in a step.
LEMMA PermitsMove == Typed /\ [PermitsNext]_permitVars => PermitStep
<1> SUFFICES ASSUME Typed, [PermitsNext]_permitVars PROVE PermitStep
  OBVIOUS
<1>0. permit \in [RoomCalls -> Permits]
  BY DEF Typed
<1>k. UNCHANGED permit => PermitStep
  BY <1>0 DEF PermitStep
<1>1. ASSUME NEW s \in Sounds, Packet(s) PROVE PermitStep
  BY <1>1, <1>k DEF Packet
<1>2. ASSUME NEW i \in Utterances, Commit(i) PROVE PermitStep
  BY <1>2, <1>k DEF Commit
<1>3. ASSUME NEW i \in Utterances, NEW n \in 1 .. MaxTicks, SpeechStarts(i, n) PROVE PermitStep
  BY <1>3, <1>k DEF SpeechStarts
<1>4. ASSUME NEW i \in Utterances, NEW n \in 1 .. MaxTicks, SpeechStops(i, n) PROVE PermitStep
  BY <1>4, <1>k DEF SpeechStops
<1>5. ASSUME NEW t \in Bindings, Refused(t) PROVE PermitStep
  BY <1>5, <1>k DEF Refused
<1>6. ASSUME NEW r \in RoomResponses, NEW t \in Bindings \cup {0}, Created(r, t) PROVE PermitStep
  BY <1>6, <1>k DEF Created
<1>7. ASSUME NEW r \in RoomResponses, NEW b \in BOOLEAN, Completes(r, b) PROVE PermitStep
  BY <1>7, <1>k DEF Completes
<1>8. ASSUME NEW a \in RoomCalls, NEW r \in RoomResponses, NEW b \in BOOLEAN, BindCall(a, r, b)
   PROVE PermitStep
  <2>1. CASE permit[a].state # "none"
    <3>1. permit' = permit
      BY <1>8, <1>0, <2>1 DEF BindCall
    <3> QED
      BY <1>k, <3>1
  <2>2. CASE permit[a].state = "none"
    <3> DEFINE minted == /\ permit[a].state = "none" /\ Trusts(r)
                         /\ binding[authority[r].of].who # NoOne /\ (b => mentioned)
    <3>1. PICK q \in {"minted", "refused"} : q = IF minted THEN "minted" ELSE "refused"
      OBVIOUS
    <3>z. PICK z \in 0 .. 2 : z = 0
      OBVIOUS
    <3>y. PICK y \in RoomResponses \cup {"none"} : y = r
      BY <1>8
    <3>x. q \in {"none", "minted", "refused", "consumed"}
      OBVIOUS
    <3>2. PICK p \in Permits : p = [state |-> q, of |-> r, ran |-> 0]
      BY <3>x, <3>y, <3>z DEF Permits
    <3>3. permit' = [permit EXCEPT ![a] = p]
      BY <1>8, <2>2, <3>1, <3>2 DEF BindCall
    <3>4. permit'[a] = p /\ \A c \in RoomCalls : c # a => permit'[c] = permit[c]
      BY <1>0, <3>3
    <3>5. permit' \in [RoomCalls -> Permits]
      BY <1>0, <3>3
    <3>6. permit[a].ran = 0
      BY <1>8 DEF BindCall
    <3>7. Given(a)
      BY <3>1, <3>2, <3>4, <3>6 DEF Given
    <3> QED
      BY <3>4, <3>5, <3>7 DEF PermitStep
  <2> QED
    BY <2>1, <2>2
<1>9. ASSUME NEW a \in RoomCalls, Authorize(a) PROVE PermitStep
  <2>1. PICK p \in Permits : p = permit[a]
    BY <1>0
  <2>2. p.state = "minted" /\ p.ran \in 0 .. 2 /\ p.ran < 2
    BY <1>9, <2>1 DEF Authorize, Permits
  <2>3. PICK m \in 0 .. 2 : m = p.ran + 1
    BY <2>2
  <2>4. PICK g \in Permits : g = [p EXCEPT !.ran = m, !.state = "consumed"]
    BY DEF Permits
  <2>5. PICK h \in Permits : h = [p EXCEPT !.state = "consumed"]
    BY DEF Permits
  <2>6. g.state = "consumed" /\ g.of = p.of /\ g.ran = m
    BY <2>4 DEF Permits
  <2>7. h.state = "consumed" /\ h.of = p.of /\ h.ran = p.ran
    BY <2>5 DEF Permits
  <2>8. g = Consumed([p EXCEPT !.ran = @ + 1]) /\ h = Consumed(p)
    BY <2>3, <2>4, <2>5 DEF Consumed, Permits
  <2>9. CASE permit' = [permit EXCEPT ![a] = g] /\ Executes(a)
    <3>1. permit'[a] = g /\ \A c \in RoomCalls : c # a => permit'[c] = permit[c]
      BY <1>0, <2>9
    <3>2. permit' \in [RoomCalls -> Permits]
      BY <1>0, <2>9
    <3>3. Used(a)
      BY <2>1, <2>2, <2>3, <2>6, <2>9, <3>1 DEF Used
    <3> QED
      BY <3>1, <3>2, <3>3 DEF PermitStep
  <2>10. CASE permit' = [permit EXCEPT ![a] = h]
    <3>1. permit'[a] = h /\ \A c \in RoomCalls : c # a => permit'[c] = permit[c]
      BY <1>0, <2>10
    <3>2. permit' \in [RoomCalls -> Permits]
      BY <1>0, <2>10
    <3>3. Used(a)
      BY <2>1, <2>2, <2>7, <3>1 DEF Used
    <3> QED
      BY <3>1, <3>2, <3>3 DEF PermitStep
  <2> QED
    BY <1>9, <2>1, <2>8, <2>9, <2>10 DEF Authorize, Executes
<1>10. CASE Mention
  BY <1>10, <1>k DEF Mention
<1>11. CASE TimePasses
  BY <1>11, <1>k DEF TimePasses
<1>12. CASE Clear
  BY <1>12, <1>k DEF Clear
<1>13. CASE UNCHANGED permitVars
  BY <1>13, <1>k DEF permitVars
<1> QED
  BY <1>1, <1>2, <1>3, <1>4, <1>5, <1>6, <1>7, <1>8, <1>9, <1>10, <1>11, <1>12, <1>13 DEF
     PermitsNext

-----------------------------------------------------------------------------
(* The invariant.                                                          *)

\* A speaker who was alone in an interval stays so, whatever is heard later.
LEMMA AloneStays ==
  ASSUME RoomStep, NEW from \in Nat, NEW to \in Nat, NEW who, Alone(room, from, to, who)
  PROVE  Alone(room', from, to, who)
<1>1. \A n \in from .. to : n \in 1 .. Len(room) /\ room'[n] = room[n]
  BY DEF RoomStep, Alone
<1>2. to <= Len(room')
  BY DEF RoomStep, Alone
<1> QED
  BY <1>1, <1>2 DEF Alone

\* The utterance of a token is over, and its interval is not heard or cut again.
LEMMA TokenStays ==
  ASSUME Typed, VoiceInv, RoomStep, UtteranceStep,
         NEW s \in 1 .. Len(binding), binding[s].who # NoOne
  PROVE  LET u == utterance'[binding[s].root]
         IN  u.phase = "committed" /\ Alone(room', u.from, u.to, binding[s].who)
<1>1. PICK k \in Tokens : k = binding[s]
  BY DEF Typed
<1>2. PICK i \in Utterances : i = k.root
  BY <1>1 DEF Tokens
<1>3. PICK u \in Utterings : u = utterance[i]
  BY DEF Typed
<1>4. PICK w \in Utterings : w = utterance'[i]
  BY DEF UtteranceStep
<1>5. u.phase = "committed" /\ Alone(room, u.from, u.to, k.who)
  BY <1>1, <1>2, <1>3 DEF VoiceInv
<1>6. w.phase = "committed" /\ w.from = u.from /\ w.to = u.to
  BY <1>3, <1>4, <1>5 DEF UtteranceStep
<1>7. u.from \in Nat /\ u.to \in Nat
  BY DEF Utterings
<1>8. Alone(room', u.from, u.to, k.who)
  BY <1>5, <1>7, AloneStays
<1> QED
  BY <1>1, <1>2, <1>4, <1>6, <1>8

\* VoiceInv is kept by every step.
LEMMA VoiceKept ==
  ASSUME Typed, VoiceInv, RoomStep, UtteranceStep, TokensChange
  PROVE  VoiceInv'
<1>1. ASSUME NEW i \in Utterances
      PROVE  /\ utterance'[i].phase = "started" => 1 <= utterance'[i].from
             /\ utterance'[i].phase = "stopped" /\ utterance'[i].who # NoOne =>
                  Alone(room', utterance'[i].from, utterance'[i].to, utterance'[i].who)
  <2>1. PICK w \in Utterings : w = utterance'[i]
    BY DEF UtteranceStep
  <2>2. Holds(w)
    BY <2>1 DEF UtteranceStep
  <2>3. w.from \in Nat /\ w.to \in Nat
    BY DEF Utterings
  <2>4. w.phase = "started" => 1 <= w.from
    BY <2>2 DEF Holds
  <2>5. ASSUME w.phase = "stopped" /\ w.who # NoOne PROVE Alone(room', w.from, w.to, w.who)
    <3>1. Alone(room, w.from, w.to, w.who)
      BY <2>2, <2>5 DEF Holds
    <3> QED
      BY <2>3, <3>1, AloneStays
  <2> QED
    BY <2>1, <2>4, <2>5
<1>2. ASSUME NEW t \in 1 .. Len(binding'), binding'[t].who # NoOne
      PROVE  LET u == utterance'[binding'[t].root]
             IN  u.phase = "committed" /\ Alone(room', u.from, u.to, binding'[t].who)
  <2>0. binding \in Seq(Tokens) /\ Len(binding) \in Nat
    BY DEF Typed
  <2>1. ASSUME NEW s \in 1 .. Len(binding),
               binding'[t].who = binding[s].who, binding'[t].root = binding[s].root
        PROVE  LET u == utterance'[binding'[t].root]
               IN  u.phase = "committed" /\ Alone(room', u.from, u.to, binding'[t].who)
    BY <1>2, <2>1, TokenStays
  <2>2. CASE Rewrites
    <3>1. Len(binding') = Len(binding)
      BY <2>2 DEF Rewrites
    <3>2. t \in 1 .. Len(binding)
      BY <3>1
    <3>3. binding'[t].who = binding[t].who /\ binding'[t].root = binding[t].root
      BY <2>2, <3>2 DEF Rewrites
    <3> QED
      BY <2>1, <3>2, <3>3
  <2>3. CASE \E k \in Tokens : Grows(k)
    <3>1. PICK k \in Tokens : Grows(k)
      BY <2>3
    <3>2. binding' = Append(binding, k) /\ (Fresh(k) \/ Copies(k))
      BY <3>1 DEF Grows
    <3>3. /\ \A j \in 1 .. Len(binding) : binding'[j] = binding[j]
          /\ binding'[Len(binding) + 1] = k
          /\ t \in 1 .. Len(binding) \/ t = Len(binding) + 1
      BY <2>0, <3>2, Appended
    <3>4. CASE t \in 1 .. Len(binding)
      <4>1. binding'[t] = binding[t]
        BY <3>3, <3>4
      <4> QED
        BY <2>1, <3>4, <4>1
    <3>5. CASE t = Len(binding) + 1 /\ Copies(k)
      <4>1. binding'[t] = k
        BY <3>3, <3>5
      <4>2. PICK j \in 1 .. Len(binding) : k.who = binding[j].who /\ k.root = binding[j].root
        BY <3>5 DEF Copies
      <4> QED
        BY <2>1, <4>1, <4>2
    <3>6. CASE t = Len(binding) + 1 /\ Fresh(k)
      <4>1. binding'[t] = k
        BY <3>3, <3>6
      <4>2. PICK i \in Utterances : i = k.root
        BY DEF Tokens
      <4>3. PICK u \in Utterings : u = utterance[i]
        BY DEF Typed
      <4>4. k.who # NoOne
        BY <1>2, <4>1
      <4>5. /\ u.phase = "stopped" /\ u.who = k.who
            /\ utterance'[i] = [u EXCEPT !.phase = "committed"]
        BY <3>6, <4>2, <4>3, <4>4 DEF Fresh
      <4>6. PICK w \in Utterings : w = [u EXCEPT !.phase = "committed"]
        BY TaintedKept
      <4>7. w.phase = "committed" /\ w.from = u.from /\ w.to = u.to
        BY <4>6, TaintedKept
      <4>8. Alone(room, u.from, u.to, u.who)
        BY <4>3, <4>4, <4>5 DEF VoiceInv
      <4>9. u.from \in Nat /\ u.to \in Nat
        BY DEF Utterings
      <4>10. Alone(room', u.from, u.to, k.who)
        BY <4>5, <4>8, <4>9, AloneStays
      <4> QED
        BY <4>1, <4>2, <4>5, <4>6, <4>7, <4>10
    <3> QED
      BY <3>2, <3>3, <3>4, <3>5, <3>6
  <2> QED
    BY <2>2, <2>3 DEF TokensChange
<1> QED
  BY <1>1, <1>2 DEF VoiceInv

\* A response that was seen keeps the token it has.
LEMMA SeenStays ==
  ASSUME AuthorityStep, NEW r \in RoomResponses, authority[r].seen
  PROVE  authority'[r].seen /\ authority'[r].of = authority[r].of
<1>1. CASE Falls
  BY <1>1 DEF Falls
<1>2. ASSUME NEW s \in RoomResponses, OthersKeep(s), Binds(s) \/ Continues(s)
      PROVE  authority'[r].seen /\ authority'[r].of = authority[r].of
  BY <1>2 DEF OthersKeep, Binds, Continues
<1> QED
  BY <1>1, <1>2 DEF AuthorityStep

\* TokenInv is kept by every step.
LEMMA TokenInvKept ==
  ASSUME Typed, TokenInv, TokensChange, AuthorityStep
  PROVE  TokenInv'
<1>0. /\ Len(binding) \in Nat /\ Len(binding') \in Nat /\ Len(binding) <= Len(binding')
      /\ \A t \in 1 .. Len(binding) :
           /\ binding'[t].chain = binding[t].chain
           /\ binding'[t].expected => binding[t].expected
  BY TokensKept DEF Typed
<1> DEFINE Own(r) ==
             /\ authority[r].of \in 0 .. Len(binding) /\ authority[r].next \in 0 .. Len(binding)
             /\ authority[r].live => authority[r].seen /\ authority[r].of # 0
             /\ authority[r].of # 0 => ~binding[authority[r].of].expected
             /\ authority[r].next # 0 => authority[r].of # 0
             /\ authority[r].next # 0 =>
                  binding[authority[r].next].chain = binding[authority[r].of].chain
           Apart(r, s) ==
             /\ authority[r].of # 0 => authority[r].of # authority[s].of
             /\ authority[r].next # 0 => authority[r].next # authority[s].next
<1>1. /\ \A r \in RoomResponses : Own(r)
      /\ \A r, s \in RoomResponses : r # s => Apart(r, s)
  BY DEF TokenInv, TokenOnce
<1>2. /\ \A r \in RoomResponses : Own(r)'
      /\ \A r, s \in RoomResponses : r # s => Apart(r, s)'
  <2>1. ASSUME NEW r \in RoomResponses, authority'[r].of = authority[r].of,
               authority'[r].next = authority[r].next, authority'[r].seen = authority[r].seen,
               authority'[r].live => authority[r].live
        PROVE  Own(r)'
    BY <1>0, <1>1, <2>1
  <2>2. CASE Falls
    <3>1. \A r \in RoomResponses : Own(r)'
      BY <2>1, <2>2 DEF Falls
    <3>2. \A r, s \in RoomResponses : r # s => Apart(r, s)'
      BY <1>1, <2>2 DEF Falls
    <3> QED
      BY <3>1, <3>2
  <2>3. ASSUME NEW q \in RoomResponses, OthersKeep(q), Binds(q)
        PROVE  /\ \A r \in RoomResponses : Own(r)'
               /\ \A r, s \in RoomResponses : r # s => Apart(r, s)'
    <3>1. \A r \in RoomResponses : r # q => authority'[r] = authority[r]
      BY <2>3 DEF OthersKeep
    <3>2. Own(q)'
      BY <1>0, <2>3 DEF Binds
    <3>3. \A r \in RoomResponses : r # q => Own(r)'
      BY <2>1, <3>1
    <3>4. ASSUME NEW r \in RoomResponses, r # q PROVE Apart(q, r)' /\ Apart(r, q)'
      BY <1>1, <2>3, <3>1, <3>4 DEF Binds
    <3>5. ASSUME NEW r \in RoomResponses, NEW s \in RoomResponses, r # s, r # q, s # q
          PROVE  Apart(r, s)'
      BY <1>1, <3>1, <3>5
    <3> QED
      BY <3>2, <3>3, <3>4, <3>5
  <2>4. ASSUME NEW q \in RoomResponses, OthersKeep(q), Continues(q)
        PROVE  /\ \A r \in RoomResponses : Own(r)'
               /\ \A r, s \in RoomResponses : r # s => Apart(r, s)'
    <3>1. \A r \in RoomResponses : r # q => authority'[r] = authority[r]
      BY <2>4 DEF OthersKeep
    <3>2. Own(q)'
      <4>1. PICK k \in Tokens :
              binding' = Append(binding, k) /\ k.chain = binding[authority[q].of].chain
        BY <2>4 DEF Continues
      <4>2. binding'[Len(binding) + 1] = k /\ Len(binding') = Len(binding) + 1
        BY <4>1, Appended DEF Typed
      <4>3. authority[q].of \in 1 .. Len(binding)
        BY <1>1, <2>4 DEF Continues
      <4> QED
        BY <1>0, <1>1, <2>4, <4>1, <4>2, <4>3 DEF Continues
    <3>3. \A r \in RoomResponses : r # q => Own(r)'
      BY <2>1, <3>1
    <3>4. ASSUME NEW r \in RoomResponses, r # q PROVE Apart(q, r)' /\ Apart(r, q)'
      <4>1. authority[r].next \in 0 .. Len(binding)
        BY <1>1
      <4> QED
        BY <1>0, <1>1, <2>4, <3>1, <3>4, <4>1 DEF Continues
    <3>5. ASSUME NEW r \in RoomResponses, NEW s \in RoomResponses, r # s, r # q, s # q
          PROVE  Apart(r, s)'
      BY <1>1, <3>1, <3>5
    <3> QED
      BY <3>2, <3>3, <3>4, <3>5
  <2> QED
    BY <2>2, <2>3, <2>4 DEF AuthorityStep
<1> QED
  BY <1>2 DEF TokenInv, TokenOnce

\* CallInv is kept by every step.
LEMMA CallKept ==
  ASSUME Typed, TokenInv, CallInv, TokensChange, AuthorityStep, PermitStep
  PROVE  CallInv'
<1>1. ASSUME NEW r \in RoomResponses, authority[r].seen, authority[r].of # 0
      PROVE  /\ authority'[r].seen /\ authority'[r].of # 0
             /\ binding'[authority'[r].of].who = binding[authority[r].of].who
  <2>1. authority'[r].seen /\ authority'[r].of = authority[r].of
    BY <1>1, SeenStays
  <2>2. authority[r].of \in 1 .. Len(binding)
    BY <1>1 DEF TokenInv
  <2>3. binding'[authority[r].of].who = binding[authority[r].of].who
    BY <2>2, TokensKept DEF Typed
  <2> QED
    BY <1>1, <2>1, <2>3
<1>2. ASSUME NEW a \in RoomCalls
      PROVE  LET p == permit'[a]
             IN  /\ p.state \in {"none", "minted"} => p.ran = 0
                 /\ p.state \in {"minted", "consumed"} =>
                      p.of \in RoomResponses /\ authority'[p.of].seen /\ authority'[p.of].of # 0
                 /\ p.ran <= 1
                 /\ p.ran > 0 => /\ p.state = "consumed"
                                 /\ binding'[authority'[p.of].of].who \in Operators
  <2>1. PICK p \in Permits : p = permit[a]
    BY DEF Typed
  <2>2. PICK h \in Permits : h = permit'[a]
    BY DEF PermitStep
  <2>3. /\ p.state \in {"none", "minted"} => p.ran = 0
        /\ p.state \in {"minted", "consumed"} =>
             p.of \in RoomResponses /\ authority[p.of].seen /\ authority[p.of].of # 0
        /\ p.ran <= 1
        /\ p.ran > 0 => p.state = "consumed" /\ binding[authority[p.of].of].who \in Operators
    BY <2>1 DEF CallInv
  <2>4. CASE h = p
    BY <1>1, <2>2, <2>3, <2>4
  <2>5. CASE Given(a)
    <3>1. PICK r \in RoomResponses :
            /\ h.ran = 0 /\ h.of = r
            /\ h.state = "refused" \/ (h.state = "minted" /\ Trusts(r))
      BY <2>2, <2>5 DEF Given
    <3>2. CASE h.state = "refused"
      BY <2>2, <3>1, <3>2
    <3>3. CASE h.state = "minted" /\ Trusts(r)
      <4>1. authority[r].seen /\ authority[r].of # 0
        BY <3>3 DEF Trusts, TokenInv
      <4>2. authority'[r].seen /\ authority'[r].of # 0
        BY <1>1, <4>1
      <4> QED
        BY <2>2, <3>1, <3>3, <4>2
    <3> QED
      BY <3>1, <3>2, <3>3
  <2>6. CASE Used(a)
    <3>1. /\ p.state = "minted" /\ h.state = "consumed" /\ h.of = p.of
          /\ h.ran = p.ran \/ (h.ran = p.ran + 1 /\ Executes(a))
      BY <2>1, <2>2, <2>6 DEF Used
    <3>2. p.ran = 0 /\ p.of \in RoomResponses /\ authority[p.of].seen /\ authority[p.of].of # 0
      BY <2>3, <3>1
    <3>3. /\ authority'[p.of].seen /\ authority'[p.of].of # 0
          /\ binding'[authority'[p.of].of].who = binding[authority[p.of].of].who
      BY <1>1, <3>2
    <3>4. Executes(a) => binding[authority[p.of].of].who \in Operators
      BY <2>1 DEF Executes
    <3> QED
      BY <2>2, <3>1, <3>2, <3>3, <3>4
  <2> QED
    BY <2>1, <2>2, <2>4, <2>5, <2>6 DEF PermitStep
<1> QED
  BY <1>2 DEF CallInv

\* Every step keeps the invariant.
LEMMA PermitsInvNext == PermitsInv /\ [PermitsNext]_permitVars => PermitsInv'
<1> SUFFICES ASSUME PermitsInv, [PermitsNext]_permitVars PROVE PermitsInv'
  OBVIOUS
<1>0. Typed /\ VoiceInv /\ TokenInv /\ CallInv
  BY DEF PermitsInv
<1>1. TokensChange /\ AuthorityStep
  BY <1>0, TokensMove, AuthorityMoves
<1>2. RoomStep /\ PermitStep /\ LedgerOK'
  BY <1>0, RoomMoves, PermitsMove, LedgerMoves
<1>3. UtteranceStep
  BY <1>0, UtterancesMove
<1>4. binding \in Seq(Tokens)
  BY <1>0 DEF Typed
<1>5. binding' \in Seq(Tokens)
  BY <1>1, <1>4, TokensKept
<1>6. asked' \subseteq 1 .. Len(binding')
  BY <1>0, AskedTyped
<1>7. Typed'
  BY <1>1, <1>2, <1>3, <1>5, <1>6 DEF Typed, RoomStep, UtteranceStep, AuthorityStep, PermitStep
<1>8. VoiceInv'
  BY <1>0, <1>1, <1>2, <1>3, VoiceKept
<1>9. TokenInv'
  BY <1>0, <1>1, TokenInvKept
<1>10. CallInv'
  BY <1>0, <1>1, <1>2, CallKept
<1> QED
  BY <1>7, <1>8, <1>9, <1>10 DEF PermitsInv

\* It holds before anything was heard.
LEMMA PermitsInvInit == PermitsInit => PermitsInv
<1> SUFFICES ASSUME PermitsInit PROVE PermitsInv
  OBVIOUS
<1>1. NoUtterance \in Utterings /\ NoAuthority \in Authorities /\ NoPermit \in Permits
  BY DEF NoUtterance, NoAuthority, NoPermit, Utterings, Authorities, Permits
<1>2. Len(binding) = 0 /\ binding \in Seq(Tokens) /\ room \in Seq(Sounds) /\ LedgerOK
  BY DEF PermitsInit, LedgerOK
<1>3. /\ \A i \in Utterances : utterance[i] = NoUtterance
      /\ \A r \in RoomResponses : authority[r] = NoAuthority
      /\ \A a \in RoomCalls : permit[a] = NoPermit
  BY DEF PermitsInit
<1>4. Typed
  BY <1>1, <1>2 DEF PermitsInit, Typed
<1>5. VoiceInv
  BY <1>2, <1>3 DEF VoiceInv, NoUtterance
<1>6. TokenInv
  BY <1>2, <1>3 DEF TokenInv, TokenOnce, NoAuthority
<1>7. CallInv
  BY <1>3 DEF CallInv, NoPermit
<1> QED
  BY <1>4, <1>5, <1>6, <1>7 DEF PermitsInv

\* And the invariant says what is promised.
LEMMA PermitsInvSafe == PermitsInv => PermitsSafe
<1> SUFFICES ASSUME PermitsInv PROVE PermitsSafe
  OBVIOUS
<1>0. Typed /\ VoiceInv /\ TokenInv /\ CallInv
  BY DEF PermitsInv
<1>1. PermitsTypeOK
  <2>1. DOMAIN binding = 1 .. Len(binding)
    BY <1>0 DEF Typed
  <2>2. Expected \subseteq DOMAIN binding /\ asked \subseteq DOMAIN binding
    BY <1>0, <2>1 DEF Expected, Typed
  <2>3. \A r \in RoomResponses : authority[r].live => authority[r].seen /\ authority[r].of # 0
    BY <1>0 DEF TokenInv
  <2>4. \A a \in RoomCalls : permit[a].ran <= 2
    BY <1>0 DEF Typed, Permits
  <2> QED
    BY <2>2, <2>3, <2>4 DEF PermitsTypeOK
<1>2. ASSUME NEW a \in RoomCalls, Ran(a)
      PROVE  LET u == utterance[RootOf(a)]
                 heard == {room[n] : n \in u.from .. u.to}
             IN  Cardinality(heard) = 1 /\ heard \subseteq Operators
  <2>1. PICK t : t = authority[permit[a].of].of
    OBVIOUS
  <2>2. permit[a].of \in RoomResponses /\ t # 0 /\ binding[t].who \in Operators
    BY <1>0, <1>2, <2>1 DEF CallInv, Ran
  <2>3. t \in 1 .. Len(binding)
    BY <1>0, <2>1, <2>2 DEF TokenInv
  <2>4. PICK k \in Tokens : k = binding[t]
    BY <1>0, <2>3 DEF Typed
  <2>5. k.who # NoOne
    BY <2>2, <2>4, PermitsAssumption DEF NoOne
  <2>6. PICK u : u = utterance[k.root]
    OBVIOUS
  <2>7. Alone(room, u.from, u.to, k.who)
    BY <1>0, <2>3, <2>4, <2>5, <2>6 DEF VoiceInv
  <2> DEFINE heard == {room[n] : n \in u.from .. u.to}
  <2>8. heard = {k.who}
    <3>1. u.from \in Nat /\ u.to \in Nat
      BY <1>0, <2>4, <2>6 DEF Typed, Tokens, Utterings
    <3>2. u.from \in u.from .. u.to
      BY <2>7, <3>1 DEF Alone
    <3> QED
      BY <2>7, <3>2 DEF Alone
  <2>9. Cardinality(heard) = 1
    BY <2>8, FS_Singleton
  <2>10. RootOf(a) = k.root
    BY <2>1, <2>4 DEF RootOf
  <2> QED
    BY <2>2, <2>4, <2>6, <2>8, <2>9, <2>10
<1>3. RanOnce
  BY <1>0 DEF CallInv, RanOnce
<1>4. TokenOnce
  BY <1>0 DEF TokenInv
<1> QED
  BY <1>1, <1>2, <1>3, <1>4 DEF PermitsSafe, OperatorAlone

-----------------------------------------------------------------------------
(* The theorems.                                                           *)

\* The invariant holds in every reachable state.
LEMMA PermitsAlways == PermitsSpec => []PermitsInv
<1>1. PermitsInit => PermitsInv
  BY PermitsInvInit
<1>2. PermitsInv /\ [PermitsNext]_permitVars => PermitsInv'
  BY PermitsInvNext
<1> QED
  BY <1>1, <1>2, PTL DEF PermitsSpec

\* A call that changes state ran once, and only if an operator alone was heard in the utterance
\* it goes back to; a token binds one response and is continued once, in its chain.
THEOREM PermitsAreSafe == PermitsSpec => []PermitsSafe
<1>1. PermitsInv => PermitsSafe
  BY PermitsInvSafe
<1> QED
  BY <1>1, PermitsAlways, PTL

\* No call of a tainted chain, or of a poisoned ledger, gets a permit or runs.
THEOREM TaintStaysFinal == PermitsSpec => TaintIsFinal
<1>1. PermitsInv /\ [PermitsNext]_permitVars =>
     [\A a \in RoomCalls :
       permit'[a] # permit[a] /\ permit'[a].state # "refused" /\ (permit'[a].state = "minted" \/ Ran(a)')
         => ~ledger.poisoned /\ ~ChainTainted(binding[authority[permit'[a].of].of].chain)]_permitVars
  <2> SUFFICES ASSUME PermitsInv, [PermitsNext]_permitVars
               PROVE  \A a \in RoomCalls :
                permit'[a] # permit[a] /\ permit'[a].state # "refused" /\ (permit'[a].state = "minted" \/ Ran(a)')
                  => ~ledger.poisoned /\ ~ChainTainted(binding[authority[permit'[a].of].of].chain)
    OBVIOUS
  <2>1. Typed /\ CallInv
    BY DEF PermitsInv
  <2>2. PermitStep
    BY <2>1, PermitsMove
  <2> SUFFICES ASSUME NEW a \in RoomCalls, permit'[a] # permit[a],
                      permit'[a].state # "refused",
                      permit'[a].state = "minted" \/ Ran(a)'
               PROVE  /\ ~ledger.poisoned
                      /\ ~ChainTainted(binding[authority[permit'[a].of].of].chain)
    OBVIOUS
  <2>3. CASE Given(a)
    BY <2>3 DEF Given, Trusts
  <2>4. CASE Used(a)
    <3>1. permit[a].ran = 0
      BY <2>1, <2>4 DEF CallInv, Used
    <3>2. permit'[a].ran > 0
      BY <2>4 DEF Used, Ran
    <3>3. Executes(a) /\ permit'[a].of = permit[a].of
      BY <2>4, <3>1, <3>2 DEF Used
    <3> QED
      BY <3>3 DEF Executes
  <2> QED
    BY <2>2, <2>3, <2>4 DEF PermitStep
<1> QED
  BY <1>1, PermitsAlways, PTL DEF PermitsSpec, TaintIsFinal

=============================================================================
