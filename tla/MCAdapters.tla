-------------------------- MODULE MCAdapters --------------------------
(* Instances of the modules of the provider adapters, of the work and the
   speech of a browser session, of the outbox and of the transcript hand-off, in one
   run.  They share no state: a behaviour is a behaviour of one of them, and the
   invariant of a part is asked of its own behaviours. *)
EXTENDS CoreVoice, ProviderWire, GeminiSession, LiveOperations, LiveBinding, HistoryOutbox, TranscriptHandoff

CONSTANTS w1, p1, p2

VARIABLE part

AdapterParts == {"core", "wire", "gemini", "operations", "binding", "outbox", "transcript"}

AdapterVars  == <<part, coreVars, wireVars, gemVars, liveVars, bindVars, outboxVars, handVars>>

\* Every part starts; one of them is the one that runs.
AdapterInit ==
    /\ part \in AdapterParts
    /\ CoreInit /\ WireInit /\ GemInit /\ LiveInit /\ BindInit /\ OutboxInit /\ HandInit

AdapterNext ==
    /\ UNCHANGED part
    /\ \/ /\ part = "core" /\ CoreNext
          /\ UNCHANGED <<wireVars, gemVars, liveVars, bindVars, outboxVars, handVars>>
       \/ /\ part = "wire" /\ WireNext
          /\ UNCHANGED <<coreVars, gemVars, liveVars, bindVars, outboxVars, handVars>>
       \/ /\ part = "gemini" /\ GemNext
          /\ UNCHANGED <<coreVars, wireVars, liveVars, bindVars, outboxVars, handVars>>
       \/ /\ part = "operations" /\ LiveNext
          /\ UNCHANGED <<coreVars, wireVars, gemVars, bindVars, outboxVars, handVars>>
       \/ /\ part = "binding" /\ BindNext
          /\ UNCHANGED <<coreVars, wireVars, gemVars, liveVars, outboxVars, handVars>>
       \/ /\ part = "outbox" /\ OutboxNext
          /\ UNCHANGED <<coreVars, wireVars, gemVars, liveVars, bindVars, handVars>>
       \/ /\ part = "transcript" /\ HandNext
          /\ UNCHANGED <<coreVars, wireVars, gemVars, liveVars, bindVars, outboxVars>>

AdapterSpec == AdapterInit /\ [][AdapterNext]_AdapterVars

\* A sweeper for each process.
Homes == [w \in Sweepers |-> IF w = w1 THEN p1 ELSE p2]

\* A connection for each attachment.
Tabs == LET a == CHOOSE x \in Taps : TRUE
            c == CHOOSE x \in TapConns : TRUE
        IN  [x \in Taps |-> IF x = a THEN c ELSE CHOOSE d \in TapConns : d # c]

\* The realtime adapters: a token becomes one response, and a session that closed
\* keeps no socket and no waiter.
AdaptersSafe == (part = "core" => CoreSafe) /\ (part = "wire" => WireSafe)

\* A browser session: a delegation acts once and its rows are claimed by one owner; its
\* speech and its transcript go out in order and nothing is lost while it is open.
SessionsSafe == (part = "operations" => LiveSafe) /\ (part = "binding" => BindingSafe)

\* What is written for later: an event is captured once and kept until it is told, and
\* a transcript is removed only once it was handed on.
StorageSafe == (part = "outbox" => OutboxSafe) /\ (part = "transcript" => HandoffSafe)

\* No step takes an end back: a response or a delegation ends once, a session moves on
\* and is quiet once it closes, words come before the end of their turn, and a pending
\* event is not thrown away.
NothingTwice == /\ EndsOnce /\ StatesMoveOn /\ WordsBeforeEnd
                /\ LiveEndsHold /\ QuietOnceClosing /\ PendingIsKept

\* Nothing tells one event from another.
AdapterSymmetry == Permutations(HistEvents)
=============================================================================
