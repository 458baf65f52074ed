---------------------------- MODULE HistoryOutbox ----------------------------
(***************************************************************************)
(* The durable outbox of canonical history and the attachments that drain  *)
(* it (talk_outbox.py, talk_attachment.py, the wire of talk_passive.py).   *)
(*                                                                         *)
(* An attachment is one object of one process; a page reload makes a new   *)
(* one on the same connection, another tab one on another connection.  All *)
(* of one owner share the SQLite rows.  Every transaction of the outbox is *)
(* one step, and every request of the host two: the host answers, then the *)
(* client looks at the answer.  A commit whose answer was lost may still   *)
(* be processed later.                                                     *)
(***************************************************************************)
EXTENDS Naturals, Sequences, SequencesExt

CONSTANTS
  Taps,           \* TalkAttachment objects
  TapConns,       \* connection ids
  HistEvents,     \* event ids
  StartConn,      \* StartConn[a]: the connection a starts on
  Convs,          \* conversations the selected session can stand for
  MaxRows,        \* max_events
  MaxGenerations, \* bound: generations handed out
  MaxFaults       \* bound: reloads, long pauses, failed requests, moves of the host

ASSUME OutboxAssumption ==
  /\ StartConn \in [Taps -> TapConns]
  /\ MaxRows \in Nat \ {0} /\ MaxGenerations \in Nat /\ MaxFaults \in Nat
  /\ "" \notin Taps \union TapConns \union HistEvents \union Convs

VARIABLES
  outbox,   \* next: metadata; conns: connections; rows: events, oldest first
  taps,     \* taps[a]: the attachment and where its call under _lock stands
  keeper,   \* the host: conversation, tabs, committed and retired events
  written,  \* ids a caller has used: an id names one event
  late,     \* commits sent whose client gave up waiting
  faults

outboxVars == <<outbox, taps, keeper, written, late, faults>>

Settled  == {"saved", "failed", "conflicted"}
Gone     == {"target_missing", "target_unavailable", "retired"}
Fresh(c) == [conn |-> c, token |-> 0, auth |-> FALSE, conv |-> "", caps |-> FALSE,
             at |-> "idle", ev |-> "", got |-> "", asked |-> FALSE, todo |-> <<>>, err |-> ""]

OutboxTypeOK ==
  /\ outbox.next \in 0 .. MaxGenerations
  /\ outbox.conns \in [TapConns -> [live: BOOLEAN, gen: 0 .. MaxGenerations + 1]]
  /\ Len(outbox.rows) <= MaxRows
  /\ \A i \in DOMAIN outbox.rows :
       outbox.rows[i] \in [id: HistEvents, state: {"pending"} \union Settled, owned: BOOLEAN,
                           tried: BOOLEAN, gen: 1 .. MaxGenerations, conv: Convs, blind: 0 .. 2,
                           age: 0 .. 2]
  /\ \A i, j \in DOMAIN outbox.rows : outbox.rows[i].id = outbox.rows[j].id => i = j
  /\ \A a \in Taps : taps[a].token \in 0 .. MaxGenerations
  /\ keeper.saved \union keeper.retired \subseteq HistEvents

OutboxInit ==
  /\ outbox = [next |-> 0, conns |-> [c \in TapConns |-> [live |-> FALSE, gen |-> 0]],
               rows |-> <<>>]
  /\ taps = [a \in Taps |-> Fresh(StartConn[a])]
  /\ keeper = [conv |-> CHOOSE v \in Convs : TRUE, target |-> "ok", saved |-> {}, retired |-> {},
               tabs |-> [c \in TapConns |-> ""]]
  /\ written = {} /\ late = {} /\ faults = 0

-----------------------------------------------------------------------------
(* Transactions of the outbox.                                             *)

RowOf(e)  == CHOOSE i \in DOMAIN outbox.rows : outbox.rows[i].id = e
HasRow(e) == \E i \in DOMAIN outbox.rows : outbox.rows[i].id = e /\ outbox.rows[i].owned
Row(e)    == outbox.rows[RowOf(e)]

\* _check: the token is the one its connection was last given, and the owner
\* of the connection was not cleared.
TokenHolds(a) ==
  /\ taps[a].token # 0
  /\ outbox.conns[taps[a].conn] = [live |-> TRUE, gen |-> taps[a].token]

Begun(c) ==
  [outbox EXCEPT !.next = @ + 1, !.conns[c] = [live |-> TRUE, gen |-> outbox.next + 1]]

Ended(c) == [outbox EXCEPT !.conns[c] = [live |-> FALSE, gen |-> @.gen + 1]]

\* mark touches a pending row of the owner and nothing else.
Marks(e, state) ==
  IF HasRow(e) /\ Row(e).state = "pending"
  THEN [outbox EXCEPT !.rows[RowOf(e)].state = state] ELSE outbox

\* Variant: the attempt is not counted.
TriedNot(e, blind) ==
  [outbox EXCEPT !.rows[RowOf(e)].blind = @ + (IF blind /\ @ < 2 THEN 1 ELSE 0)]

\* mark(attempted=True), committed before the request leaves.
Tried(e, blind) ==
  [outbox EXCEPT !.rows[RowOf(e)].tried = TRUE,
                 !.rows[RowOf(e)].blind = @ + (IF blind /\ @ < 2 THEN 1 ELSE 0)]

\* A row without an owner: expired, or its target is gone.
Disowned(row) == [row EXCEPT !.state = "failed", !.owned = FALSE]

Invalidated(err, e) ==
  IF err = "target_missing"
  THEN [outbox EXCEPT
          !.rows = [i \in DOMAIN outbox.rows |-> Disowned(outbox.rows[i])],
          !.conns = [c \in TapConns |-> IF outbox.conns[c].live
                       THEN [live |-> FALSE, gen |-> outbox.conns[c].gen + 1]
                       ELSE outbox.conns[c]]]
  ELSE IF HasRow(e) THEN [outbox EXCEPT !.rows[RowOf(e)] = Disowned(@)] ELSE outbox

\* Variant: the oldest row goes whatever its state.
EvictsAny == IF Len(outbox.rows) < MaxRows THEN outbox.rows ELSE Tail(outbox.rows)

\* A full table gives up its oldest settled row, and none that is pending.
Evicts ==
  LET old == {i \in DOMAIN outbox.rows : outbox.rows[i].state # "pending"}
  IN  IF Len(outbox.rows) < MaxRows \/ old = {} THEN outbox.rows
      ELSE RemoveAt(outbox.rows, CHOOSE i \in old : \A j \in old : i <= j)

\* _prune: what is older than twice the TTL goes, what is older than the TTL is failed.
Pruned ==
  LET kept == SelectSeq(outbox.rows, LAMBDA r : r.age < 2)
  IN  [outbox EXCEPT !.rows = [i \in DOMAIN kept |-> IF kept[i].age = 1 /\ kept[i].owned
                                                    THEN Disowned(kept[i]) ELSE kept[i]]]

\* It is a transaction of its own inside a later call.
OutboxPrune == Pruned # outbox /\ outbox' = Pruned /\ UNCHANGED <<taps, keeper, written, late, faults>>

\* One TTL passes for the oldest rows, or two with nobody calling, and connections that were
\* not touched for one are refused from then on.
TimePasses ==
  /\ faults < MaxFaults /\ faults' = faults + 1
  /\ \E n \in 0 .. Len(outbox.rows), by \in 1 .. 2, lapsed \in SUBSET TapConns :
       outbox' = [outbox EXCEPT
         !.rows  = [i \in DOMAIN @ |-> IF i > n THEN @[i]
                      ELSE [@[i] EXCEPT !.age = IF @ + by > 2 THEN 2 ELSE @ + by]],
         !.conns = [c \in TapConns |-> IF c \in lapsed THEN [@[c] EXCEPT !.live = FALSE] ELSE @[c]]]
  /\ UNCHANGED <<taps, keeper, written, late>>

\* get: a row that expired is pruned at once, and not returned.
Gets(e) == HasRow(e) /\ Row(e).age = 0

-----------------------------------------------------------------------------
(* The object and its calls.  A call holds _lock to its end.               *)

Goes(a, fields) == taps' = [taps EXCEPT ![a] = fields @@ @]

Over    == [at |-> "idle", ev |-> "", got |-> "", asked |-> FALSE, todo |-> <<>>, err |-> ""]
Forgets == [auth |-> FALSE, conv |-> ""]

\* A request that is out when its call ends.
Sent(a) ==
  IF taps[a].at = "committing" THEN {[tap |-> a, conn |-> taps[a].conn, ev |-> taps[a].ev]} ELSE {}

\* stale_generation leaves the call at whatever transaction meets it.
TapAborts(a) ==
  /\ taps[a].at # "idle" /\ ~TokenHolds(a)
  /\ Goes(a, Over)
  /\ late' = late \union Sent(a)
  /\ UNCHANGED <<outbox, keeper, written, faults>>

\* The page is reloaded or the process dies, in the middle of a call or not: a
\* new object takes the same connection or another one.
TapReopens(a) ==
  /\ faults < MaxFaults /\ faults' = faults + 1
  /\ \E c \in TapConns : taps' = [taps EXCEPT ![a] = Fresh(c)]
  /\ late' = late \union Sent(a)
  /\ UNCHANGED <<outbox, keeper, written>>

Fails(a, err) == Goes(a, [at |-> "failing", err |-> err])

\* What the host says to any request about the session, or about e in it.
Refusals(e) ==
  (IF keeper.target = "ok" THEN {} ELSE {keeper.target})
    \union (IF e \in keeper.retired THEN {"retired"} ELSE {})

Trouble(a) ==
  /\ taps[a].at \in {"asking", "sweeping", "reconciling", "attaching", "committing"}
  /\ faults < MaxFaults /\ faults' = faults + 1
  /\ \E err \in {"busy", "denied", "unauthorized", "malformed_response"} : Fails(a, err)
  /\ late' = late \union Sent(a)
  /\ UNCHANGED <<outbox, keeper, written>>

\* attach, until its first answer.
Attach(a) ==
  /\ taps[a].at = "idle" /\ outbox.next < MaxGenerations
  /\ outbox' = Begun(taps[a].conn)
  /\ Goes(a, [token |-> outbox.next + 1, caps |-> FALSE, at |-> "asking"] @@ Forgets)
  /\ UNCHANGED <<keeper, written, late, faults>>

Pending == SelectSeq(outbox.rows, LAMBDA r : r.owned /\ r.state = "pending" /\ r.age = 0)

AttachAsks(a) ==
  /\ taps[a].at = "asking" /\ TokenHolds(a)
  /\ Goes(a, [caps |-> TRUE, at |-> "sweeping",
              todo |-> [i \in DOMAIN Pending |-> Pending[i].id]])
  /\ UNCHANGED <<outbox, keeper, written, late, faults>>

\* One event of the sweep: reconciled with the host, marked when it was saved.
AttachSweeps(a) ==
  /\ taps[a].at = "sweeping" /\ taps[a].todo # <<>> /\ TokenHolds(a)
  /\ LET e == Head(taps[a].todo)
         next == [todo |-> Tail(taps[a].todo)]
     IN  \/ /\ ~Gets(e)                         \* get raises
            /\ Goes(a, Over) /\ outbox' = (IF HasRow(e) THEN Pruned ELSE outbox)
         \/ /\ Gets(e) /\ keeper.target # "ok"
            /\ Fails(a, keeper.target) /\ UNCHANGED outbox
         \/ /\ Gets(e) /\ Refusals(e) = {"retired"}
            /\ outbox' = Invalidated("retired", e) /\ Goes(a, next @@ Forgets)
         \/ /\ Gets(e) /\ Refusals(e) = {}
            /\ outbox' = (IF e \in keeper.saved THEN Marks(e, "saved") ELSE outbox)
            /\ Goes(a, next)
  /\ UNCHANGED <<keeper, written, late, faults>>

\* _advance(expected): a new generation in the place of the one that holds.
Advances(a) ==
  /\ TokenHolds(a) /\ outbox.next < MaxGenerations
  /\ outbox' = Begun(taps[a].conn)
  /\ Goes(a, [token |-> outbox.next + 1, at |-> "attaching"] @@ Forgets)

AttachSwept(a) ==
  /\ taps[a].at = "sweeping" /\ taps[a].todo = <<>>
  /\ Advances(a)
  /\ UNCHANGED <<keeper, written, late, faults>>

\* The attach request of _reattach.  The host fences what the tab sent before.
Reattaches(a) ==
  /\ taps[a].at = "attaching"
  /\ \/ /\ Refusals("") = {}
        /\ keeper' = [keeper EXCEPT !.tabs[taps[a].conn] = a]
        /\ late' = {l \in late : l.conn # taps[a].conn}
        /\ Goes(a, [at |-> "attached", got |-> keeper.conv])
     \/ /\ Refusals("") # {}
        /\ Fails(a, keeper.target) /\ UNCHANGED <<keeper, late, written>>
  /\ UNCHANGED <<outbox, written, faults>>

Reattached(a) ==
  /\ taps[a].at = "attached" /\ TokenHolds(a)
  /\ Goes(a, [auth |-> TRUE, conv |-> taps[a].got, got |-> "",
              at |-> IF taps[a].ev = "" THEN "idle" ELSE "ready"])
  /\ UNCHANGED <<outbox, keeper, written, late, faults>>

Enqueue(a, e) ==
  /\ taps[a].at = "idle" /\ TokenHolds(a) /\ taps[a].auth /\ taps[a].caps
  /\ e \notin written /\ written' = written \union {e}
  /\ Len(Evicts) < MaxRows
  /\ outbox' = [outbox EXCEPT !.rows = Append(Evicts,
                  [id |-> e, state |-> "pending", owned |-> TRUE, tried |-> FALSE,
                   gen |-> taps[a].token, conv |-> taps[a].conv, blind |-> 0, age |-> 0])]
  /\ UNCHANGED <<taps, keeper, late, faults>>

\* flush asks before it sends an event that was tried, or that another capture
\* wrote.
Flush(a, e) ==
  /\ taps[a].at = "idle" /\ TokenHolds(a) /\ taps[a].caps
  /\ Gets(e) /\ Row(e).state = "pending"
  /\ Goes(a, [ev |-> e, at |-> IF Row(e).tried \/ Row(e).gen # taps[a].token
                               THEN "reconciling" ELSE "ready"])
  /\ UNCHANGED <<outbox, keeper, written, late, faults>>

FlushReconciles(a) ==
  /\ taps[a].at = "reconciling" /\ TokenHolds(a)
  /\ LET e == taps[a].ev
     IN  \/ \E err \in Refusals(e) : Fails(a, err) /\ UNCHANGED outbox
         \/ /\ Refusals(e) = {} /\ e \in keeper.saved
            /\ outbox' = Marks(e, "saved") /\ Goes(a, Over)
         \/ /\ Refusals(e) = {} /\ e \notin keeper.saved /\ outbox.next < MaxGenerations
            /\ outbox' = Begun(taps[a].conn)
            /\ Goes(a, [token |-> outbox.next + 1, at |-> "attaching", asked |-> TRUE]
                         @@ Forgets)
  /\ UNCHANGED <<keeper, written, late, faults>>

\* The last checks before the request, and the attempt.
FlushTries(a) ==
  /\ taps[a].at = "ready" /\ TokenHolds(a)
  /\ LET e == taps[a].ev
     IN  \/ /\ ~taps[a].auth
            /\ Fails(a, "denied") /\ UNCHANGED outbox
         \/ /\ taps[a].auth /\ HasRow(e) /\ taps[a].conv # Row(e).conv
            /\ Fails(a, "event_conflict") /\ UNCHANGED outbox
         \/ /\ taps[a].auth /\ HasRow(e) /\ taps[a].conv = Row(e).conv
            /\ Row(e).state = "pending"
            /\ outbox' = Tried(e, ~taps[a].asked) /\ Goes(a, [at |-> "committing"])
         \/ /\ taps[a].auth /\ (HasRow(e) => Row(e).state # "pending")
            /\ Goes(a, Over) /\ UNCHANGED outbox
  /\ UNCHANGED <<keeper, written, late, faults>>

\* The host serves a commit of the attachment that holds the tab, once.
Serves(a, c, e) == Refusals(e) = {} /\ keeper.tabs[c] = a

FlushCommits(a) ==
  /\ taps[a].at = "committing"
  /\ LET e == taps[a].ev
     IN  \/ /\ Serves(a, taps[a].conn, e)
            /\ keeper' = [keeper EXCEPT !.saved = @ \union {e}]
            /\ Goes(a, [at |-> "committed"])
         \/ \E err \in Refusals(e) : Fails(a, err) /\ UNCHANGED keeper
         \/ /\ Refusals(e) = {} /\ ~Serves(a, taps[a].conn, e)
            /\ Fails(a, "stale_attachment") /\ UNCHANGED keeper
  /\ UNCHANGED <<outbox, late, written, faults>>

FlushSaves(a) ==
  /\ taps[a].at = "committed" /\ TokenHolds(a)
  /\ outbox' = Marks(taps[a].ev, "saved") /\ Goes(a, Over)
  /\ UNCHANGED <<keeper, written, late, faults>>

\* Answers after which the attachment no longer trusts what it knows.
Doubtful == {"stale_attachment", "unauthorized", "malformed_response"}

\* _host_error: what is gone at the host is invalidated here.
HostErrs(a) ==
  /\ taps[a].at = "failing" /\ TokenHolds(a)
  /\ LET err == taps[a].err
         ev  == taps[a].ev
         forgets == IF err \in Gone \union Doubtful THEN Forgets ELSE <<>>
         token   == IF err = "target_missing" THEN [token |-> 0] ELSE <<>>
     IN  /\ outbox' = IF err = "target_missing" \/ (err \in Gone /\ ev # "")
                      THEN Invalidated(err, ev) ELSE outbox
         /\ Goes(a, token @@ forgets @@
                      (IF ev = "" \/ err \in Gone THEN Over ELSE [at |-> "settling"]))
  /\ UNCHANGED <<keeper, written, late, faults>>

Outcome(err) ==
  IF err = "event_conflict" THEN "conflicted"
  ELSE IF err \in {"busy", "stale_attachment", "malformed_response"} THEN "pending" ELSE "failed"

FlushSettles(a) ==
  /\ taps[a].at = "settling" /\ TokenHolds(a)
  /\ outbox' = Marks(taps[a].ev, Outcome(taps[a].err)) /\ Goes(a, Over)
  /\ UNCHANGED <<keeper, written, late, faults>>

\* refresh_snapshot: a conversation that is not the attached one, a tab that
\* moved and a target that is gone each forget the context.
RefreshSnapshot(a) ==
  /\ taps[a].at = "idle" /\ TokenHolds(a) /\ taps[a].auth
  /\ \/ /\ Refusals("") = {} /\ (keeper.tabs[taps[a].conn] # a \/ keeper.conv # taps[a].conv)
        /\ Goes(a, Forgets) /\ UNCHANGED outbox
     \/ /\ Refusals("") # {}
        /\ outbox' = (IF keeper.target = "target_missing"
                      THEN Invalidated("target_missing", "") ELSE outbox)
        /\ Goes(a, Forgets @@ (IF keeper.target = "target_missing"
                               THEN [token |-> 0] ELSE <<>>))
  /\ UNCHANGED <<keeper, written, late, faults>>

TapCloses(a) ==
  /\ taps[a].at = "idle" /\ TokenHolds(a)
  /\ outbox' = Ended(taps[a].conn)
  /\ keeper' = (IF taps[a].auth /\ keeper.tabs[taps[a].conn] = a
                THEN [keeper EXCEPT !.tabs[taps[a].conn] = ""] ELSE keeper)
  /\ Goes(a, Forgets @@ [token |-> 0])
  /\ UNCHANGED <<late, written, faults>>

-----------------------------------------------------------------------------
(* The host on its own.                                                    *)

LateCommit ==
  /\ \E l \in late :
       /\ keeper' = (IF Serves(l.tap, l.conn, l.ev)
                     THEN [keeper EXCEPT !.saved = @ \union {l.ev}] ELSE keeper)
       /\ late' = late \ {l}
  /\ UNCHANGED <<outbox, taps, written, faults>>

\* A restart or an adopted conversation detaches every tab.
HostMoves ==
  /\ faults < MaxFaults /\ faults' = faults + 1
  /\ \/ \E v \in Convs : keeper' = [keeper EXCEPT !.conv = v, !.tabs = [c \in TapConns |-> ""]]
     \/ \E t \in Gone \ {"retired"} : keeper' = [keeper EXCEPT !.target = t]
     \/ \E e \in HistEvents : keeper' = [keeper EXCEPT !.retired = @ \union {e}]
  /\ UNCHANGED <<outbox, taps, late, written>>

TapStep(a) ==
  \/ TapReopens(a) \/ TapAborts(a) \/ Trouble(a)
  \/ Attach(a) \/ AttachAsks(a) \/ AttachSweeps(a) \/ AttachSwept(a)
  \/ Reattaches(a) \/ Reattached(a)
  \/ \E e \in HistEvents : Enqueue(a, e) \/ Flush(a, e)
  \/ FlushReconciles(a) \/ FlushTries(a) \/ FlushCommits(a) \/ FlushSaves(a)
  \/ HostErrs(a) \/ FlushSettles(a) \/ RefreshSnapshot(a) \/ TapCloses(a)

OutboxNext == OutboxPrune \/ TimePasses \/ LateCommit \/ HostMoves \/ \E a \in Taps : TapStep(a)

OutboxSpec == OutboxInit /\ [][OutboxNext]_outboxVars

-----------------------------------------------------------------------------
\* Of the objects that share a connection one holds its generation: the others
\* are fenced out of every transaction (HistoryOutbox._check, begin, end).
OneCapture ==
  \A a, b \in Taps : TokenHolds(a) /\ TokenHolds(b) /\ taps[a].conn = taps[b].conn => a = b

\* An event the outbox calls saved is one the host has committed: no lost,
\* late or repeated answer marks it otherwise.
SavedIsHeld ==
  \A i \in DOMAIN outbox.rows :
    outbox.rows[i].state = "saved" => outbox.rows[i].id \in keeper.saved

\* An event is committed without asking the host first at most once, whatever
\* crashes, lost answers and second tabs there are (attempts is written before
\* the request leaves).
BlindOnce == \A i \in DOMAIN outbox.rows : outbox.rows[i].blind <= 1

\* The three together, and the types.
OutboxSafe == OutboxTypeOK /\ OneCapture /\ SavedIsHeld /\ BlindOnce

\* (Refuted: a flush of an event that was never tried, after a refresh forgot
\* the context, reads not_attached and fails the event for good.)
FailedWasTried ==
  \A i \in DOMAIN outbox.rows :
    outbox.rows[i].state = "failed" /\ outbox.rows[i].owned => outbox.rows[i].tried

\* (Refuted with two tabs: a commit whose answer was lost is processed after
\* the other tab read that the host does not know the event.)
ConflictIsUnsaved ==
  \A i \in DOMAIN outbox.rows :
    outbox.rows[i].state = "conflicted" => outbox.rows[i].id \notin keeper.saved

\* A pending event leaves the table only when it is older than twice the TTL, whatever else
\* needs room or ends (the eviction of HistoryOutbox.add, invalidate, mark).
PendingIsKept ==
  [][\A i \in DOMAIN outbox.rows : outbox.rows[i].state = "pending" /\ outbox.rows[i].age < 2 =>
       \E j \in DOMAIN outbox'.rows : outbox'.rows[j].id = outbox.rows[i].id]_outboxVars

\* (Refuted: after a pause of twice the TTL the same prune removes it.)  A pending event that
\* expires is seen as failed before it goes (the comment in _prune).
ExpiryIsSeen ==
  [][\A i \in DOMAIN outbox.rows : outbox.rows[i].state = "pending" =>
       \E j \in DOMAIN outbox'.rows : outbox'.rows[j].id = outbox.rows[i].id]_outboxVars
=============================================================================
