---------------------------- MODULE NativeSession ----------------------------
(***************************************************************************)
(* A terminal or Discord session of canonical Talk and the transcripts it  *)
(* captures (run_native_talk_session of talk_cli.py, NativeTaskAPI of      *)
(* talk_native_api.py, the capture writer of talk_native_live.py and its   *)
(* spool, talk_native_capture_store.py).                                   *)
(*                                                                         *)
(* One controller is current.  Selecting another task flushes what the     *)
(* current one captured, attaches anew and replaces it.  What is captured  *)
(* is spooled to disk before it is posted, and a later process replays     *)
(* what the spool still holds of the task it attaches to.                  *)
(***************************************************************************)
EXTENDS Naturals, FiniteSets, TLC

CONSTANTS
  TalkTasks,         \* canonical tasks
  MaxControllers,    \* bound: attachments that reached a controller
  MaxCaptured,       \* bound: fragments per controller
  CaptureTries,      \* 1 + CAPTURE_RETRIES
  MaxMishaps         \* bound: failed calls, failed writes, ends and crashes

ASSUME NativeAssumption == MaxControllers \in Nat /\ CaptureTries \in Nat \ {0} /\ MaxMishaps \in Nat

Controllers == 1..MaxControllers
Fragments == Controllers \X (1..MaxCaptured)   \* a fragment and who heard it

VARIABLES
  client,      \* NativeTaskAPI: its context (an attachment), the epoch, whether it is attached
  host,        \* [seen, task, ledger]: the newest attachment, its task, the live transcripts
  controller,  \* controller[c]: what it attached to and captured
  session,     \* [life, current, ready, step, from, target, made, before, popped]: the process,
               \* the controllers of earlier ones, and whether receive has left the one replaced
  writer,      \* the capture writer in progress
  spool,       \* the capture store on disk
  missed,      \* ghost: what receive took from the wire while nobody was current
  mishaps

nativeVars == <<client, host, controller, session, writer, spool, missed, mishaps>>

NoWriter == [of |-> 0, at |-> "idle", batch |-> {}, tries |-> 0]
NoController == [task |-> "none", attachment |-> 0, open |-> FALSE, heard |-> 0,
                 pending |-> {}, spooled |-> {}, error |-> "none"]

NativeInit ==
  /\ client = [context |-> 0, epoch |-> 0, attached |-> TRUE]
  /\ host = [seen |-> 0, task |-> "none", ledger |-> [t \in TalkTasks |-> {}]]
  /\ controller = [c \in Controllers |-> NoController]
  /\ \E t \in TalkTasks :
       session = [life |-> "up", current |-> 0, ready |-> FALSE, step |-> "attach",
                  from |-> 0, target |-> t, made |-> 0, before |-> 0, popped |-> FALSE]
  /\ writer = NoWriter /\ spool = {} /\ missed = {} /\ mishaps = 0

Up == session.life = "up"
Mishap == mishaps < MaxMishaps /\ mishaps' = mishaps + 1
Owner(fragment) == controller[fragment[1]].task
Current(c) == controller[c].open /\ client.context = controller[c].attachment
Turns(fields) == session' = fields @@ session
Sets(c, fields) == controller' = [controller EXCEPT ![c] = fields @@ @]

-----------------------------------------------------------------------------
(* Capture.                                                                *)

\* receive: events are handled while their controller is the current one.
HearFragment ==
  LET c == session.current
  IN /\ Up /\ c # 0 /\ session.ready /\ controller[c].heard < MaxCaptured
     /\ Sets(c, [heard |-> controller[c].heard + 1,
                 pending |-> controller[c].pending \cup {<<c, controller[c].heard + 1>>}])
     /\ UNCHANGED <<client, host, session, writer, spool, missed, mishaps>>

\* receive waits for the next event of the controller that is being replaced; one that comes
\* now is taken from the wire and left, and receive waits for whoever is ready next.
Misses ==
  LET c == session.from
  IN /\ Up /\ c # 0 /\ session.current = 0 /\ ~session.popped /\ controller[c].heard < MaxCaptured
     /\ Sets(c, [heard |-> controller[c].heard + 1])
     /\ missed' = missed \cup {<<c, controller[c].heard + 1>>}
     /\ Turns([popped |-> TRUE])
     /\ UNCHANGED <<client, host, writer, spool, mishaps>>

WriterStarts(c) ==
  /\ Up /\ writer = NoWriter /\ Current(c)
  /\ controller[c].pending # {} /\ controller[c].error = "none"
  /\ writer' = [NoWriter EXCEPT !.of = c, !.at = "spool"]
  /\ UNCHANGED <<client, host, controller, session, spool, missed, mishaps>>

\* Everything pending is spooled before any of it is posted.
Spools ==
  LET c == writer.of
  IN /\ Up /\ writer.at = "spool"
     /\ spool' = spool \cup controller[c].pending
     /\ Sets(c, [spooled |-> controller[c].pending])
     /\ writer' = [writer EXCEPT !.at = "post", !.batch = controller[c].pending]
     /\ UNCHANGED <<client, host, session, missed, mishaps>>

SpoolFails ==
  /\ Up /\ writer.at = "spool" /\ Mishap
  /\ Sets(writer.of, [error |-> "storage"])
  /\ writer' = NoWriter
  /\ UNCHANGED <<client, host, session, spool, missed>>

\* The post waits while the client attaches; the host takes it for its newest attachment
\* only.
Kept(c, batch) ==
  IF host.seen = controller[c].attachment THEN [host EXCEPT !.ledger[host.task] = @ \cup batch] ELSE host

Posts ==
  LET c == writer.of
  IN /\ Up /\ writer.at = "post" /\ client.attached
     /\ host' = Kept(c, writer.batch)
     /\ IF Current(c) /\ host.seen = controller[c].attachment
        THEN writer' = [writer EXCEPT !.at = "ack"] /\ UNCHANGED controller
        ELSE writer' = NoWriter /\ Sets(c, [error |-> "stale"])
     /\ UNCHANGED <<client, session, spool, missed, mishaps>>

\* No whether the host kept the batch or not; the writer tries again or gives up.
PostFails(kept) ==
  LET c == writer.of
  IN /\ Up /\ writer.at = "post" /\ client.attached /\ Mishap
     /\ host' = IF kept THEN Kept(c, writer.batch) ELSE host
     /\ IF writer.tries + 1 < CaptureTries
        THEN writer' = [writer EXCEPT !.tries = @ + 1] /\ UNCHANGED controller
        ELSE writer' = NoWriter /\ Sets(c, [error |-> "transient"])
     /\ UNCHANGED <<client, session, spool, missed>>

Acked(c, batch) == spool \ batch

Acknowledges ==
  LET c == writer.of
  IN /\ Up /\ writer.at = "ack"
     /\ spool' = Acked(c, writer.batch)
     /\ Sets(c, [pending |-> controller[c].pending \ writer.batch,
                 spooled |-> controller[c].spooled \ writer.batch])
     /\ writer' = NoWriter
     /\ UNCHANGED <<client, host, session, missed, mishaps>>

-----------------------------------------------------------------------------
(* Selecting a task: activate.                                             *)

\* Nobody is current from here on, and what failed before may be tried again.
Select(t) ==
  LET c == session.current
  IN /\ Up /\ c # 0 /\ session.ready /\ session.made < MaxControllers
     /\ Turns([current |-> 0, ready |-> FALSE, step |-> "flush", from |-> c, target |-> t, popped |-> FALSE])
     /\ Sets(c, [error |-> IF controller[c].error = "transient" THEN "none" ELSE controller[c].error])
     /\ UNCHANGED <<client, host, writer, spool, missed, mishaps>>

\* The one that was current is again; what receive had left in between stays lost.
TakenBack == [current |-> session.from, ready |-> TRUE, step |-> "none", from |-> 0]

\* Variant: the switch goes on although the flush failed.
FlushedAny == writer = NoWriter
Flushed == writer = NoWriter /\ controller[session.from].pending = {}

FlushEnds ==
  /\ Up /\ session.step = "flush"
  /\ \/ Flushed /\ Turns([step |-> "attach"]) /\ UNCHANGED mishaps
     \/ writer = NoWriter /\ controller[session.from].error # "none" /\ Turns(TakenBack) /\ UNCHANGED mishaps
     \/ writer # NoWriter /\ Mishap /\ Turns(TakenBack)          \* two seconds
  /\ UNCHANGED <<client, host, controller, writer, spool, missed>>

AttachAsks ==
  /\ Up /\ session.step = "attach"
  /\ client' = [client EXCEPT !.epoch = @ + 1, !.attached = FALSE]
  /\ Turns([step |-> "attaching"])
  /\ UNCHANGED <<host, controller, writer, spool, missed, mishaps>>

\* The host attaches, and the answer is read, lost, or a refusal.
AttachAnswers(outcome) ==
  /\ Up /\ session.step = "attaching"
  /\ outcome # "attached" => Mishap
  /\ outcome = "attached" => UNCHANGED mishaps
  /\ host' = IF outcome \in {"attached", "lost"}
             THEN [host EXCEPT !.seen = @ + 1, !.task = session.target] ELSE host
  /\ client' = [client EXCEPT !.attached = TRUE,
                              !.context = IF outcome = "attached" THEN host.seen + 1 ELSE @]
  /\ Turns(IF outcome = "attached" THEN [step |-> "replace"]
           ELSE IF outcome = "refused" /\ session.from # 0 THEN TakenBack
           ELSE [step |-> "failed"])
  /\ UNCHANGED <<controller, writer, spool, missed>>

\* The previous controller closes: its tasks are cancelled.
Replace ==
  /\ Up /\ session.step = "replace"
  /\ controller' = [c \in Controllers |->
       IF c = session.from THEN [open |-> FALSE] @@ controller[c] ELSE controller[c]]
  /\ writer' = NoWriter
  /\ Turns([step |-> "connect", from |-> 0])
  /\ UNCHANGED <<client, host, spool, missed, mishaps>>

Connect ==
  LET c == session.made + 1
  IN /\ Up /\ session.step = "connect" /\ c \in Controllers
     /\ controller' = [controller EXCEPT ![c] =
          [NoController EXCEPT !.task = session.target, !.attachment = client.context, !.open = TRUE]]
     /\ Turns([current |-> c, made |-> c, step |-> "reconcile"])
     /\ UNCHANGED <<client, host, writer, spool, missed, mishaps>>

ConnectFails ==
  /\ Up /\ session.step = "connect" /\ Mishap
  /\ Turns([step |-> "failed"])
  /\ UNCHANGED <<client, host, controller, writer, spool, missed>>

\* Variant: whatever the spool holds is replayed.
OwedAny(t) == spool
Owed(t) == {f \in spool : Owner(f) = t}

\* reconcile_captures: the spool of this task is posted, then acknowledged, until it is empty.
Replays ==
  /\ Up /\ session.step = "reconcile" /\ Owed(session.target) # {}
  /\ IF host.seen = controller[session.current].attachment
     THEN host' = Kept(session.current, Owed(session.target)) /\ Turns([step |-> "replayed"])
     ELSE UNCHANGED host /\ Turns([step |-> "failed"])
  /\ UNCHANGED <<client, controller, writer, spool, missed, mishaps>>

ReplayFails(kept) ==
  /\ Up /\ session.step = "reconcile" /\ Owed(session.target) # {} /\ Mishap
  /\ host' = IF kept THEN Kept(session.current, Owed(session.target)) ELSE host
  /\ Turns([step |-> "failed"])
  /\ UNCHANGED <<client, controller, writer, spool, missed>>

Replayed ==
  /\ Up /\ session.step = "replayed"
  /\ spool' = spool \ Owed(session.target)
  /\ Turns([step |-> "reconcile"])
  /\ UNCHANGED <<client, host, controller, writer, missed, mishaps>>

Ready ==
  /\ Up /\ session.step = "reconcile" /\ Owed(session.target) = {}
  /\ Turns([step |-> "none", ready |-> TRUE])
  /\ UNCHANGED <<client, host, controller, writer, spool, missed, mishaps>>

-----------------------------------------------------------------------------
(* The end of the process.                                                 *)

\* Ctrl-C, a worker that raised or a failed activation: the workers are cancelled and the
\* current controller closes.  It has two seconds to spool what it has and two to post it,
\* and goes on without.  A failed activation closed the previous one; an interrupted one
\* did not.
ProcessEnds ==
  /\ Up /\ \/ session.step = "failed" /\ UNCHANGED mishaps
           \/ session.step # "failed" /\ Mishap
  /\ LET c == IF session.step = "failed" /\ session.current = 0 THEN session.from ELSE session.current
         Last(kept, onDisk) ==
           /\ spool' = spool \cup onDisk
           /\ host' = Kept(c, kept)
           /\ controller' = [controller EXCEPT ![c] = [open |-> FALSE, spooled |-> onDisk] @@ @]
     IN IF c = 0 \/ ~Current(c)
        THEN /\ controller' = [d \in Controllers |-> IF d = c THEN [open |-> FALSE] @@ controller[d] ELSE controller[d]]
             /\ UNCHANGED <<spool, host>>
        ELSE \/ Last({}, controller[c].spooled)                       \* too slow, or refused
             \/ Last({}, controller[c].pending)
             \/ Last(controller[c].pending, controller[c].pending)    \* posted, and not yet acknowledged
  /\ session' = [session EXCEPT !.life = "down", !.current = 0, !.ready = FALSE]
  /\ writer' = NoWriter
  /\ UNCHANGED <<client, missed>>

Crash ==
  /\ Up /\ Mishap
  /\ session' = [session EXCEPT !.life = "crashed", !.current = 0, !.ready = FALSE]
  /\ writer' = NoWriter
  /\ UNCHANGED <<client, host, controller, spool, missed>>

\* Another process on the same disk.
Restart(t) ==
  /\ session.life \in {"down", "crashed"} /\ session.made < MaxControllers
  /\ session' = [life |-> "up", current |-> 0, ready |-> FALSE, step |-> "attach",
                 from |-> 0, target |-> t, made |-> session.made, before |-> session.made, popped |-> FALSE]
  /\ controller' = [c \in Controllers |-> [open |-> FALSE, pending |-> {}, spooled |-> {}] @@ controller[c]]
  /\ client' = [context |-> 0, epoch |-> 0, attached |-> TRUE]
  /\ UNCHANGED <<host, writer, spool, missed, mishaps>>

NativeNext ==
  \/ HearFragment \/ Misses \/ Spools \/ SpoolFails \/ Posts \/ Acknowledges
  \/ FlushEnds \/ AttachAsks \/ Replace \/ Connect \/ ConnectFails
  \/ Replays \/ Replayed \/ Ready \/ ProcessEnds \/ Crash
  \/ \E b \in BOOLEAN : PostFails(b) \/ ReplayFails(b)
  \/ \E c \in Controllers : WriterStarts(c)
  \/ \E t \in TalkTasks : Select(t) \/ Restart(t)
  \/ \E o \in {"attached", "lost", "refused", "failed"} : AttachAnswers(o)

NativeSpec == NativeInit /\ [][NativeNext]_nativeVars

-----------------------------------------------------------------------------
Heard == {f \in Fragments : f[2] <= controller[f[1]].heard}
Landed(f) == f \in host.ledger[Owner(f)]

NativeTypeOK ==
  /\ spool \subseteq Heard
  /\ session.current # 0 => controller[session.current].open
  /\ writer.of # 0 => controller[writer.of].open
  /\ \A c \in Controllers : controller[c].spooled \subseteq controller[c].pending

\* What the operator said in one task is kept in the transcript of that task and no other,
\* whichever process posts it and whatever was attached meanwhile.
LandsInItsTask ==
  \A t \in TalkTasks : \A f \in host.ledger[t] : Owner(f) = t

\* A fragment that was spooled stays on disk until the host has it; the writer, a replay, a
\* lost answer or a crash in between changes nothing.
SpooledIsSafe ==
  \A c \in Controllers : \A f \in controller[c].spooled : f \in spool \/ Landed(f)

\* While the process runs nothing that a current controller heard is gone: the host has it,
\* the disk has it, or an open controller still holds it.  Selecting another task drops
\* nothing of that, whether the switch goes through or is taken back.
NothingIsForgotten ==
  Up => \A f \in Heard \ missed : f[1] > session.before =>
    Landed(f) \/ f \in spool \/ (controller[f[1]].open /\ f \in controller[f[1]].pending)

\* What every state of the native surface keeps: a fragment lands in the task it was spoken
\* to, and what was spooled or heard is not forgotten.
NativeSafe == NativeTypeOK /\ LandsInItsTask /\ SpooledIsSafe /\ NothingIsForgotten

\* What the operator says while another task is selected is not dropped.  (Refuted: nobody is
\* current during the flush and the attachment, and receive leaves the event it has just
\* taken; the refusal that follows says the selected task is unchanged.)
SwitchMissesNothing == missed = {}

\* (Refuted: a process that is interrupted while it selects another task has no current
\* controller to close; what the previous one had not spooled is gone.)
OrderlyEndSaves ==
  session.life = "down" => \A f \in Heard : f[1] = session.from => Landed(f) \/ f \in spool
=============================================================================
