------------------------------ MODULE TaskEvents ------------------------------
(* The event log of the dashboard's tasks (talk_task_events.py): first the updates
   it tells, from a job's poll to the tab's speaker, then how it reads the event
   ring of a host.  The two share the table of rows and nothing of its contents:
   polled jobs and events of a ring are rows of different sources.             *)
EXTENDS Naturals, Sequences, FiniteSets, FiniteSetsExt, SequencesExt

----------------------------------------------------------------------------
(* Task updates on the dashboard, from the host's jobs to the tab's speaker:
   observe_poll and the speech half of TaskEvents in talk_task_events.py, with
   the routes that drive them (_project_job, speech, speech_receipt and
   update_preference in talk_dashboard_tasks.py).

   A poll reads a job's status from the host and saves it as a row of the event
   log in a transaction of its own, so a late reader saves an old status.  A row
   is news if it was seen to change while this tab was looking (live).  The tab
   claims one row at a time, tells the store before it hands the text to the
   provider (submitting), and reports what became of it by receipts, which are
   handled in order but may be lost; a claim nobody renews lapses.  Times are
   the host's own ordering of a job's updates (at); clocks are abstracted to
   the steps they allow: a claim may lapse and a deferred row become due again.   *)

CONSTANTS
    NewsJobs,       \* the host's jobs
    MaxPolls,       \* bound: requests that observe them at a time
    Wishes,         \* a subset of UPDATE_MODES
    LastUpdate,     \* bound: updates per job
    MaxClaims,      \* bound: speech attempts in all
    MaxTabs,        \* bound: generations of the tab
    MaxUpsets       \* bound: receipts and answers lost, reloads, changed preferences

ASSUME WishesAssumption == "important" \in Wishes /\ Wishes \subseteq {"important", "completion", "frequent"}
ASSUME LastAssumption == LastUpdate \in Nat \ {0} /\ MaxClaims \in Nat /\ MaxTabs \in Nat \ {0}
ASSUME NewsJobsAssumption == IsFiniteSet(NewsJobs)

VARIABLES
    jobs,       \* job -> [state, at] at the host
    polls,      \* the statuses that requests have read and not yet saved
    news,       \* task_events, by idx: [job, state, at, live, gen]
    observed,   \* job -> job_observations: the last state seen by this tab
    wish,       \* task_preferences.update_mode
    tabGen,     \* the tab's generation
    speech,     \* idx -> task_event_speech: [state, claim, gen, facts]
    claims,     \* attempts made so far
    tab,        \* the tab's presentation: [at, idx, claim, replay]
    mail,       \* its receipts on their way: [idx, claim, gen, state]
    said,       \* idx -> how often its text went to the provider unasked
    dispatched, \* the claims whose text went to the provider
    putBack,    \* the rows the tab believes it has given back
    replayed,   \* the rows that were claimed again on request
    upsets      \* incidents so far

newsVars == <<jobs, polls, news, observed, wish>>
speakVars == <<tabGen, speech, claims, tab, mail, said, dispatched, putBack, replayed>>
taskVars == <<newsVars, speakVars, upsets>>

Terminal == {"completed"}
JobStates == {"running", "waiting"} \cup Terminal
ActiveSpeech == {"queued", "submitting", "sent", "playback_started"}
Unspoken == [state |-> "none", claim |-> 0, gen |-> 0, facts |-> {}]
NoShow == [at |-> "idle", idx |-> 0, claim |-> 0, replay |-> FALSE]
MaxNews == LastUpdate * Cardinality(NewsJobs)
Rows == 1..MaxNews

TaskInit ==
    /\ jobs = [j \in NewsJobs |-> [state |-> "running", at |-> 1]]
    /\ polls = {}
    /\ news = <<>> /\ observed = [j \in NewsJobs |-> "none"]
    /\ wish = "important" /\ tabGen = 1
    /\ speech = [i \in Rows |-> Unspoken] /\ claims = 0 /\ tab = NoShow /\ mail = <<>>
    /\ said = [i \in Rows |-> 0] /\ dispatched = {} /\ putBack = {} /\ replayed = {} /\ upsets = 0

----------------------------------------------------------------------------
(* The host, and the polls                                                 *)

JobMoves(j, s) ==
    /\ jobs[j].state \notin Terminal /\ jobs[j].at < LastUpdate
    /\ jobs' = [jobs EXCEPT ![j] = [state |-> s, at |-> @.at + 1]]
    /\ UNCHANGED <<polls, news, observed, wish, speakVars, upsets>>

\* Bound: polls race each other until the tab speaks, and one by one what it says.
Racing == IF tab.at = "idle" /\ claims = 0 THEN MaxPolls ELSE 1

PollReads(j) ==
    /\ Cardinality(polls) < Racing
    /\ polls' = polls \cup {[job |-> j, state |-> jobs[j].state, at |-> jobs[j].at]}
    /\ UNCHANGED <<jobs, news, observed, wish, speakVars, upsets>>

Of(j) == {i \in DOMAIN news : news[i].job = j}
Newest(j) == IF Of(j) = {} THEN 0 ELSE Max(Of(j))

\* Variant: whatever a poll brings is appended.
AcceptedAny(seen) == \A i \in Of(seen.job) : news[i].at # seen.at \/ news[i].state # seen.state

(* observe_poll: an ended job stays ended, and a status older than the last
   one saved, or as old but different, is not news.                          *)
Accepted(seen) ==
    LET last == Newest(seen.job)
    IN last # 0 => (seen.at > news[last].at /\ (news[last].state \in Terminal => seen.state \in Terminal))

(* What this tab saw change is live; what it finds on arrival is not, unless
   the job was started by it and has already ended.                          *)
SeenLive(seen) ==
    \/ observed[seen.job] # "none" /\ observed[seen.job] # seen.state
    \/ observed[seen.job] = "none" /\ seen.state \in Terminal /\ tabGen = 1

ProjectJob(seen) ==
    /\ news' = IF Accepted(seen)
               THEN Append(news, [job |-> seen.job, state |-> seen.state, at |-> seen.at,
                                  live |-> SeenLive(seen), gen |-> tabGen])
               ELSE news
    /\ observed' = [observed EXCEPT ![seen.job] = seen.state]
    /\ polls' = polls \ {seen}
    /\ UNCHANGED <<jobs, wish, speakVars, upsets>>

UpdatePreference(mode) ==
    /\ mode # wish /\ upsets < MaxUpsets
    /\ wish' = mode /\ upsets' = upsets + 1
    /\ UNCHANGED <<jobs, polls, news, observed, speakVars>>

----------------------------------------------------------------------------
(* Which rows may be spoken unasked                                        *)

Eligible(state) ==
    \/ state \in Terminal
    \/ state = "waiting" /\ wish # "completion"
    \/ state = "running" /\ wish = "frequent"

(* The rows of a job that say the same as its newest, back to the last change. *)
SameNews(j) == {i \in Of(j) : \A k \in Of(j) : k >= i => news[k].state = news[Newest(j)].state}

Touched(S) == {i \in S : speech[i].state # "none"}
LiveOf(S) == {i \in S : news[i].live}

\* Variant: the newest row stands for itself alone.
NoticeNewest(j) == Newest(j)

(* _latest_notices: one row speaks for them: the one last attempted, else the
   newest live one, else the newest.                                        *)
Notice(j) ==
    LET S == SameNews(j)
    IN IF Touched(S) # {} THEN CHOOSE i \in Touched(S) : \A k \in Touched(S) : speech[k].claim <= speech[i].claim
       ELSE IF LiveOf(S) # {} THEN Max(LiveOf(S)) ELSE Newest(j)

\* Variant: an update whose outcome is unknown is tried again.
RetryableAny(i) == speech[i].state \in {"none", "due", "unknown"}

Retryable(i) == speech[i].state \in {"none", "due"}

Candidates ==
    {i \in DOMAIN news :
        /\ i = Notice(news[i].job)
        /\ news[i].live /\ news[i].gen = tabGen
        /\ Retryable(i) /\ Eligible(news[i].state)}

Replayable == {i \in DOMAIN news : news[i].state \in Terminal /\ speech[i].state \notin ActiveSpeech}

(* What may be claimed: an announcement, or an ended job's update on request. *)
Speakable(i, replay) == IF replay THEN i \in Replayable ELSE i \in Candidates

----------------------------------------------------------------------------
(* speech: look at the row, ask the host whether it is still so, look again
   and claim it, all but the asking in transactions.                         *)

SpeechAsks(i, replay) ==
    /\ tab.at = "idle" /\ Speakable(i, replay) /\ Cardinality(polls) <= 1
    /\ jobs[news[i].job].state = news[i].state
    /\ tab' = [at |-> "asking", idx |-> i, claim |-> 0, replay |-> replay]
    /\ UNCHANGED <<newsVars, tabGen, speech, claims, mail, said, dispatched, putBack, replayed, upsets>>

\* Variant: two rows may be claimed at a time.
SpeakerFreeAlways == TRUE

SpeakerFree == \A i \in Rows : speech[i].state \notin ActiveSpeech

QueueSpeech ==
    /\ tab.at = "asking" /\ claims < MaxClaims
    /\ IF Speakable(tab.idx, tab.replay) /\ SpeakerFree
       THEN /\ claims' = claims + 1
            /\ replayed' = IF tab.replay THEN replayed \cup {tab.idx} ELSE replayed
            /\ speech' = [speech EXCEPT ![tab.idx] = [state |-> "queued", claim |-> claims + 1, gen |-> tabGen, facts |-> {}]]
            /\ \/ tab' = [tab EXCEPT !.at = "claimed", !.claim = claims + 1] /\ UNCHANGED upsets
               \/ tab' = NoShow /\ upsets < MaxUpsets /\ upsets' = upsets + 1
       ELSE tab' = NoShow /\ UNCHANGED <<claims, speech, replayed, upsets>>
    /\ UNCHANGED <<newsVars, tabGen, mail, said, dispatched, putBack>>

----------------------------------------------------------------------------
(* The tab (external): it gives a claim back when it is no longer idle, tells
   the store before it submits, and only then submits.                       *)

Receipt(state) == [idx |-> tab.idx, claim |-> tab.claim, gen |-> tabGen, state |-> state]

TabGivesBack ==
    /\ tab.at \in {"claimed", "cleared"}
    /\ mail' = Append(mail, Receipt("deferred"))
    /\ putBack' = putBack \cup {tab.idx}
    /\ tab' = NoShow
    /\ UNCHANGED <<newsVars, tabGen, speech, claims, said, dispatched, replayed, upsets>>

TabSubmits ==
    /\ tab.at = "claimed"
    /\ mail' = Append(mail, Receipt("submitting"))
    /\ tab' = [tab EXCEPT !.at = "telling"]
    /\ UNCHANGED <<newsVars, tabGen, speech, claims, said, dispatched, putBack, replayed, upsets>>

TabDispatches ==
    /\ tab.at = "cleared"
    /\ said' = [said EXCEPT ![tab.idx] = IF tab.replay THEN @ ELSE @ + 1]
    /\ dispatched' = dispatched \cup {tab.claim}
    /\ mail' = Append(mail, Receipt("sent"))
    /\ tab' = [tab EXCEPT !.at = "speaking"]
    /\ UNCHANGED <<newsVars, tabGen, speech, claims, putBack, replayed, upsets>>

TabPlays ==
    /\ tab.at = "speaking"
    /\ mail' = Append(mail, Receipt("playback_started"))
    /\ tab' = [tab EXCEPT !.at = "playing"]
    /\ UNCHANGED <<newsVars, tabGen, speech, claims, said, dispatched, putBack, replayed, upsets>>

TabFinishes(state) ==
    /\ \/ tab.at = "speaking" /\ state = "unknown"
       \/ tab.at = "playing" /\ state \in {"interrupted", "playback_acknowledged"}
    /\ mail' = Append(mail, Receipt(state))
    /\ tab' = NoShow
    /\ UNCHANGED <<newsVars, tabGen, speech, claims, said, dispatched, putBack, replayed, upsets>>

(* A reload: the store marks what the last generation left open, and refuses
   the receipts of that generation from now on.                              *)
TabReloads ==
    /\ tabGen < MaxTabs /\ upsets < MaxUpsets /\ upsets' = upsets + 1
    /\ tabGen' = tabGen + 1 /\ tab' = NoShow /\ mail' = <<>>
    /\ observed' = [j \in NewsJobs |-> "none"]
    /\ speech' = [i \in Rows |-> IF speech[i].state \in ActiveSpeech THEN [speech[i] EXCEPT !.state = "unknown"] ELSE speech[i]]
    /\ UNCHANGED <<jobs, polls, news, wish, claims, said, dispatched, putBack, replayed>>

----------------------------------------------------------------------------
(* speech_receipt                                                          *)

Attempt(r) == speech[r.idx].claim = r.claim /\ speech[r.idx].gen = r.gen /\ r.gen = tabGen

Allowed == [queued |-> {"submitting", "unknown", "interrupted"},
            submitting |-> {"sent", "unknown", "interrupted"},
            sent |-> {"playback_started", "unknown", "interrupted"},
            playback_started |-> {"playback_acknowledged", "unknown", "interrupted"},
            unknown |-> {"interrupted"}]

MovesOn(from, to) == from \in DOMAIN Allowed /\ to \in Allowed[from]

FactOf(state) == IF state \in {"queued", "deferred", "due", "none"} THEN {} ELSE {state}

(* defer_speech takes a queued claim only; acknowledge_speech moves along the
   table, takes what it knows already as read, and lets a late "sent" join
   what an attempt of unknown outcome is known to have done.                 *)
Accepts(r) ==
    LET row == speech[r.idx]
    IN IF r.state = "deferred" THEN row.state = "queued"
       ELSE \/ r.state \in row.facts \cup {row.state}
            \/ r.state = "sent" /\ row.state \in {"interrupted", "unknown"} /\ "submitting" \in row.facts
            \/ MovesOn(row.state, r.state)

Taken(r) ==
    LET row == speech[r.idx]
    IN IF r.state \in row.facts \cup {row.state} THEN row
       ELSE [row EXCEPT !.state = IF r.state = "sent" /\ @ \in {"interrupted", "unknown"} THEN @ ELSE r.state,
                        !.facts = @ \cup FactOf(r.state)]

(* What the tab makes of an answer: an accepted "submitting" clears the way, a
   refused or lost one gives the claim back, any other failure ends the show.  *)
TabHears(r, taken) ==
    IF r.claim # tab.claim THEN UNCHANGED <<tab, putBack>> /\ mail' = Tail(mail)
    ELSE CASE tab.at = "telling" /\ taken -> tab' = [tab EXCEPT !.at = "cleared"] /\ mail' = Tail(mail) /\ UNCHANGED putBack
           [] tab.at = "telling" /\ ~taken -> tab' = NoShow /\ mail' = Append(Tail(mail), Receipt("deferred")) /\ UNCHANGED putBack
           [] tab.at \in {"speaking", "playing"} /\ ~taken -> tab' = NoShow /\ mail' = Append(Tail(mail), Receipt("unknown")) /\ UNCHANGED putBack
           [] OTHER -> UNCHANGED <<tab, putBack>> /\ mail' = Tail(mail)

ReceiptArrives ==
    /\ mail # <<>>
    /\ LET r == Head(mail)
           taken == Attempt(r) /\ Accepts(r)
       IN /\ speech' = IF taken THEN [speech EXCEPT ![r.idx] = Taken(r)] ELSE speech
          /\ \/ TabHears(r, taken) /\ UNCHANGED upsets
             \/ taken /\ upsets < MaxUpsets /\ upsets' = upsets + 1 /\ TabHears(r, FALSE)
    /\ UNCHANGED <<newsVars, tabGen, claims, said, dispatched, replayed>>

ReceiptIsLost ==
    /\ mail # <<>> /\ upsets < MaxUpsets /\ upsets' = upsets + 1
    /\ TabHears(Head(mail), FALSE)
    /\ UNCHANGED <<newsVars, tabGen, speech, claims, said, dispatched, replayed>>

(* _expire_speech: a claim nobody renewed goes back if nothing was submitted. *)
ClaimLapses(i) ==
    /\ speech[i].state \in ActiveSpeech
    /\ speech' = [speech EXCEPT ![i].state = IF @ = "queued" THEN "due" ELSE "unknown"]
    /\ UNCHANGED <<newsVars, tabGen, claims, tab, mail, said, dispatched, putBack, replayed, upsets>>

RetryIsDue(i) ==
    /\ speech[i].state = "deferred"
    /\ speech' = [speech EXCEPT ![i].state = "due"]
    /\ UNCHANGED <<newsVars, tabGen, claims, tab, mail, said, dispatched, putBack, replayed, upsets>>

TaskNext ==
    \/ \E j \in NewsJobs : (\E s \in JobStates : JobMoves(j, s)) \/ PollReads(j)
    \/ \E seen \in polls : ProjectJob(seen)
    \/ \E mode \in Wishes : UpdatePreference(mode)
    \/ \E i \in DOMAIN news, replay \in BOOLEAN : SpeechAsks(i, replay)
    \/ QueueSpeech \/ TabGivesBack \/ TabSubmits \/ TabDispatches \/ TabPlays
    \/ \E state \in {"unknown", "interrupted", "playback_acknowledged"} : TabFinishes(state)
    \/ TabReloads \/ ReceiptArrives \/ ReceiptIsLost
    \/ \E i \in Rows : ClaimLapses(i) \/ RetryIsDue(i)

TaskSpec == TaskInit /\ [][TaskNext]_taskVars

----------------------------------------------------------------------------
TaskTypeOK ==
    /\ Len(news) <= MaxNews /\ claims \in 0..MaxClaims /\ tabGen \in 1..MaxTabs
    /\ tab.at \in {"idle", "asking", "claimed", "telling", "cleared", "speaking", "playing"}

(* Two updates are never spoken over each other: one claim is open at a time. *)
OneVoice == Cardinality({i \in Rows : speech[i].state \in ActiveSpeech}) <= 1

(* The same news is told once: of a job's consecutive rows that say the same,
   at most one is ever handed to the provider unasked, and only one time,
   whatever receipts are lost, claims lapse or requests race.  A row the user
   asked to hear again is excepted, see ReplayPromotesNothing.                *)
ToldOnce ==
    /\ \A i \in Rows : said[i] <= 1 \/ i \in replayed
    /\ \A i, k \in DOMAIN news :
          i < k /\ news[i].job = news[k].job /\ said[i] > 0 /\ said[k] > 0 =>
              \E m \in i..k : news[m].job = news[i].job /\ news[m].state # news[i].state

(* The log follows the job: a late poll never puts an older status after a
   newer one, nor anything after the end.                                    *)
LogFollowsJob ==
    \A i, k \in DOMAIN news : i < k /\ news[i].job = news[k].job =>
        news[i].at < news[k].at /\ news[i].state \notin Terminal

(* A row's record is about its own last attempt: what it says was submitted or
   played went to the provider under that claim, however late a receipt is.   *)
RecordIsTrue == \A i \in Rows : speech[i].facts \cap {"sent", "playback_started", "playback_acknowledged"} # {} => speech[i].claim \in dispatched

\* What every state of the task updates keeps: one row speaks at a time, is told once, and
\* row and log say what happened.
TaskSafe == RecordIsTrue /\ TaskTypeOK /\ OneVoice /\ ToldOnce /\ LogFollowsJob

(* A replay makes no update eligible again.  (Refuted with MaxClaims = 3: the
   claim of a replay that is given back or lapses while it is queued leaves the
   row "deferred", as if it had never been told, and it is told unasked again.) *)
ReplayPromotesNothing == \A i \in Rows : said[i] <= 1

(* An update the tab gave back is not counted as told.  (Refuted: a claim given
   back after "submitting" was accepted is refused by the store, stays open until
   it lapses, and is then of unknown outcome for good.)                        *)
GivenBackIsOffered == mail = <<>> => \A i \in putBack : said[i] = 0 /\ tabGen = 1 => speech[i].state # "unknown"

----------------------------------------------------------------------------
(* The event log's reading of a host's event ring: open_source, observe_rpc,
   _append and page of TaskEvents (talk_task_events.py), rpc_observations
   (talk_task_sources.py).

   The host numbers its events from 1 within an epoch, keeps the last few of
   them, and starts over in a new epoch after a restart.  Whoever reads the ring
   fetches pages and saves them, each in one transaction, in any order, twice or
   never.  Only some kinds of event are kept as rows; the others merely count as
   seen while their own page is saved.  The log keeps a bounded number of rows.  *)

CONSTANTS
    Epochs,         \* the host's epochs, 1..n in order
    Ring,           \* how many events the host keeps
    MaxRows,        \* max_events
    LastSeq,        \* bound: events per epoch
    MaxFetched,     \* bound: pages fetched and not yet saved or forgotten
    MaxOpened       \* bound: how often the source is opened

ASSUME RingAssumption == Ring \in Nat \ {0} /\ MaxRows \in Nat \ {0} /\ LastSeq \in Nat
ASSUME EpochsAssumption == Epochs \subseteq Nat \ {0} /\ 1 \in Epochs

VARIABLES
    ring,       \* the host: [epoch, last]
    kinds,      \* the numbers whose kind is kept as a row
    source,     \* task_event_sources: [epoch, revision, cursor, latest, gap]
    opened,     \* next_generation: leases handed out
    rows,       \* task_events, oldest first: [epoch, seq]
    fetched,    \* the pages on their way: [revision, epoch, since, latest]
    recorded    \* what was ever kept: epoch -> seq -> how often, 2 for more

streamVars == <<ring, kinds, source, opened, rows, fetched, recorded>>

Seqs == 1..LastSeq
NoSource == [epoch |-> 0, revision |-> 0, cursor |-> 0, latest |-> 0, gap |-> "none"]

StreamInit ==
    /\ ring = [epoch |-> 1, last |-> 0] /\ kinds \in SUBSET Seqs
    /\ source = NoSource /\ opened = 0 /\ rows = <<>> /\ fetched = {}
    /\ recorded = [e \in Epochs |-> [n \in Seqs |-> 0]]

HostEmits ==
    /\ ring.last < LastSeq
    /\ ring' = [ring EXCEPT !.last = @ + 1]
    /\ UNCHANGED <<kinds, source, opened, rows, fetched, recorded>>

HostRestarts ==
    /\ ring.epoch + 1 \in Epochs
    /\ ring' = [epoch |-> ring.epoch + 1, last |-> 0]
    /\ UNCHANGED <<kinds, source, opened, rows, fetched, recorded>>

(* open_source, with the previous lease if there is one: a new revision; the
   place reached is kept in the same epoch and lost with another.            *)
OpenSource ==
    /\ opened < MaxOpened /\ source.epoch # ring.epoch
    /\ opened' = opened + 1
    /\ source' = [epoch |-> ring.epoch, revision |-> opened + 1, cursor |-> 0, latest |-> 0,
                  gap |-> IF source.epoch = 0 THEN "none" ELSE "epoch_reset"]
    /\ UNCHANGED <<ring, kinds, rows, fetched, recorded>>

ReopenSource ==
    /\ opened < MaxOpened /\ source.epoch = ring.epoch
    /\ opened' = opened + 1
    /\ source' = [source EXCEPT !.revision = opened + 1]
    /\ UNCHANGED <<ring, kinds, rows, fetched, recorded>>

(* The reader asks for what came after a number of its choosing.           *)
Fetches(since) ==
    /\ source.epoch = ring.epoch /\ Cardinality(fetched) < MaxFetched /\ since < ring.last
    /\ fetched' = fetched \cup {[revision |-> source.revision, epoch |-> ring.epoch, since |-> since, latest |-> ring.last]}
    /\ UNCHANGED <<ring, kinds, source, opened, rows, recorded>>

Dropped(page) == IF page.latest > Ring THEN page.latest - Ring ELSE 0
Frames(page) == {n \in Seqs : n > page.since /\ n > Dropped(page) /\ n <= page.latest}
Truncated(page) == page.since < Dropped(page)

Kept(n) == \E i \in DOMAIN rows : rows[i] = [epoch |-> source.epoch, seq |-> n]

(* The frames a page adds: those beyond the cursor that are not kept already. *)
NewFrames(page) == {n \in Frames(page) \cap kinds : n > source.cursor /\ ~Kept(n)}

\* Variant: whatever the page names is taken as seen, the gap before it too.
AdvancedAny(page) == Max({source.cursor} \cup Frames(page))

\* Variant: the cursor is where the page ends.
AdvancedToPage(page) == Max({0} \cup Frames(page))

(* The cursor moves over the numbers this page names or the log holds.     *)
Seen(page) == Frames(page) \cup {n \in Seqs : n > source.cursor /\ Kept(n)}
Advanced(page) == Max({c \in source.cursor..LastSeq : \A n \in source.cursor + 1..c : n \in Seen(page)})

\* Variant: once everything is read, the gap is forgotten.
GapForgotten(page, cursor, latest) == IF Truncated(page) THEN "truncated" ELSE IF cursor < latest THEN "missing_sequence" ELSE "none"

Gap(page, cursor, latest) ==
    CASE Truncated(page) -> "truncated"
      [] ~Truncated(page) /\ cursor < latest /\ source.gap \in {"none", "missing_sequence"} -> "missing_sequence"
      [] ~Truncated(page) /\ cursor = latest /\ source.gap = "missing_sequence" -> "none"
      [] OTHER -> source.gap

\* Variant: a page of an older lease is saved all the same.
CurrentAny(page) == TRUE

Current(page) == page.revision = source.revision /\ page.epoch = source.epoch

Saved(new) ==
    LET all == rows \o [i \in 1..Cardinality(new) |->
                  [epoch |-> source.epoch, seq |-> CHOOSE n \in new : Cardinality({m \in new : m <= n}) = i]]
        over == IF Len(all) > MaxRows THEN Len(all) - MaxRows ELSE 0
    IN rows' = SubSeq(all, over + 1, Len(all))

ObserveRpc(page) ==
    /\ Current(page)
    /\ LET new == NewFrames(page)
           latest == Max({source.latest, page.latest})
           cursor == IF Truncated(page) THEN latest ELSE Advanced(page)
       IN /\ Saved(new)
          /\ recorded' = [recorded EXCEPT ![source.epoch] = [n \in Seqs |-> IF n \in new THEN Min({@[n] + 1, 2}) ELSE @[n]]]
          /\ source' = [source EXCEPT !.cursor = cursor, !.latest = latest, !.gap = Gap(page, Advanced(page), latest)]
    /\ UNCHANGED <<ring, kinds, opened, fetched>>

PageIsForgotten(page) ==
    /\ fetched' = fetched \ {page}
    /\ UNCHANGED <<ring, kinds, source, opened, rows, recorded>>

StreamNext ==
    \/ HostEmits \/ HostRestarts \/ OpenSource \/ ReopenSource
    \/ \E since \in 0..LastSeq : Fetches(since)
    \/ \E page \in fetched : ObserveRpc(page) \/ PageIsForgotten(page)

StreamSpec == StreamInit /\ [][StreamNext]_streamVars

----------------------------------------------------------------------------
StreamTypeOK ==
    /\ source.cursor \in 0..source.latest /\ Len(rows) <= MaxRows
    /\ source.gap \in {"none", "missing_sequence", "truncated", "epoch_reset"}

(* A source that reports no gap has missed nothing: whatever was lost, doubled
   or late, every event of its epoch up to the newest it knows of was recorded. *)
NoGapNoLoss ==
    source.gap = "none" /\ source.epoch # 0 =>
        \A n \in kinds : n <= source.latest => recorded[source.epoch][n] > 0

(* Nothing is kept twice at once, nothing of an epoch that is over comes after
   the epoch that replaced it, and no row is counted to an epoch that never
   had its event.                                                            *)
RowsInOrder ==
    /\ \A i, k \in DOMAIN rows : i < k => rows[i] # rows[k] /\ rows[i].epoch <= rows[k].epoch
    /\ \A i \in DOMAIN rows : rows[i].epoch = ring.epoch => rows[i].seq <= ring.last

\* What every state of the event log keeps: a gap is flagged, and rows stand in order.
StreamSafe == StreamTypeOK /\ NoGapNoLoss /\ RowsInOrder

(* The place reached never moves back within an epoch.                     *)
CursorHolds == [][ source'.epoch = source.epoch => source'.cursor >= source.cursor /\ source'.latest >= source.latest ]_streamVars

(* An event is recorded once.  (Refuted: a row above a gap that was evicted is
   recorded again when its page is read again.)                              *)
RecordedOnce == \A e \in Epochs, n \in Seqs : recorded[e][n] <= 1

=============================================================================
