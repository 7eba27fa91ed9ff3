------------------------------ MODULE RunFeed ------------------------------
(***************************************************************************)
(* One key's run ledger as its followers see it (internal/run/store.go):   *)
(* state.json, the numbered events every commit appends, and Subscribe,    *)
(* which replays from a cursor or starts over.  A commit writes the whole  *)
(* snapshot, syncs, and only then publishes; a write that fails leaves the *)
(* key unwritable until the host restarts, with the old snapshot on disk   *)
(* or, when only the directory sync failed, the new.  Events are cut to    *)
(* the newest EventCap, a follower that falls ChanCap behind is cut off,   *)
(* clearing the stored runs starts a new epoch, and a restart fails        *)
(* whatever was live.                                                      *)
(***************************************************************************)
EXTENDS Naturals, Sequences, FiniteSets

CONSTANTS
    Ids,       \* run ids, each created once
    Followers,  \* clients of GET /runs/events
    EventCap,   \* events a snapshot keeps (256)
    ChanCap,    \* events a follower may be behind (32)
    MaxSubs,    \* followers a key may have at once (2)
    MaxEpochs,  \* bound on the epochs of a key
    MaxSeq      \* bound on the events of an epoch that change no state

ASSUME FeedAssumption == {EventCap, ChanCap, MaxSubs, MaxEpochs} \subseteq Nat \ {0} /\ MaxSeq \in Nat

VARIABLES
    disk,     \* state.json; epoch 0 while there is none
    ledger,   \* the snapshot in memory
    unwritable,   \* the key's store refuses everything until a restart
    loaded,   \* the key was loaded (and recovered) since the restart
    feed,     \* each follower: subscribed, cursor, channel, what it shows
    created   \* history: ids used up

feedVars == <<disk, ledger, unwritable, loaded, feed, created>>

FeedTerminal(s) == s \in {"done", "failed"}

FeedInit ==
    /\ disk = [epoch |-> 0, seq |-> 0, runs |-> <<>>, events |-> <<>>]
    /\ ledger = [disk EXCEPT !.epoch = 1]
    /\ unwritable = FALSE
    /\ loaded = TRUE
    /\ feed = [f \in Followers |-> [on |-> FALSE, epoch |-> 0, seq |-> 0, chan |-> <<>>, shows |-> <<>>]]
    /\ created = {}

Set(runs, r, s) == [x \in DOMAIN runs \cup {r} |-> IF x = r THEN s ELSE runs[x]]
Newest(es) == IF Len(es) > EventCap THEN SubSeq(es, Len(es) - EventCap + 1, Len(es)) ELSE es

\* commitFor: number the event, append it, keep the newest.
Numbered(v, r, s) ==
    LET e == [n |-> v.seq + 1, run |-> r, state |-> s]
    IN  [v EXCEPT !.seq = @ + 1, !.runs = Set(@, r, s), !.events = Newest(Append(@, e))]

\* Mutant: a follower with no room misses the event but stays subscribed.
PublishedLossy(e) ==
    [f \in Followers |->
       IF feed[f].on /\ Len(feed[f].chan) < ChanCap THEN [feed[f] EXCEPT !.chan = Append(@, e)] ELSE feed[f]]

\* publish: to every channel with room; the others are closed and dropped.
Published(e) ==
    [f \in Followers |->
       IF ~feed[f].on THEN feed[f]
       ELSE IF Len(feed[f].chan) < ChanCap THEN [feed[f] EXCEPT !.chan = Append(@, e)]
       ELSE [feed[f] EXCEPT !.on = FALSE]]

\* Mutant: followers are told before the write.
CommitAfterTelling(v, told) ==
    /\ feed' = told
    /\ \/ disk' = v /\ ledger' = v /\ unwritable' = FALSE
       \/ unwritable' = TRUE /\ UNCHANGED <<disk, ledger>>

\* The write: done and published, or refused with the key unwritable and either snapshot on disk.
CommitWrites(v, told) ==
    \/ /\ disk' = v /\ ledger' = v /\ unwritable' = FALSE
       /\ feed' = told
    \/ /\ unwritable' = TRUE /\ disk' \in {disk, v}
       /\ UNCHANGED <<ledger, feed>>

Tells(v, r) == CommitWrites(v, Published([kind |-> "event", epoch |-> v.epoch, n |-> v.seq, run |-> r, state |-> v.runs[r]]))

\* A lifecycle change of one run, and the event that tells of it.  When the row does not
\* fit, the run is committed as failed, and old events make room for it.
Commits(r, s) ==
    \/ Tells(Numbered(ledger, r, s), r)
    \/ \E k \in 0 .. EventCap :
         Tells([Numbered(ledger, r, "failed") EXCEPT !.events = SubSeq(@, k + 1, Len(@))], r)

Ready == loaded /\ ~unwritable

\* createBatch: all rows of a batch are committed with one event, for the first.
CreateBatch ==
    /\ Ready
    /\ \E r \in Ids \ created, S \in SUBSET (Ids \ created) :
         LET rows == S \cup {r}
             v0 == [ledger EXCEPT !.runs = [x \in DOMAIN @ \cup rows |-> IF x \in rows THEN "queued" ELSE @[x]]]
             v == Numbered(v0, r, "queued")
         IN  /\ Cardinality(rows) <= 2
             /\ Tells(v, r)
             /\ created' = created \cup rows
    /\ UNCHANGED loaded

\* change: start, finish, fail, cancel; a step of a run commits without changing its state, and
\* so does the loss of a stored image, which may befall a run that has ended.
Change(r) ==
    /\ Ready /\ r \in DOMAIN ledger.runs
    /\ \/ /\ ledger.seq < MaxSeq /\ Tells(Numbered(ledger, r, ledger.runs[r]), r)
       \/ ledger.runs[r] = "queued" /\ Commits(r, "running")
       \/ ledger.runs[r] = "running" /\ (Commits(r, "done") \/ Commits(r, "failed"))
    /\ UNCHANGED <<loaded, created>>

\* Sweep: an expired terminal run is deleted, and nobody is told.
ExpireRun(r) ==
    /\ Ready /\ r \in DOMAIN ledger.runs /\ FeedTerminal(ledger.runs[r])
    /\ CommitWrites([ledger EXCEPT !.runs = [x \in DOMAIN @ \ {r} |-> @[x]]], feed)
    /\ UNCHANGED <<loaded, created>>

\* ClearEpoch: delete what has ended, start a new epoch, tell everybody to start over.
ClearEpoch ==
    LET left == {r \in DOMAIN ledger.runs : ~FeedTerminal(ledger.runs[r])}
        v == [epoch |-> ledger.epoch + 1, seq |-> 0, runs |-> [r \in left |-> ledger.runs[r]], events |-> <<>>]
    IN  /\ Ready /\ left # DOMAIN ledger.runs /\ ledger.epoch < MaxEpochs
        /\ CommitWrites(v, Published([kind |-> "reset", epoch |-> v.epoch, n |-> 0, runs |-> v.runs]))
        /\ UNCHANGED <<loaded, created>>

----------------------------------------------------------------------------
(* Followers. *)

\* The entries of es at the places S, in their order.
Selected(es, S) ==
    [i \in 1 .. Cardinality(S) |-> es[CHOOSE j \in S : Cardinality({k \in S : k <= j}) = i]]

\* What Subscribe replays for a cursor: everything after it, or a reset when the cursor is of
\* another epoch (or none) or older than what is kept.
Replay(f) ==
    LET v == ledger
        later == Selected(v.events, {i \in 1 .. Len(v.events) : v.events[i].n > feed[f].seq})
    IN  IF feed[f].epoch # v.epoch \/ feed[f].seq < v.seq - Len(v.events)
        THEN <<[kind |-> "reset", epoch |-> v.epoch, n |-> v.seq, runs |-> v.runs]>>
        ELSE [i \in 1 .. Len(later) |->
                [kind |-> "event", epoch |-> v.epoch, n |-> later[i].n, run |-> later[i].run, state |-> later[i].state]]

\* Subscribe: the replay and the registration are one step under the store's lock.  The
\* replayed events are written before the channel is read, so they stand in front of it.
Subscribe(f) ==
    /\ Ready /\ ~feed[f].on /\ feed[f].chan = <<>>
    /\ Cardinality({g \in Followers : feed[g].on}) < MaxSubs
    /\ ~(feed[f].epoch = ledger.epoch /\ feed[f].seq > ledger.seq)
    /\ feed' = [feed EXCEPT ![f].on = TRUE, ![f].chan = Replay(f)]
    /\ UNCHANGED <<disk, ledger, unwritable, loaded, created>>

\* The follower takes the next event; a channel that was closed still gives what it holds.
Receive(f) ==
    LET e == Head(feed[f].chan)
    IN  /\ feed[f].chan # <<>>
        /\ feed' = [feed EXCEPT ![f].chan = Tail(@), ![f].epoch = e.epoch, ![f].seq = e.n,
                                ![f].shows = IF e.kind = "reset" THEN e.runs ELSE Set(@, e.run, e.state)]
        /\ UNCHANGED <<disk, ledger, unwritable, loaded, created>>

\* The connection drops; what was in flight is lost with it.
Disconnect(f) ==
    /\ feed[f].on
    /\ feed' = [feed EXCEPT ![f].on = FALSE, ![f].chan = <<>>]
    /\ UNCHANGED <<disk, ledger, unwritable, loaded, created>>

----------------------------------------------------------------------------
(* Reopen. *)

\* A key that was never written starts over in an epoch of its own.
Reopen ==
    /\ IF disk.epoch = 0 THEN ledger.epoch < MaxEpochs /\ ledger' = [disk EXCEPT !.epoch = ledger.epoch + 1]
       ELSE ledger' = disk
    /\ unwritable' = FALSE
    /\ loaded' = FALSE
    /\ feed' = [f \in Followers |-> [feed[f] EXCEPT !.on = FALSE, !.chan = <<>>]]
    /\ UNCHANGED <<disk, created>>

\* load and recoverKey: each live run is committed as failed; a failing write breaks the key.
Recover ==
    /\ ~loaded /\ ~unwritable
    /\ LET live == {r \in DOMAIN ledger.runs : ~FeedTerminal(ledger.runs[r])}
       IN  IF live = {} THEN loaded' = TRUE /\ UNCHANGED <<disk, ledger, unwritable, feed>>
           ELSE \E r \in live :
                  /\ loaded' = FALSE
                  /\ CommitWrites(Numbered(ledger, r, "failed"), feed)
    /\ UNCHANGED created

FeedNext ==
    \/ CreateBatch \/ ClearEpoch \/ Reopen \/ Recover
    \/ \E r \in Ids : Change(r) \/ ExpireRun(r)
    \/ \E f \in Followers : Subscribe(f) \/ Receive(f) \/ Disconnect(f)

FeedSpec == FeedInit /\ [][FeedNext]_feedVars

----------------------------------------------------------------------------
(* Properties. *)

\* A follower that has received everything sent to it shows the stored state of every run it
\* knows; the only runs it may not know are queued siblings of a batch, whose first row's
\* event asks it to refresh.  Replay, registration, trimming, cut-offs, new epochs and
\* restarts leave no gap.
FollowerShowsTheTruth ==
    \A f \in Followers : feed[f].on /\ feed[f].chan = <<>> =>
      \A r \in DOMAIN ledger.runs :
        IF r \in DOMAIN feed[f].shows THEN feed[f].shows[r] = ledger.runs[r] ELSE ledger.runs[r] = "queued"

\* No follower has been told of an event that a restart can take back, so its cursor is
\* never refused as one from the future.
CursorsAreDurable ==
    \A f \in Followers : feed[f].epoch = disk.epoch => feed[f].seq <= disk.seq
=============================================================================
