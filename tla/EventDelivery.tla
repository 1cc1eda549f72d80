--------------------------- MODULE EventDelivery ---------------------------
(***************************************************************************)
(* The events of one project on their way from the transaction that        *)
(* commits them to the view that shows their effect: the outbox, its       *)
(* dispatcher and its retention, the bus and the subscription of a client  *)
(* (runtime/eventbus, repository/sqlite/event_outbox.go), the resumable    *)
(* stream of the renderer (lib/api/eventStream.ts) and the refresh loop of *)
(* its snapshot (hooks/useSnapshot.ts).                                    *)
(*                                                                         *)
(* The event with project revision r is the number r: event ids and        *)
(* revisions of one project grow together.  A snapshot is the revision it  *)
(* was read at.                                                            *)
(***************************************************************************)
EXTENDS Integers, Sequences, FiniteSets, FiniteSetsExt

CONSTANTS
    MaxEvents,     \* bound: events committed
    MaxFaults,     \* bound: crashes, lost connections, failed requests
    MaxMounts,     \* bound: views of the project opened after the first
    Buffer,        \* SubscriptionBuffer: deliveries a slow consumer may lag
    ReplayLimit,   \* events replayed to one subscription
    Keep,          \* PerProjectLimit: published rows that retention leaves
    Batch          \* rows one pass of retention deletes

ASSUME DeliveryAssumption ==
    /\ {MaxEvents, MaxFaults, MaxMounts} \subseteq Nat
    /\ {Buffer, ReplayLimit, Keep, Batch} \subseteq Nat \ {0}

VARIABLES
    \* the daemon
    revision,        \* events committed so far
    outbox,          \* rows that are stored
    published,       \* rows marked published
    deletedThrough,  \* event_retention_watermarks
    dispatcher,      \* the row DispatchOnce has read and whether it was offered
    sub,             \* the subscription of the view's current connection
    \* the stream of the renderer
    watermark,       \* last event accepted, 0 for null
    resyncBlocked,
    connection,      \* timer: a connect is due; opening; open; none
    \* the hook
    refreshTimer,    \* eventRefreshTimer is set
    pending,         \* eventRefreshPending
    resyncRequired,
    refresh,         \* the authoritative snapshot request
    initial,         \* the snapshot request of a new view
    refreshed,       \* snapshotAppliedSequence is beyond the initial request
    shown,           \* revision of the snapshot on display, 0 for none
    \* bounds and history
    faults, mounts,
    mountedAt,       \* the revision when the view was opened
    resyncAt         \* the revision when the stream was told to resync

daemon == << revision, outbox, published, deletedThrough, dispatcher, sub >>
stream == << watermark, resyncBlocked, connection >>
hook   == << refreshTimer, pending, resyncRequired, refresh, initial, refreshed, shown >>
bounds == << faults, mounts, mountedAt >>
vars   == << daemon, stream, hook, bounds, resyncAt >>

Event == 1 .. MaxEvents

Idle   == [row |-> 0, offered |-> FALSE]
NoSub  == [status |-> "gone", last |-> 0, replay |-> << >>, live |-> << >>]
Resync == [NoSub EXCEPT !.status = "resync"]

NoRequest == [stage |-> "none", rev |-> 0, completing |-> FALSE]
Asked     == [NoRequest EXCEPT !.stage = "asked"]

Fault == faults < MaxFaults /\ faults' = faults + 1 /\ UNCHANGED << mounts, mountedAt >>

(***************************************************************************)
(* The daemon                                                              *)
(***************************************************************************)

\* A transaction that changes the project appends its event.
Commit ==
    /\ revision < MaxEvents
    /\ revision' = revision + 1
    /\ outbox' = outbox \cup {revision'}
    /\ UNCHANGED << published, deletedThrough, dispatcher, sub, stream, hook, bounds, resyncAt >>

Unpublished == outbox \ published

ReadPending ==
    /\ dispatcher = Idle /\ Unpublished # {}
    /\ dispatcher' = [row |-> Min(Unpublished), offered |-> FALSE]
    /\ UNCHANGED << revision, outbox, published, deletedThrough, sub, stream, hook, bounds, resyncAt >>

\* acceptPersistentLocked: a repetition is dropped, a gap ends in a resync.
Repeated(s, e) == e <= s.last
Follows(s, e)  == e = s.last + 1

OfferLive(s, e) ==
    IF s.status # "open" \/ Repeated(s, e) THEN s
    ELSE IF ~Follows(s, e) \/ Len(s.live) = Buffer THEN Resync
    ELSE [s EXCEPT !.last = e, !.live = Append(@, e)]

Offer ==
    /\ dispatcher.row # 0 /\ ~dispatcher.offered
    /\ sub' = OfferLive(sub, dispatcher.row)
    /\ dispatcher' = [dispatcher EXCEPT !.offered = TRUE]
    /\ UNCHANGED << revision, outbox, published, deletedThrough, stream, hook, bounds, resyncAt >>

\* The next row of the pass is the oldest unpublished one: the pass ends when
\* an acknowledgement fails, so it skips none.
Acknowledge ==
    /\ dispatcher.offered
    /\ published' = published \cup {dispatcher.row}
    /\ LET left == Unpublished \ {dispatcher.row}
       IN  dispatcher' = IF left = {} THEN Idle ELSE [row |-> Min(left), offered |-> FALSE]
    /\ UNCHANGED << revision, outbox, deletedThrough, sub, stream, hook, bounds, resyncAt >>

AcknowledgeFails ==
    /\ dispatcher.offered /\ Fault
    /\ dispatcher' = Idle
    /\ UNCHANGED << revision, outbox, published, deletedThrough, sub, stream, hook, resyncAt >>

Done == outbox \cap published

Oldest(rows, n) == {r \in rows : Cardinality({q \in rows : q <= r}) <= n}
Newest(rows, n) == {r \in rows : Cardinality({q \in rows : q >= r}) <= n}

\* A pass deletes published rows: the oldest ones, when they are too old, and the
\* newest ones of those beyond the limit.  A row beyond the maximal age was
\* committed before the view was opened: a view does not stay open for a month.
Prune ==
    /\ dispatcher = Idle
    /\ \E n \in 0 .. Batch :
         LET aged == Oldest({r \in Done : r <= mountedAt}, n)
             gone == aged \cup Newest(Done \ Newest(Done, Keep), Batch - Cardinality(aged))
         IN  /\ gone # {}
             /\ outbox' = outbox \ gone
             /\ deletedThrough' = Max({deletedThrough} \cup gone)
    /\ UNCHANGED << revision, published, dispatcher, sub, stream, hook, bounds, resyncAt >>

\* The daemon stops without warning and comes back.
Crash ==
    /\ Fault
    /\ dispatcher' = Idle /\ sub' = NoSub
    /\ UNCHANGED << revision, outbox, published, deletedThrough, stream, hook, resyncAt >>

\* Subscribe under the lock of the bus: the replay is read and the subscription
\* registered before the dispatcher can offer anything more.  Fault: only rows
\* that still wait for the dispatcher are replayed.
ReplayPending(cursor) == {r \in Unpublished : r > cursor}
Replay(cursor) == {r \in outbox : r > cursor}

Subscribed(cursor) ==
    LET rows == Replay(cursor)
        known == cursor = 0 \/ (cursor > deletedThrough /\ cursor \in outbox)
    IN  IF known /\ Cardinality(rows) <= ReplayLimit /\ rows = cursor + 1 .. cursor + Cardinality(rows)
        THEN [status |-> "open", last |-> cursor + Cardinality(rows),
              replay |-> [k \in 1 .. Cardinality(rows) |-> cursor + k], live |-> << >>]
        ELSE Resync

(***************************************************************************)
(* The hook                                                                *)
(***************************************************************************)

\* scheduleEventRefresh.  Faults: what comes during a refresh is left to it; a
\* refresh is scheduled beside the one under way.
ScheduleBeside(force) ==
    pending' = TRUE /\ refreshTimer' = TRUE /\ resyncRequired' = (resyncRequired \/ force)
DropsWhileBusy(force) ==
    /\ pending' = (pending \/ refresh = NoRequest)
    /\ resyncRequired' = (resyncRequired \/ force)
    /\ refreshTimer' = (refreshTimer \/ refresh = NoRequest)
ScheduleRefresh(force) ==
    /\ pending' = TRUE
    /\ resyncRequired' = (resyncRequired \/ force)
    /\ refreshTimer' = (refreshTimer \/ refresh = NoRequest)

\* refreshAuthoritativeSnapshot up to its await.
Refresh ==
    /\ refreshTimer
    /\ refreshTimer' = FALSE /\ pending' = FALSE /\ resyncRequired' = FALSE
    /\ refresh' = [Asked EXCEPT !.completing = resyncRequired]
    /\ UNCHANGED << daemon, stream, initial, refreshed, shown, bounds, resyncAt >>

ReadSnapshot ==
    /\ \/ refresh.stage = "asked" /\ refresh' = [refresh EXCEPT !.stage = "read", !.rev = revision]
                                  /\ UNCHANGED initial
       \/ initial.stage = "asked" /\ initial' = [initial EXCEPT !.stage = "read", !.rev = revision]
                                  /\ UNCHANGED refresh
    /\ UNCHANGED << daemon, stream, refreshTimer, pending, resyncRequired, refreshed, shown, bounds, resyncAt >>

\* completeResync of the stream, when the refresh served a resync.  Fault: the
\* flag is looked at when the answer is there.
CompletesLate == refresh.completing \/ resyncRequired
Completes == refresh.completing

Resume ==
    IF Completes /\ resyncBlocked
    THEN /\ resyncBlocked' = FALSE /\ watermark' = 0 /\ connection' = "timer" /\ resyncAt' = 0
    ELSE UNCHANGED << stream, resyncAt >>

RefreshDone ==
    /\ refresh.stage = "read"
    /\ shown' = refresh.rev /\ refreshed' = TRUE
    /\ refresh' = NoRequest
    /\ refreshTimer' = pending
    /\ Resume
    /\ UNCHANGED << daemon, pending, resyncRequired, initial, bounds >>

RefreshFails ==
    /\ refresh # NoRequest /\ Fault
    /\ refresh' = NoRequest
    /\ pending' = TRUE /\ refreshTimer' = TRUE
    /\ resyncRequired' = (resyncRequired \/ refresh.completing)
    /\ UNCHANGED << daemon, stream, initial, refreshed, shown, resyncAt >>

\* The first answer is dropped when a refresh was faster; its failure is shown
\* and not repeated.
InitialDone ==
    /\ initial.stage = "read"
    /\ initial' = NoRequest
    /\ shown' = IF refreshed THEN shown ELSE initial.rev
    /\ UNCHANGED << daemon, stream, refreshTimer, pending, resyncRequired, refresh, refreshed, bounds, resyncAt >>

InitialFails ==
    /\ initial # NoRequest /\ Fault
    /\ initial' = NoRequest
    /\ UNCHANGED << daemon, stream, refreshTimer, pending, resyncRequired, refresh, refreshed, shown, resyncAt >>

\* The user leaves the project and comes back, or reloads the window: the new
\* view resumes from the watermark the client kept, or from none.
Remount ==
    /\ mounts < MaxMounts /\ mounts' = mounts + 1
    /\ watermark' \in {watermark, 0}
    /\ resyncBlocked' = FALSE /\ connection' = "timer" /\ sub' = NoSub
    /\ refreshTimer' = FALSE /\ pending' = FALSE /\ resyncRequired' = FALSE
    /\ refresh' = NoRequest /\ initial' = Asked /\ refreshed' = FALSE /\ shown' = 0
    /\ mountedAt' = revision /\ resyncAt' = 0
    /\ UNCHANGED << revision, outbox, published, deletedThrough, dispatcher, faults >>

(***************************************************************************)
(* The stream of the renderer                                              *)
(***************************************************************************)

Connect ==
    /\ connection = "timer" /\ connection' = "opening"
    /\ UNCHANGED << daemon, watermark, resyncBlocked, hook, bounds, resyncAt >>

\* The daemon subscribes the request and its answer opens the stream.
Open ==
    /\ connection = "opening" /\ connection' = "open"
    /\ sub' = Subscribed(watermark)
    /\ UNCHANGED << revision, outbox, published, deletedThrough, dispatcher, watermark, resyncBlocked,
                    hook, bounds, resyncAt >>

\* A request that fails, a connection that breaks, is tried again later.
LoseConnection ==
    /\ connection \in {"opening", "open"} /\ Fault
    /\ connection' = "timer" /\ sub' = NoSub
    /\ UNCHANGED << revision, outbox, published, deletedThrough, dispatcher, watermark, resyncBlocked,
                    hook, resyncAt >>

Closed ==
    /\ connection = "open" /\ sub.status = "gone"
    /\ connection' = "timer"
    /\ UNCHANGED << daemon, watermark, resyncBlocked, hook, bounds, resyncAt >>

\* requireResync: the connection is given up until the hook has a new snapshot.
RequireResync ==
    /\ resyncBlocked' = TRUE /\ connection' = "none" /\ resyncAt' = revision
    /\ UNCHANGED watermark
    /\ ScheduleRefresh(TRUE)
    /\ sub' = NoSub

Accept(e) ==
    /\ watermark' = e
    /\ ScheduleRefresh(FALSE)
    /\ UNCHANGED << resyncBlocked, connection, resyncAt >>

\* Next: a resync first, then what is left of the replay, then a live event; and
\* the frame handler of connect.
NextEvent == IF sub.replay # << >> THEN Head(sub.replay) ELSE Head(sub.live)

Taken == IF sub.replay # << >> THEN [sub EXCEPT !.replay = Tail(@)] ELSE [sub EXCEPT !.live = Tail(@)]

Receive ==
    /\ connection = "open"
    /\ \/ sub.status = "resync" /\ RequireResync
       \/ /\ sub.status = "open" /\ sub.replay \o sub.live # << >>
          /\ IF watermark # 0 /\ NextEvent <= watermark
             THEN sub' = Taken /\ UNCHANGED << stream, pending, resyncRequired, refreshTimer, resyncAt >>
             ELSE IF watermark # 0 /\ NextEvent # watermark + 1 THEN RequireResync
             ELSE Accept(NextEvent) /\ sub' = Taken
    /\ UNCHANGED << revision, outbox, published, deletedThrough, dispatcher, refresh, initial, refreshed, shown,
                    bounds >>

(***************************************************************************)
(* The whole                                                               *)
(***************************************************************************)

Init ==
    /\ revision = 0 /\ outbox = {} /\ published = {} /\ deletedThrough = 0
    /\ dispatcher = Idle /\ sub = NoSub
    /\ watermark = 0 /\ resyncBlocked = FALSE /\ connection = "timer"
    /\ refreshTimer = FALSE /\ pending = FALSE /\ resyncRequired = FALSE
    /\ refresh = NoRequest /\ initial = Asked /\ refreshed = FALSE /\ shown = 0
    /\ faults = 0 /\ mounts = 0 /\ mountedAt = 0 /\ resyncAt = 0

Dispatch == ReadPending \/ Offer \/ Acknowledge
Stream   == Connect \/ Open \/ Receive \/ Closed
Hook     == Refresh \/ ReadSnapshot \/ RefreshDone \/ InitialDone
Failure  == AcknowledgeFails \/ Crash \/ LoseConnection \/ RefreshFails \/ InitialFails

Next == Dispatch \/ Stream \/ Hook \/ Failure \/ Commit \/ Prune \/ Remount

\* The goroutine of the dispatcher, the server and the timers and callbacks of
\* the window run; nobody has to commit, prune or leave.
Spec == Init /\ [][Next]_vars /\ WF_vars(Dispatch) /\ WF_vars(Connect \/ Open) /\ WF_vars(Receive \/ Closed)
             /\ WF_vars(Refresh \/ RefreshDone) /\ WF_vars(ReadSnapshot) /\ WF_vars(InitialDone)

(***************************************************************************)
(* Properties                                                              *)
(***************************************************************************)

\* Types.
EventTypeOK ==
    /\ revision \in 0 .. MaxEvents /\ outbox \subseteq 1 .. revision /\ published \subseteq 1 .. revision
    /\ deletedThrough \in published \cup {0}
    /\ sub.status \in {"gone", "open", "resync"} /\ Len(sub.live) <= Buffer
    /\ connection \in {"none", "timer", "opening", "open"} /\ (resyncBlocked <=> connection = "none")
    /\ watermark \in 0 .. revision /\ shown \in 0 .. revision
    /\ ~(refreshTimer /\ refresh # NoRequest)

\* The boundary between replay and live delivery loses nothing: what a connected
\* stream has accepted, followed by what its subscription holds, is contiguous up
\* to the last event the subscription took, and no published row that is still
\* stored is beyond it, whatever was committed, published twice or pruned around
\* the subscription.
BoundaryHolds ==
    connection = "open" /\ sub.status = "open" =>
        /\ sub.replay \o sub.live = [k \in 1 .. sub.last - watermark |-> watermark + k]
        /\ \A e \in outbox \cap published : e <= sub.last

\* A stream that was told to resync resumes only over a snapshot that was read
\* after it was told: a refresh that was already under way does not count.
ResyncCovers == [][resyncBlocked /\ ~resyncBlocked' /\ mounts' = mounts => shown' >= resyncAt]_vars

\* Every event committed while the view is open reaches it, through crashes, lost
\* connections, failed acknowledgements, slow consumers and pruned history.
EventsReachTheView ==
    \A e \in Event : (revision >= e /\ mountedAt < e) ~> (shown >= e \/ mountedAt >= e)

\* A missing Last-Event-ID starts from the history that is available
\* (docs/migration/p10/runbook.md): a stream that resynchronises gets back to
\* following the events.
ResyncEnds == <>[]~resyncBlocked

=============================================================================
