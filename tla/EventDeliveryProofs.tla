------------------------ MODULE EventDeliveryProofs ------------------------
(***************************************************************************)
(* What EventDelivery guarantees for every number of events, faults and    *)
(* views and every limit of the buffer, the replay and the retention: the  *)
(* types, the boundary between replay and live delivery, and the snapshot  *)
(* over which a stream resumes.                                            *)
(***************************************************************************)
EXTENDS EventDelivery, FiniteSetTheorems, SequenceTheorems, WellFoundedInduction, TLAPS

Request == [stage : {"none", "asked", "read"}, rev : 0 .. revision, completing : BOOLEAN]

\* The values of the variables, revisions among those committed so far.
Stored ==
    /\ revision \in 0 .. MaxEvents
    /\ outbox \subseteq 1 .. revision /\ published \subseteq 1 .. revision
    /\ deletedThrough \in published \cup {0}
    /\ dispatcher \in [row : 0 .. revision, offered : BOOLEAN]

Subscription ==
    [status : {"gone", "open", "resync"}, last : 0 .. revision, replay : Seq(Nat), live : Seq(Nat)]

Streamed ==
    /\ sub \in Subscription /\ Len(sub.live) <= Buffer
    /\ watermark \in 0 .. revision
    /\ resyncBlocked \in BOOLEAN /\ connection \in {"none", "timer", "opening", "open"}

Hooked ==
    /\ refreshTimer \in BOOLEAN /\ pending \in BOOLEAN /\ resyncRequired \in BOOLEAN
    /\ refresh \in Request /\ initial \in Request /\ refreshed \in BOOLEAN

Noted ==
    /\ shown \in 0 .. revision /\ mountedAt \in 0 .. revision /\ resyncAt \in 0 .. revision
    /\ mounts \in 0 .. MaxMounts

Values == Stored /\ Streamed /\ Hooked /\ Noted

\* The outbox keeps what is not published, and events are published in order:
\* the row at hand is the oldest of those left.
InOrder ==
    /\ 1 .. revision \subseteq outbox \cup published
    /\ \A e \in published : 1 .. e \subseteq published
    /\ dispatcher.row # 0 => dispatcher.row \in Unpublished /\ \A e \in Unpublished : dispatcher.row <= e
    /\ dispatcher.offered => dispatcher.row # 0

\* A subscription belongs to an open connection, and a blocked stream has none.
Connected ==
    /\ sub.status # "gone" => connection = "open"
    /\ resyncBlocked <=> connection = "none"

\* The replay p and the live events q, in this order, are the numbers after w up to l.
Bridges(w, p, q, l) ==
    /\ Len(p) + Len(q) = l - w
    /\ \A k \in 1 .. Len(p) : p[k] = w + k
    /\ \A k \in 1 .. Len(q) : q[k] = w + Len(p) + k

\* What an open subscription holds follows the watermark without a gap, up to the
\* last event it took; nothing published, nor the row that was offered, is beyond.
Contiguous ==
    sub.status = "open" =>
        /\ Bridges(watermark, sub.replay, sub.live, sub.last)
        /\ \A e \in outbox \cap published : e <= sub.last
        /\ dispatcher.offered => dispatcher.row <= sub.last

\* One refresh at a time; the one that completes a resync was asked for after the
\* stream was told, and the stream waits for it.
Resyncing ==
    /\ ~(refreshTimer /\ refresh # NoRequest)
    /\ resyncRequired => resyncBlocked
    /\ refresh.completing => resyncBlocked /\ ~resyncRequired
    /\ refresh.completing /\ refresh.stage = "read" => refresh.rev >= resyncAt

EventInv == Values /\ InOrder /\ Connected /\ Contiguous /\ Resyncing
-----------------------------------------------------------------------------
(* The operators *)

\* A set of naturals that is not empty has a least element, and Min is it.
LEMMA Least ==
  ASSUME NEW S \in SUBSET Nat, S # {}
  PROVE  \E m \in S : \A n \in S : m <= n
<1>1. PICK m \in S : \A n \in S : ~(<<n, m>> \in OpToRel(<, Nat))
  BY NatLessThanWellFounded, WFMin
<1>2. \A n \in S : ~(<<n, m>> \in {ss \in Nat \X Nat : ss[1] < ss[2]})
  BY <1>1 DEF OpToRel
<1>3. ASSUME NEW n \in S PROVE m <= n
  <2>1. m \in Nat /\ n \in Nat
    BY <1>1
  <2>2. <<n, m>> \in Nat \X Nat
    BY <2>1
  <2>3. ~(n < m)
    BY <1>2, <2>2
  <2> QED
    BY <2>1, <2>3
<1> QED
  BY <1>1, <1>3

LEMMA MinIsLeast ==
  ASSUME NEW S \in SUBSET Nat, S # {}
  PROVE  Min(S) \in S /\ \A n \in S : Min(S) <= n
<1>1. \E m \in S : \A n \in S : m <= n
  BY Least
<1> QED
  BY <1>1 DEF Min

\* A set of naturals with a bound has a greatest element, and Max is it.
LEMMA MaxIsGreatest ==
  ASSUME NEW b \in Nat, NEW S \in SUBSET (0 .. b), S # {}
  PROVE  Max(S) \in S /\ \A n \in S : Max(S) >= n
<1> DEFINE R == {b - x : x \in S}
<1>1. R \in SUBSET Nat /\ R # {}
  OBVIOUS
<1>2. PICK m \in R : \A n \in R : m <= n
  BY <1>1, Least
<1>3. PICK x \in S : m = b - x
  BY <1>2
<1>4. ASSUME NEW y \in S PROVE x >= y
  <2>1. b - y \in R
    OBVIOUS
  <2>2. m <= b - y
    BY <1>2, <2>1
  <2> QED
    BY <1>3, <2>2
<1>5. \E g \in S : \A n \in S : g >= n
  BY <1>3, <1>4
<1> QED
  BY <1>5 DEF Max

\* A bridge of the replay alone, one that takes a live event, and one whose first
\* event was taken.
LEMMA BridgeStarts ==
  ASSUME NEW w \in Nat, NEW n \in Nat
  PROVE  Bridges(w, [k \in 1 .. n |-> w + k], << >>, w + n) /\ [k \in 1 .. n |-> w + k] \in Seq(Nat)
<1>1. [k \in 1 .. n |-> w + k] \in Seq(Nat) /\ Len([k \in 1 .. n |-> w + k]) = n
  OBVIOUS
<1>2. Len(<< >>) = 0
  OBVIOUS
<1> QED
  BY <1>1, <1>2 DEF Bridges

LEMMA BridgeGrows ==
  ASSUME NEW w \in Nat, NEW p \in Seq(Nat), NEW q \in Seq(Nat), NEW l \in Nat, Bridges(w, p, q, l)
  PROVE  Bridges(w, p, Append(q, l + 1), l + 1)
<1>1. /\ Len(Append(q, l + 1)) = Len(q) + 1 /\ Append(q, l + 1)[Len(q) + 1] = l + 1
      /\ \A k \in 1 .. Len(q) : Append(q, l + 1)[k] = q[k]
  OBVIOUS
<1>2. PICK a \in Nat, b \in Nat : Len(p) = a /\ Len(q) = b
  OBVIOUS
<1>3. a + b = l - w
  BY <1>2 DEF Bridges
<1>4. \A k \in 1 .. b + 1 : Append(q, l + 1)[k] = w + Len(p) + k
  <2> SUFFICES ASSUME NEW k \in 1 .. b + 1 PROVE Append(q, l + 1)[k] = w + Len(p) + k
    OBVIOUS
  <2>1. CASE k \in 1 .. b
    BY <1>1, <1>2, <2>1 DEF Bridges
  <2>2. CASE k = b + 1
    <3>1. l + 1 = w + a + k
      BY <1>3, <2>2
    <3> QED
      BY <1>1, <1>2, <2>2, <3>1
  <2>3. k \in 1 .. b \/ k = b + 1
    OBVIOUS
  <2> QED
    BY <2>1, <2>2, <2>3
<1>5. a + (b + 1) = (l + 1) - w
  BY <1>3
<1>6. Len(p) + Len(Append(q, l + 1)) = (l + 1) - w
  BY <1>1, <1>2, <1>5
<1>7. \A k \in 1 .. Len(p) : p[k] = w + k
  BY DEF Bridges
<1> QED
  BY <1>1, <1>2, <1>4, <1>6, <1>7 DEF Bridges

LEMMA BridgeShrinks ==
  ASSUME NEW w \in Nat, NEW p \in Seq(Nat), NEW q \in Seq(Nat), NEW l \in Nat, Bridges(w, p, q, l)
  PROVE  /\ p # << >> => Head(p) = w + 1 /\ Bridges(w + 1, Tail(p), q, l)
         /\ p = << >> /\ q # << >> => Head(q) = w + 1 /\ Bridges(w + 1, p, Tail(q), l)
<1>1. PICK a \in Nat, b \in Nat : Len(p) = a /\ Len(q) = b
  OBVIOUS
<1>2. a + b = l - w
  BY <1>1 DEF Bridges
<1>3. ASSUME p # << >> PROVE Head(p) = w + 1 /\ Bridges(w + 1, Tail(p), q, l)
  <2>1. /\ a > 0 /\ Head(p) = p[1] /\ Len(Tail(p)) = a - 1
        /\ \A k \in 1 .. a - 1 : Tail(p)[k] = p[k + 1]
    BY <1>1, <1>3
  <2>2. \A k \in 1 .. a : p[k] = w + k
    BY <1>1 DEF Bridges
  <2>3. \A k \in 1 .. b : q[k] = w + a + k
    BY <1>1 DEF Bridges
  <2>4. (a - 1) + b = l - (w + 1)
    BY <1>2
  <2>5. \A k \in 1 .. a - 1 : Tail(p)[k] = (w + 1) + k
    BY <2>1, <2>2
  <2>6. \A k \in 1 .. b : q[k] = (w + 1) + (a - 1) + k
    BY <2>3
  <2>7. Head(p) = w + 1
    BY <2>1, <2>2
  <2> QED
    BY <1>1, <2>1, <2>4, <2>5, <2>6, <2>7 DEF Bridges
<1>4. ASSUME p = << >>, q # << >> PROVE Head(q) = w + 1 /\ Bridges(w + 1, p, Tail(q), l)
  <2>1. /\ b > 0 /\ Head(q) = q[1] /\ Len(Tail(q)) = b - 1 /\ a = 0
        /\ \A k \in 1 .. b - 1 : Tail(q)[k] = q[k + 1]
    BY <1>1, <1>4
  <2>2. \A k \in 1 .. b : q[k] = w + 0 + k
    BY <1>1, <2>1 DEF Bridges
  <2>3. 0 + (b - 1) = l - (w + 1)
    BY <1>2, <2>1
  <2>4. \A k \in 1 .. b - 1 : Tail(q)[k] = (w + 1) + 0 + k
    BY <2>1, <2>2
  <2>5. Head(q) = w + 1
    BY <2>1, <2>2
  <2>6. Len(p) = 0
    BY <1>4
  <2> QED
    BY <2>1, <2>3, <2>4, <2>5, <2>6 DEF Bridges
<1> QED
  BY <1>3, <1>4

\* The records the operators start from have the types of their variables.
LEMMA Asking ==
  Asked.stage = "asked" /\ Asked.rev = 0 /\ Asked.completing = FALSE /\ Asked # NoRequest
BY DEF Asked, NoRequest

LEMMA Resyncs == Resync = [status |-> "resync", last |-> 0, replay |-> << >>, live |-> << >>]
BY DEF Resync, NoSub

LEMMA Records ==
  ASSUME NEW n \in Nat
  PROVE  /\ Idle \in [row : 0 .. n, offered : BOOLEAN]
         /\ {NoSub, Resync} \subseteq
              [status : {"gone", "open", "resync"}, last : 0 .. n, replay : Seq(Nat), live : Seq(Nat)]
         /\ {NoRequest, Asked} \subseteq
              [stage : {"none", "asked", "read"}, rev : 0 .. n, completing : BOOLEAN]
         /\ Len(NoSub.live) = 0 /\ Len(Resync.live) = 0
<1>1. << >> \in Seq(Nat) /\ Len(<< >>) = 0
  OBVIOUS
<1>2. 0 \in 0 .. n
  OBVIOUS
<1>3. NoRequest \in [stage : {"none", "asked", "read"}, rev : 0 .. n, completing : BOOLEAN]
  BY <1>2 DEF NoRequest
<1>4. Asked \in [stage : {"none", "asked", "read"}, rev : 0 .. n, completing : BOOLEAN]
  BY <1>3 DEF Asked
<1> QED
  BY <1>1, <1>2, <1>3, <1>4, Resyncs DEF Idle, NoSub
-----------------------------------------------------------------------------
(* The first state *)

LEMMA EventStart == Init => EventInv
<1> SUFFICES ASSUME Init PROVE EventInv
  OBVIOUS
<1>1. Values
  <2>1. MaxEvents \in Nat /\ MaxMounts \in Nat /\ Buffer \in Nat
    BY DeliveryAssumption
  <2>2. revision = 0 /\ outbox = {} /\ published = {} /\ deletedThrough = 0
    BY DEF Init
  <2>3. Idle \in [row : 0 .. revision, offered : BOOLEAN] /\ {NoRequest, Asked} \subseteq Request
    BY <2>2, Records DEF Request
  <2>4. sub \in [status : {"gone", "open", "resync"}, last : 0 .. revision, replay : Seq(Nat), live : Seq(Nat)]
    BY <2>2, Records DEF Init
  <2>5. Len(sub.live) <= Buffer
    BY <2>1, Records DEF Init
  <2>6. /\ dispatcher = Idle /\ refresh = NoRequest /\ initial = Asked
        /\ resyncBlocked = FALSE /\ refreshTimer = FALSE /\ pending = FALSE /\ resyncRequired = FALSE
        /\ refreshed = FALSE /\ connection = "timer"
    BY DEF Init
  <2>7. watermark = 0 /\ shown = 0 /\ mountedAt = 0 /\ resyncAt = 0 /\ mounts = 0
    BY DEF Init
  <2>8. revision \in 0 .. MaxEvents /\ outbox \subseteq 1 .. revision /\ published \subseteq 1 .. revision
    BY <2>1, <2>2
  <2>9. dispatcher \in [row : 0 .. revision, offered : BOOLEAN] /\ refresh \in Request /\ initial \in Request
    BY <2>3, <2>6
  <2>10. /\ watermark \in 0 .. revision /\ shown \in 0 .. revision /\ mountedAt \in 0 .. revision
         /\ resyncAt \in 0 .. revision /\ mounts \in 0 .. MaxMounts
    BY <2>1, <2>2, <2>7
  <2> QED
    BY <2>2, <2>4, <2>5, <2>6, <2>8, <2>9, <2>10 DEF Values, Stored, Streamed, Subscription, Hooked, Noted
<1>2. InOrder
  BY DEF InOrder, Unpublished, Init, Idle
<1>3. Connected /\ Contiguous /\ Resyncing
  BY DEF Connected, Contiguous, Resyncing, Init, NoSub, NoRequest
<1> QED
  BY <1>1, <1>2, <1>3 DEF EventInv
-----------------------------------------------------------------------------
(* The actions *)

LEMMA CommitKeeps == EventInv /\ Commit => EventInv'
<1> SUFFICES ASSUME EventInv, Commit PROVE EventInv'
  OBVIOUS
<1> USE DEF EventInv, Values, Commit, daemon, stream, hook, bounds
<1>1. Stored'
  BY DeliveryAssumption DEF Stored
<1>2. Streamed'
  BY DEF Stored, Streamed, Subscription
<1>3. Hooked'
  BY DEF Stored, Hooked, Request
<1>4. Noted'
  BY DEF Stored, Noted
<1>5. InOrder'
  BY DEF Stored, InOrder, Unpublished
<1>6. Connected'
  BY DEF Connected
<1>7. Contiguous'
  <2>1. outbox' \cap published' = outbox \cap published
    BY DEF Stored
  <2> QED
    BY <2>1 DEF Contiguous
<1>8. Resyncing'
  BY DEF Resyncing
<1> QED
  BY <1>1, <1>2, <1>3, <1>4, <1>5, <1>6, <1>7, <1>8

LEMMA ReadPendingKeeps == EventInv /\ ReadPending => EventInv'
<1> SUFFICES ASSUME EventInv, ReadPending PROVE EventInv'
  OBVIOUS
<1> USE DEF EventInv, Values, ReadPending, daemon, stream, hook, bounds
<1>a. Min(Unpublished) \in Unpublished /\ \A e \in Unpublished : Min(Unpublished) <= e
  <2>1. Unpublished \in SUBSET Nat /\ Unpublished # {}
    BY DEF Stored, Unpublished
  <2> QED
    BY <2>1, MinIsLeast
<1>b. PICK m \in 1 .. revision : m = Min(Unpublished)
  BY <1>a DEF Stored, Unpublished
<1>1. Stored'
  BY <1>b DEF Stored
<1>2. Streamed'
  BY DEF Streamed, Subscription
<1>3. Hooked'
  BY DEF Hooked, Request
<1>4. Noted'
  BY DEF Noted
<1>5. InOrder'
  BY <1>a, <1>b DEF InOrder, Unpublished
<1>6. Connected'
  BY DEF Connected
<1>7. Contiguous'
  BY DEF Contiguous
<1>8. Resyncing'
  BY DEF Resyncing
<1> QED
  BY <1>1, <1>2, <1>3, <1>4, <1>5, <1>6, <1>7, <1>8

LEMMA OfferKeeps == EventInv /\ Offer => EventInv'
<1> SUFFICES ASSUME EventInv, Offer PROVE EventInv'
  OBVIOUS
<1> USE DEF EventInv, Values, Offer, daemon, stream, hook, bounds
<1>a. PICK r \in 1 .. revision : r = dispatcher.row
  BY DEF Stored
<1>b. \/ sub' = sub /\ (sub.status = "open" => r <= sub.last)
      \/ sub' = Resync /\ sub.status = "open"
      \/ /\ sub' = [sub EXCEPT !.last = r, !.live = Append(@, r)]
         /\ sub.status = "open" /\ r = sub.last + 1 /\ Len(sub.live) # Buffer
  BY <1>a DEF OfferLive, Repeated, Follows
<1>1. Stored'
  BY DEF Stored
<1>2. Streamed'
  <2>1. CASE sub' = sub
    BY <2>1 DEF Streamed, Subscription
  <2>2. CASE sub' = Resync
    BY <2>2, DeliveryAssumption, Records DEF Stored, Streamed, Subscription
  <2>3. CASE sub' = [sub EXCEPT !.last = r, !.live = Append(@, r)] /\ Len(sub.live) # Buffer
    <3>1. Append(sub.live, r) \in Seq(Nat) /\ Len(Append(sub.live, r)) = Len(sub.live) + 1
      BY DEF Streamed, Subscription
    <3>2. Len(Append(sub.live, r)) <= Buffer
      BY <2>3, <3>1, DeliveryAssumption DEF Streamed, Subscription
    <3>3. [sub EXCEPT !.last = r, !.live = Append(@, r)] \in Subscription
      <4>1. r \in 0 .. revision
        BY DEF Stored
      <4> QED
        BY <3>1, <4>1 DEF Streamed, Subscription
    <3> QED
      BY <2>3, <3>1, <3>2, <3>3 DEF Streamed, Subscription
  <2> QED
    BY <1>b, <2>1, <2>2, <2>3
<1>3. Hooked'
  BY DEF Hooked, Request
<1>4. Noted'
  BY DEF Noted
<1>5. InOrder'
  BY DEF InOrder, Unpublished
<1>6. Connected'
  <2>1. sub'.status # "gone" => sub.status # "gone"
    BY <1>b DEF Streamed, Subscription
  <2> QED
    BY <2>1 DEF Connected
<1>7. Contiguous'
  <2>1. CASE sub' = sub /\ (sub.status = "open" => r <= sub.last)
    BY <1>a, <2>1 DEF Contiguous, Stored
  <2>2. CASE sub' = Resync
    BY <2>2, Resyncs DEF Contiguous
  <2>3. CASE /\ sub' = [sub EXCEPT !.last = r, !.live = Append(@, r)]
             /\ sub.status = "open" /\ r = sub.last + 1
    <3>1. /\ sub.last \in Nat /\ watermark \in Nat /\ sub.replay \in Seq(Nat) /\ sub.live \in Seq(Nat)
          /\ sub'.status = "open" /\ sub'.replay = sub.replay /\ sub'.live = Append(sub.live, r) /\ sub'.last = r
      BY <2>3 DEF Streamed, Subscription, Stored
    <3>2. Bridges(watermark, sub.replay, Append(sub.live, sub.last + 1), sub.last + 1)
      BY <2>3, <3>1, BridgeGrows DEF Contiguous
    <3>3. \A e \in outbox \cap published : e <= r
      BY <2>3, <3>1 DEF Contiguous, Stored
    <3>a. dispatcher'.row = r
      BY <1>a DEF Stored
    <3>4. dispatcher'.row <= r
      BY <2>3, <3>1, <3>a
    <3>5. Bridges(watermark', sub'.replay, sub'.live, sub'.last)
      BY <2>3, <3>1, <3>2
    <3> QED
      BY <3>1, <3>3, <3>4, <3>5 DEF Contiguous
  <2> QED
    BY <1>b, <2>1, <2>2, <2>3
<1>8. Resyncing'
  BY DEF Resyncing
<1> QED
  BY <1>1, <1>2, <1>3, <1>4, <1>5, <1>6, <1>7, <1>8

LEMMA AcknowledgeKeeps == EventInv /\ Acknowledge => EventInv'
<1> SUFFICES ASSUME EventInv, Acknowledge PROVE EventInv'
  OBVIOUS
<1> USE DEF EventInv, Values, Acknowledge, daemon, stream, hook, bounds
<1>a. PICK r \in 1 .. revision : r = dispatcher.row
  BY DEF Stored, InOrder
<1>b. r \in Unpublished /\ \A e \in Unpublished : r <= e
  BY <1>a DEF InOrder
<1>c. Unpublished' = Unpublished \ {r}
  BY <1>a DEF Unpublished
<1>d. \/ dispatcher' = Idle
      \/ \E m \in Unpublished \ {r} : /\ dispatcher' = [row |-> m, offered |-> FALSE]
                                       /\ \A e \in Unpublished \ {r} : m <= e
  <2>1. CASE Unpublished \ {r} = {}
    BY <1>a, <2>1
  <2>2. CASE Unpublished \ {r} # {}
    <3>1. Unpublished \ {r} \in SUBSET Nat
      BY DEF Stored, Unpublished
    <3>2. /\ Min(Unpublished \ {r}) \in Unpublished \ {r}
          /\ \A e \in Unpublished \ {r} : Min(Unpublished \ {r}) <= e
      BY <2>2, <3>1, MinIsLeast
    <3> QED
      BY <1>a, <2>2, <3>2
  <2> QED
    BY <2>1, <2>2
<1>1. Stored'
  <2>1. revision \in Nat /\ Unpublished \subseteq 0 .. revision
    BY DEF Stored, Unpublished
  <2>2. \A m \in 0 .. revision : [row |-> m, offered |-> FALSE] \in [row : 0 .. revision, offered : BOOLEAN]
    OBVIOUS
  <2>3. dispatcher' \in [row : 0 .. revision, offered : BOOLEAN]
    BY <1>d, <2>1, <2>2, Records
  <2> QED
    BY <1>a, <2>3 DEF Stored
<1>2. Streamed'
  BY DEF Streamed, Subscription
<1>3. Hooked'
  BY DEF Hooked, Request
<1>4. Noted'
  BY DEF Noted
<1>5. InOrder'
  <2>1. \A e \in published' : 1 .. e \subseteq published'
    <3> SUFFICES ASSUME NEW e \in published', NEW x \in 1 .. e PROVE x \in published'
      OBVIOUS
    <3>1. CASE e \in published
      BY <3>1 DEF InOrder
    <3>2. CASE e = r
      <4>1. CASE x = r
        BY <1>a, <4>1
      <4>2. CASE x < r
        <5>1. x \in 1 .. revision
          BY <3>2 DEF Stored
        <5>2. x \notin Unpublished
          BY <1>b, <4>2
        <5> QED
          BY <5>1, <5>2 DEF InOrder, Unpublished
      <4> QED
        BY <3>2, <4>1, <4>2
    <3> QED
      BY <1>a, <3>1, <3>2
  <2>2. /\ dispatcher'.row # 0 => dispatcher'.row \in Unpublished' /\ \A e \in Unpublished' : dispatcher'.row <= e
        /\ dispatcher'.offered = FALSE
    BY <1>c, <1>d DEF Idle
  <2>3. 1 .. revision' \subseteq outbox' \cup published'
    BY DEF InOrder
  <2> QED
    BY <2>1, <2>2, <2>3 DEF InOrder
<1>6. Connected'
  BY DEF Connected
<1>7. Contiguous'
  <2>1. dispatcher'.offered = FALSE
    BY <1>d DEF Idle
  <2>2. sub.status = "open" => r <= sub.last
    BY <1>a DEF Contiguous
  <2> QED
    BY <1>a, <2>1, <2>2 DEF Contiguous
<1>8. Resyncing'
  BY DEF Resyncing
<1> QED
  BY <1>1, <1>2, <1>3, <1>4, <1>5, <1>6, <1>7, <1>8

LEMMA AcknowledgeFailsKeeps == EventInv /\ AcknowledgeFails => EventInv'
<1> SUFFICES ASSUME EventInv, AcknowledgeFails PROVE EventInv'
  OBVIOUS
<1> USE DEF EventInv, Values, AcknowledgeFails, daemon, stream, hook, bounds, Fault
<1>1. Stored'
  BY Records DEF Stored
<1>2. Streamed'
  BY DEF Streamed, Subscription
<1>3. Hooked'
  BY DEF Hooked, Request
<1>4. Noted'
  BY DEF Noted
<1>5. InOrder'
  BY DEF InOrder, Idle
<1>6. Connected'
  BY DEF Connected
<1>7. Contiguous'
  BY DEF Contiguous, Idle
<1>8. Resyncing'
  BY DEF Resyncing
<1> QED
  BY <1>1, <1>2, <1>3, <1>4, <1>5, <1>6, <1>7, <1>8

LEMMA PruneKeeps == EventInv /\ Prune => EventInv'
<1> SUFFICES ASSUME EventInv, Prune PROVE EventInv'
  OBVIOUS
<1> USE DEF EventInv, Values, Prune, daemon, stream, hook, bounds
<1>a. PICK gone \in SUBSET Done : /\ gone # {} /\ outbox' = outbox \ gone
                                 /\ deletedThrough' = Max({deletedThrough} \cup gone)
  <2>1. PICK n \in 0 .. Batch :
          LET aged == Oldest({r \in Done : r <= mountedAt}, n)
              gone == aged \cup Newest(Done \ Newest(Done, Keep), Batch - Cardinality(aged))
          IN  gone # {} /\ outbox' = outbox \ gone /\ deletedThrough' = Max({deletedThrough} \cup gone)
    OBVIOUS
  <2> DEFINE aged == Oldest({r \in Done : r <= mountedAt}, n)
             gone == aged \cup Newest(Done \ Newest(Done, Keep), Batch - Cardinality(aged))
  <2>2. gone \in SUBSET Done
    BY DEF Oldest, Newest
  <2> QED
    BY <2>1, <2>2
<1>b. Max({deletedThrough} \cup gone) \in {deletedThrough} \cup gone
  <2>1. revision \in Nat /\ {deletedThrough} \cup gone \in SUBSET (0 .. revision)
    BY DEF Stored, Done
  <2> QED
    BY <2>1, MaxIsGreatest
<1>1. Stored'
  BY <1>a, <1>b DEF Stored, Done
<1>2. Streamed'
  BY DEF Streamed, Subscription
<1>3. Hooked'
  BY DEF Hooked, Request
<1>4. Noted'
  BY DEF Noted
<1>5. InOrder'
  BY <1>a DEF Stored, InOrder, Unpublished, Idle, Done
<1>6. Connected'
  BY DEF Connected
<1>7. Contiguous'
  BY DEF Contiguous
<1>8. Resyncing'
  BY DEF Resyncing
<1> QED
  BY <1>1, <1>2, <1>3, <1>4, <1>5, <1>6, <1>7, <1>8

LEMMA CrashKeeps == EventInv /\ Crash => EventInv'
<1> SUFFICES ASSUME EventInv, Crash PROVE EventInv'
  OBVIOUS
<1> USE DEF EventInv, Values, Crash, daemon, stream, hook, bounds, Fault
<1>1. Stored'
  BY Records DEF Stored
<1>2. Streamed'
  BY DeliveryAssumption, Records DEF Stored, Streamed, Subscription
<1>3. Hooked'
  BY DEF Hooked, Request
<1>4. Noted'
  BY DEF Noted
<1>5. InOrder'
  BY DEF InOrder, Idle
<1>6. Connected'
  BY DEF Connected, NoSub
<1>7. Contiguous'
  BY DEF Contiguous, NoSub
<1>8. Resyncing'
  BY DEF Resyncing
<1> QED
  BY <1>1, <1>2, <1>3, <1>4, <1>5, <1>6, <1>7, <1>8

LEMMA RefreshKeeps == EventInv /\ Refresh => EventInv'
<1> SUFFICES ASSUME EventInv, Refresh PROVE EventInv'
  OBVIOUS
<1> USE DEF EventInv, Values, Refresh, daemon, stream, hook, bounds
<1>1. Stored'
  BY DEF Stored
<1>2. Streamed'
  BY DEF Streamed, Subscription
<1>3. Hooked'
  <2>1. Asked \in Request'
    BY Records DEF Stored, Request
  <2>2. refresh' \in Request'
    BY <2>1 DEF Hooked, Request
  <2> QED
    BY <2>2 DEF Hooked, Request
<1>4. Noted'
  BY DEF Noted
<1>5. InOrder'
  BY DEF InOrder, Unpublished
<1>6. Connected'
  BY DEF Connected
<1>7. Contiguous'
  BY DEF Contiguous
<1>8. Resyncing'
  BY Asking DEF Resyncing
<1> QED
  BY <1>1, <1>2, <1>3, <1>4, <1>5, <1>6, <1>7, <1>8

LEMMA ReadSnapshotKeeps == EventInv /\ ReadSnapshot => EventInv'
<1> SUFFICES ASSUME EventInv, ReadSnapshot PROVE EventInv'
  OBVIOUS
<1> USE DEF EventInv, Values, ReadSnapshot, daemon, stream, hook, bounds
<1>a. revision \in Nat /\ Request' = Request
  BY DEF Stored, Request
<1>b. \/ /\ refresh.stage = "asked" /\ refresh' = [refresh EXCEPT !.stage = "read", !.rev = revision]
         /\ UNCHANGED initial
      \/ /\ initial.stage = "asked" /\ initial' = [initial EXCEPT !.stage = "read", !.rev = revision]
         /\ UNCHANGED refresh
  OBVIOUS
<1>1. Stored'
  BY DEF Stored
<1>2. Streamed'
  BY DEF Streamed, Subscription
<1>3. Hooked'
  <2>1. ASSUME NEW q \in Request PROVE [q EXCEPT !.stage = "read", !.rev = revision] \in Request
    <3>1. revision \in 0 .. revision
      BY <1>a
    <3> QED
      BY <3>1 DEF Request
  <2> QED
    BY <1>a, <1>b, <2>1 DEF Hooked
<1>4. Noted'
  BY DEF Noted
<1>5. InOrder'
  BY DEF InOrder, Unpublished
<1>6. Connected'
  BY DEF Connected
<1>7. Contiguous'
  BY DEF Contiguous
<1>8. Resyncing'
  <2>1. /\ refresh'.completing = refresh.completing /\ (refresh' # NoRequest => refresh # NoRequest)
        /\ refresh'.stage = "read" => refresh' = refresh \/ refresh'.rev = revision
    <3>1. CASE UNCHANGED refresh
      BY <3>1
    <3>2. CASE refresh.stage = "asked" /\ refresh' = [refresh EXCEPT !.stage = "read", !.rev = revision]
      BY <3>2 DEF Hooked, Request, NoRequest
    <3> QED
      BY <1>b, <3>1, <3>2
  <2>2. resyncAt <= revision
    BY DEF Noted, Stored
  <2> QED
    BY <1>a, <2>1, <2>2 DEF Resyncing
<1> QED
  BY <1>1, <1>2, <1>3, <1>4, <1>5, <1>6, <1>7, <1>8

LEMMA RefreshDoneKeeps == EventInv /\ RefreshDone => EventInv'
<1> SUFFICES ASSUME EventInv, RefreshDone PROVE EventInv'
  OBVIOUS
<1> USE DEF EventInv, Values, RefreshDone, daemon, stream, hook, bounds
<1>a. \/ /\ refresh.completing /\ resyncBlocked
         /\ resyncBlocked' = FALSE /\ watermark' = 0 /\ connection' = "timer" /\ resyncAt' = 0
      \/ UNCHANGED << watermark, resyncBlocked, connection, resyncAt >>
  BY DEF Resume, Completes
<1>b. resyncBlocked => sub.status = "gone"
  BY DEF Connected
<1>c. revision \in Nat /\ refresh.rev \in 0 .. revision
  BY DEF Stored, Hooked, Request
<1>1. Stored'
  BY DEF Stored
<1>2. Streamed'
  <2>1. watermark' \in 0 .. revision
    BY <1>a, <1>c DEF Streamed
  <2> QED
    BY <1>a, <2>1 DEF Streamed, Subscription
<1>3. Hooked'
  BY Records DEF Stored, Hooked, Request
<1>4. Noted'
  <2>1. resyncAt' \in 0 .. revision
    BY <1>a, <1>c DEF Noted
  <2> QED
    BY <1>c, <2>1 DEF Noted
<1>5. InOrder'
  BY DEF InOrder, Unpublished
<1>6. Connected'
  BY <1>a, <1>b DEF Connected
<1>7. Contiguous'
  BY <1>a, <1>b DEF Contiguous
<1>8. Resyncing'
  BY <1>a DEF Resyncing, NoRequest
<1> QED
  BY <1>1, <1>2, <1>3, <1>4, <1>5, <1>6, <1>7, <1>8

LEMMA RefreshFailsKeeps == EventInv /\ RefreshFails => EventInv'
<1> SUFFICES ASSUME EventInv, RefreshFails PROVE EventInv'
  OBVIOUS
<1> USE DEF EventInv, Values, RefreshFails, daemon, stream, hook, bounds, Fault
<1>1. Stored'
  BY DEF Stored
<1>2. Streamed'
  BY DEF Streamed, Subscription
<1>3. Hooked'
  BY Records DEF Stored, Hooked, Request
<1>4. Noted'
  BY DEF Noted
<1>5. InOrder'
  BY DEF InOrder, Unpublished
<1>6. Connected'
  BY DEF Connected
<1>7. Contiguous'
  BY DEF Contiguous
<1>8. Resyncing'
  BY DEF Resyncing, NoRequest
<1> QED
  BY <1>1, <1>2, <1>3, <1>4, <1>5, <1>6, <1>7, <1>8

LEMMA InitialDoneKeeps == EventInv /\ InitialDone => EventInv'
<1> SUFFICES ASSUME EventInv, InitialDone PROVE EventInv'
  OBVIOUS
<1> USE DEF EventInv, Values, InitialDone, daemon, stream, hook, bounds
<1>1. Stored'
  BY DEF Stored
<1>2. Streamed'
  BY DEF Streamed, Subscription
<1>3. Hooked'
  BY Records DEF Stored, Hooked, Request
<1>4. Noted'
  BY DEF Noted, Hooked, Request
<1>5. InOrder'
  BY DEF InOrder, Unpublished
<1>6. Connected'
  BY DEF Connected
<1>7. Contiguous'
  BY DEF Contiguous
<1>8. Resyncing'
  BY DEF Resyncing
<1> QED
  BY <1>1, <1>2, <1>3, <1>4, <1>5, <1>6, <1>7, <1>8

LEMMA InitialFailsKeeps == EventInv /\ InitialFails => EventInv'
<1> SUFFICES ASSUME EventInv, InitialFails PROVE EventInv'
  OBVIOUS
<1> USE DEF EventInv, Values, InitialFails, daemon, stream, hook, bounds, Fault
<1>1. Stored'
  BY DEF Stored
<1>2. Streamed'
  BY DEF Streamed, Subscription
<1>3. Hooked'
  BY Records DEF Stored, Hooked, Request
<1>4. Noted'
  BY DEF Noted
<1>5. InOrder'
  BY DEF InOrder, Unpublished
<1>6. Connected'
  BY DEF Connected
<1>7. Contiguous'
  BY DEF Contiguous
<1>8. Resyncing'
  BY DEF Resyncing
<1> QED
  BY <1>1, <1>2, <1>3, <1>4, <1>5, <1>6, <1>7, <1>8

LEMMA RemountKeeps == EventInv /\ Remount => EventInv'
<1> SUFFICES ASSUME EventInv, Remount PROVE EventInv'
  OBVIOUS
<1> USE DEF EventInv, Values, Remount, daemon, stream, hook, bounds
<1>1. Stored'
  BY DEF Stored
<1>2. Streamed'
  <2>1. sub' \in Subscription' /\ Len(sub'.live) <= Buffer
    BY DeliveryAssumption, Records DEF Stored, Subscription
  <2>2. watermark' \in 0 .. revision
    BY DEF Stored, Streamed
  <2> QED
    BY <2>1, <2>2 DEF Streamed
<1>3. Hooked'
  <2>1. Request' = Request /\ {NoRequest, Asked} \subseteq Request
    BY Records DEF Stored, Request
  <2> QED
    BY <2>1 DEF Hooked
<1>4. Noted'
  BY DeliveryAssumption DEF Stored, Noted
<1>5. InOrder'
  BY DEF InOrder, Unpublished
<1>6. Connected'
  BY DEF Connected, NoSub
<1>7. Contiguous'
  BY DEF Contiguous, NoSub
<1>8. Resyncing'
  BY DEF Resyncing, NoRequest
<1> QED
  BY <1>1, <1>2, <1>3, <1>4, <1>5, <1>6, <1>7, <1>8

LEMMA ConnectKeeps == EventInv /\ Connect => EventInv'
<1> SUFFICES ASSUME EventInv, Connect PROVE EventInv'
  OBVIOUS
<1> USE DEF EventInv, Values, Connect, daemon, stream, hook, bounds
<1>1. Stored'
  BY DEF Stored
<1>2. Streamed'
  BY DEF Streamed, Subscription
<1>3. Hooked'
  BY DEF Hooked, Request
<1>4. Noted'
  BY DEF Noted
<1>5. InOrder'
  BY DEF InOrder, Unpublished
<1>6. Connected'
  BY DEF Connected
<1>7. Contiguous'
  BY DEF Contiguous
<1>8. Resyncing'
  BY DEF Resyncing
<1> QED
  BY <1>1, <1>2, <1>3, <1>4, <1>5, <1>6, <1>7, <1>8

LEMMA OpenKeeps == EventInv /\ Open => EventInv'
<1> SUFFICES ASSUME EventInv, Open PROVE EventInv'
  OBVIOUS
<1> USE DEF EventInv, Values, Open, daemon, stream, hook, bounds
<1>a. PICK w \in 0 .. revision : w = watermark
  BY DEF Streamed
<1>b. revision \in Nat /\ w \in Nat
  BY DEF Stored
<1> DEFINE n == Cardinality(Replay(w))
<1>c. n \in Nat
  <2>1. Replay(w) \subseteq 1 .. revision
    BY DEF Stored, Replay
  <2>2. IsFiniteSet(1 .. revision)
    BY <1>b, FS_Interval
  <2> QED
    BY <2>1, <2>2, FS_Subset, FS_CardinalityType
<1>d. \/ sub' = Resync
      \/ /\ Replay(w) = w + 1 .. w + n
         /\ sub' = [status |-> "open", last |-> w + n, replay |-> [k \in 1 .. n |-> w + k], live |-> << >>]
  BY <1>a DEF Subscribed
<1>e. Replay(w) = w + 1 .. w + n => w + n \in 0 .. revision
  <2> SUFFICES ASSUME Replay(w) = w + 1 .. w + n PROVE w + n \in 0 .. revision
    OBVIOUS
  <2> HIDE DEF n
  <2>1. CASE n = 0
    BY <2>1, <1>b
  <2>2. CASE n # 0
    <3>1. w + n \in w + 1 .. w + n
      BY <1>b, <1>c, <2>2
    <3> QED
      BY <3>1 DEF Replay, Stored
  <2> QED
    BY <2>1, <2>2
<1>f. Bridges(w, [k \in 1 .. n |-> w + k], << >>, w + n) /\ [k \in 1 .. n |-> w + k] \in Seq(Nat)
  BY <1>b, <1>c, BridgeStarts
<1> HIDE DEF n
<1>1. Stored'
  BY DEF Stored
<1>2. Streamed'
  <2>1. << >> \in Seq(Nat) /\ Len(<< >>) = 0 /\ 0 <= Buffer
    BY DeliveryAssumption
  <2>2. sub' \in Subscription /\ Len(sub'.live) <= Buffer
    <3>1. CASE sub' = Resync
      BY <1>b, <2>1, <3>1, Records DEF Subscription
    <3>2. CASE /\ Replay(w) = w + 1 .. w + n
               /\ sub' = [status |-> "open", last |-> w + n, replay |-> [k \in 1 .. n |-> w + k], live |-> << >>]
      BY <1>e, <1>f, <2>1, <3>2 DEF Subscription
    <3> QED
      BY <1>d, <3>1, <3>2
  <2>3. Subscription' = Subscription
    BY DEF Subscription
  <2> QED
    BY <2>2, <2>3 DEF Streamed
<1>3. Hooked'
  BY DEF Hooked, Request
<1>4. Noted'
  BY DEF Noted
<1>5. InOrder'
  BY DEF InOrder, Unpublished
<1>6. Connected'
  BY DEF Connected
<1>7. Contiguous'
  <2>1. CASE sub' = Resync
    BY <2>1, Resyncs DEF Contiguous
  <2>2. CASE /\ Replay(w) = w + 1 .. w + n
             /\ sub' = [status |-> "open", last |-> w + n, replay |-> [k \in 1 .. n |-> w + k], live |-> << >>]
    <3>1. ASSUME NEW e \in outbox PROVE e <= w + n
      <4>1. e \in Nat
        BY DEF Stored
      <4>2. e > w => e \in Replay(w)
        BY DEF Replay
      <4> QED
        BY <1>b, <1>c, <2>2, <4>1, <4>2
    <3>2. dispatcher.offered => dispatcher.row \in outbox
      BY DEF InOrder, Unpublished
    <3>3. /\ sub'.last = w + n /\ sub'.replay = [k \in 1 .. n |-> w + k] /\ sub'.live = << >>
          /\ watermark' = w
      BY <1>a, <2>2
    <3> QED
      BY <1>f, <3>1, <3>2, <3>3 DEF Contiguous
  <2> QED
    BY <1>d, <2>1, <2>2
<1>8. Resyncing'
  BY DEF Resyncing
<1> QED
  BY <1>1, <1>2, <1>3, <1>4, <1>5, <1>6, <1>7, <1>8

LEMMA LoseConnectionKeeps == EventInv /\ LoseConnection => EventInv'
<1> SUFFICES ASSUME EventInv, LoseConnection PROVE EventInv'
  OBVIOUS
<1> USE DEF EventInv, Values, LoseConnection, daemon, stream, hook, bounds, Fault
<1>1. Stored'
  BY DEF Stored
<1>2. Streamed'
  BY DeliveryAssumption, Records DEF Stored, Streamed, Subscription
<1>3. Hooked'
  BY DEF Hooked, Request
<1>4. Noted'
  BY DEF Noted
<1>5. InOrder'
  BY DEF InOrder, Unpublished
<1>6. Connected'
  BY DEF Connected, NoSub
<1>7. Contiguous'
  BY DEF Contiguous, NoSub
<1>8. Resyncing'
  BY DEF Resyncing
<1> QED
  BY <1>1, <1>2, <1>3, <1>4, <1>5, <1>6, <1>7, <1>8

LEMMA ClosedKeeps == EventInv /\ Closed => EventInv'
<1> SUFFICES ASSUME EventInv, Closed PROVE EventInv'
  OBVIOUS
<1> USE DEF EventInv, Values, Closed, daemon, stream, hook, bounds
<1>1. Stored'
  BY DEF Stored
<1>2. Streamed'
  BY DEF Streamed, Subscription
<1>3. Hooked'
  BY DEF Hooked, Request
<1>4. Noted'
  BY DEF Noted
<1>5. InOrder'
  BY DEF InOrder, Unpublished
<1>6. Connected'
  BY DEF Connected
<1>7. Contiguous'
  BY DEF Contiguous
<1>8. Resyncing'
  BY DEF Resyncing
<1> QED
  BY <1>1, <1>2, <1>3, <1>4, <1>5, <1>6, <1>7, <1>8

LEMMA ReceiveKeeps == EventInv /\ Receive => EventInv'
<1> SUFFICES ASSUME EventInv, Receive PROVE EventInv'
  OBVIOUS
<1> USE DEF EventInv, Values, Receive, daemon, stream, hook, bounds
<1>a. PICK w \in 0 .. revision : w = watermark
  BY DEF Streamed
<1>b. /\ revision \in Nat /\ w \in Nat /\ sub.replay \in Seq(Nat) /\ sub.live \in Seq(Nat)
      /\ sub.last \in Nat /\ sub.last <= revision /\ resyncBlocked = FALSE
      /\ Request' = Request /\ Subscription' = Subscription
  BY DEF Stored, Streamed, Subscription, Connected, Request
<1>c. ASSUME sub.status = "open", sub.replay \o sub.live # << >>
      PROVE  /\ NextEvent = w + 1 /\ Bridges(w + 1, Taken.replay, Taken.live, sub.last)
             /\ Taken.status = "open" /\ Taken.last = sub.last
             /\ Taken \in Subscription /\ Len(Taken.live) <= Buffer
  <2>1. Bridges(w, sub.replay, sub.live, sub.last)
    BY <1>a, <1>c DEF Contiguous
  <2>2. CASE sub.replay # << >>
    <3>1. Taken = [sub EXCEPT !.replay = Tail(@)] /\ NextEvent = Head(sub.replay)
      BY <2>2 DEF Taken, NextEvent
    <3>2. Tail(sub.replay) \in Seq(Nat)
      BY <1>b, <2>2
    <3>3. NextEvent = w + 1 /\ Bridges(w + 1, Tail(sub.replay), sub.live, sub.last)
      BY <1>b, <2>1, <2>2, <3>1, BridgeShrinks
    <3> QED
      BY <1>c, <3>1, <3>2, <3>3 DEF Streamed, Subscription
  <2>3. CASE sub.replay = << >>
    <3>1. sub.live # << >>
      BY <1>b, <1>c, <2>3
    <3>2. Taken = [sub EXCEPT !.live = Tail(@)] /\ NextEvent = Head(sub.live)
      BY <2>3 DEF Taken, NextEvent
    <3>3. Tail(sub.live) \in Seq(Nat) /\ Len(Tail(sub.live)) <= Buffer
      BY <1>b, <3>1, DeliveryAssumption DEF Streamed
    <3>4. NextEvent = w + 1 /\ Bridges(w + 1, sub.replay, Tail(sub.live), sub.last)
      BY <1>b, <2>1, <2>3, <3>1, <3>2, BridgeShrinks
    <3> QED
      BY <1>c, <3>2, <3>3, <3>4 DEF Streamed, Subscription
  <2> QED
    BY <2>2, <2>3
<1>d. \/ RequireResync
      \/ /\ sub.status = "open" /\ sub.replay \o sub.live # << >> /\ NextEvent = w + 1
         /\ Accept(w + 1) /\ sub' = Taken
  BY <1>a, <1>b, <1>c
<1>e. /\ pending' = TRUE /\ refreshTimer' = (refreshTimer \/ refresh = NoRequest)
      /\ resyncRequired' => resyncBlocked'
  BY <1>d DEF RequireResync, Accept, ScheduleRefresh, Resyncing
<1>f. sub.status = "open" /\ sub.replay \o sub.live # << >> => w + 1 <= sub.last
  <2> SUFFICES ASSUME sub.status = "open", sub.replay \o sub.live # << >> PROVE w + 1 <= sub.last
    OBVIOUS
  <2>1. Taken.replay \in Seq(Nat) /\ Taken.live \in Seq(Nat)
    BY <1>c DEF Subscription
  <2>2. PICK a \in Nat, b \in Nat : a = Len(Taken.replay) /\ b = Len(Taken.live)
    BY <2>1
  <2>3. a + b = sub.last - (w + 1)
    BY <1>c, <2>2 DEF Bridges
  <2> QED
    BY <1>b, <2>3
<1>g. refresh.completing = FALSE
  BY <1>b DEF Resyncing, Hooked, Request
<1>1. Stored'
  BY DEF Stored
<1>2. Streamed'
  <2>1. CASE RequireResync
    BY <1>a, <1>b, <2>1, DeliveryAssumption, Records DEF RequireResync, Streamed, Subscription
  <2>2. CASE /\ sub.status = "open" /\ sub.replay \o sub.live # << >>
             /\ Accept(w + 1) /\ sub' = Taken
    <3>1. w + 1 \in 0 .. revision
      BY <1>b, <1>f, <2>2
    <3> QED
      BY <1>b, <1>c, <2>2, <3>1 DEF Accept, Streamed
  <2> QED
    BY <1>d, <2>1, <2>2
<1>3. Hooked'
  <2>1. refreshTimer' \in BOOLEAN /\ resyncRequired' \in BOOLEAN
    BY <1>d DEF RequireResync, Accept, ScheduleRefresh, Hooked
  <2> QED
    BY <1>b, <1>e, <2>1 DEF Hooked
<1>4. Noted'
  <2>1. resyncAt' \in 0 .. revision
    <3>1. revision \in 0 .. revision
      BY <1>b
    <3> QED
      BY <1>d, <3>1 DEF RequireResync, Accept, Noted
  <2> QED
    BY <2>1 DEF Noted
<1>5. InOrder'
  BY DEF InOrder, Unpublished
<1>6. Connected'
  <2>1. CASE RequireResync
    BY <2>1 DEF RequireResync, Connected, NoSub
  <2>2. CASE Accept(w + 1)
    BY <1>b, <2>2 DEF Accept, Connected
  <2> QED
    BY <1>d, <2>1, <2>2
<1>7. Contiguous'
  <2>1. CASE RequireResync
    BY <2>1 DEF RequireResync, Contiguous, NoSub
  <2>2. CASE /\ sub.status = "open" /\ sub.replay \o sub.live # << >>
             /\ Accept(w + 1) /\ sub' = Taken
    BY <1>c, <2>2 DEF Accept, Contiguous
  <2> QED
    BY <1>d, <2>1, <2>2
<1>8. Resyncing'
  BY <1>d, <1>e, <1>g DEF Resyncing, Hooked
<1> QED
  BY <1>1, <1>2, <1>3, <1>4, <1>5, <1>6, <1>7, <1>8
-----------------------------------------------------------------------------
(* The invariant and what follows from it *)

LEMMA EventStep == EventInv /\ [Next]_vars => EventInv'
<1> SUFFICES ASSUME EventInv, [Next]_vars PROVE EventInv'
  OBVIOUS
<1>1. CASE Dispatch
  BY <1>1, ReadPendingKeeps, OfferKeeps, AcknowledgeKeeps DEF Dispatch
<1>2. CASE Stream
  BY <1>2, ConnectKeeps, OpenKeeps, ReceiveKeeps, ClosedKeeps DEF Stream
<1>3. CASE Hook
  BY <1>3, RefreshKeeps, ReadSnapshotKeeps, RefreshDoneKeeps, InitialDoneKeeps DEF Hook
<1>4. CASE Failure
  BY <1>4, AcknowledgeFailsKeeps, CrashKeeps, LoseConnectionKeeps, RefreshFailsKeeps, InitialFailsKeeps
     DEF Failure
<1>5. CASE Commit \/ Prune \/ Remount
  BY <1>5, CommitKeeps, PruneKeeps, RemountKeeps
<1>6. CASE UNCHANGED vars
  <2> USE DEF EventInv, Values, vars, daemon, stream, hook, bounds
  <2>1. Values'
    BY <1>6 DEF Stored, Streamed, Subscription, Hooked, Request, Noted
  <2>2. InOrder' /\ Connected'
    BY <1>6 DEF InOrder, Unpublished, Connected
  <2>3. Contiguous' /\ Resyncing'
    BY <1>6 DEF Contiguous, Resyncing
  <2> QED
    BY <2>1, <2>2, <2>3
<1> QED
  BY <1>1, <1>2, <1>3, <1>4, <1>5, <1>6 DEF Next

\* The inductive invariant holds: unpublished events stay stored and are published
\* in order (DispatchOnce, PruneOutbox), an open subscription continues its stream
\* without a gap (Bus.Subscribe, offerLive, Subscription.Next), and the refresh that
\* completes a resync was asked for after it (useSnapshot).
THEOREM EventsInvariant == Spec => []EventInv
BY EventStart, EventStep, PTL DEF Spec

\* Type correctness: revisions, rows, the limits of the subscription, and one
\* refresh of the view at a time.
THEOREM EventTypesHold == Spec => []EventTypeOK
<1>1. EventInv => EventTypeOK
  BY DEF EventInv, Values, Stored, Streamed, Subscription, Hooked, Noted, Connected, Resyncing, EventTypeOK
<1> QED
  BY <1>1, EventsInvariant, PTL

\* What a bridge holds is, as one sequence, the numbers after w up to l.
LEMMA BridgeIsWhole ==
  ASSUME NEW w \in Nat, NEW p \in Seq(Nat), NEW q \in Seq(Nat), NEW l \in Nat, Bridges(w, p, q, l)
  PROVE  p \o q = [k \in 1 .. l - w |-> w + k]
<1>1. PICK a \in Nat, b \in Nat : Len(p) = a /\ Len(q) = b
  OBVIOUS
<1>2. a + b = l - w
  BY <1>1 DEF Bridges
<1>3. /\ p \o q \in Seq(Nat) /\ Len(p \o q) = a + b
      /\ \A k \in 1 .. a + b : (p \o q)[k] = IF k <= a THEN p[k] ELSE q[k - a]
  BY <1>1, ConcatProperties
<1>4. ASSUME NEW k \in 1 .. a + b PROVE (p \o q)[k] = w + k
  <2>1. CASE k <= a
    <3>1. k \in 1 .. a
      BY <2>1
    <3> QED
      BY <1>1, <1>3, <2>1, <3>1 DEF Bridges
  <2>2. CASE ~(k <= a)
    <3>1. k - a \in 1 .. b
      BY <2>2
    <3>2. q[k - a] = w + a + (k - a)
      BY <1>1, <3>1 DEF Bridges
    <3>3. w + a + (k - a) = w + k
      OBVIOUS
    <3> QED
      BY <1>3, <2>2, <3>2, <3>3
  <2> QED
    BY <2>1, <2>2
<1>5. [k \in 1 .. a + b |-> w + k] \in Seq(Nat) /\ Len([k \in 1 .. a + b |-> w + k]) = a + b
  OBVIOUS
<1>6. p \o q = [k \in 1 .. a + b |-> w + k]
  BY <1>3, <1>4, <1>5, SeqEqual
<1> QED
  BY <1>2, <1>6

\* Between replay and live delivery no event is lost (Bus.Subscribe reads the replay
\* and registers the subscription under one lock): a stream that is connected has
\* accepted, or still holds, every published event that is stored.
THEOREM BoundaryIsKept == Spec => []BoundaryHolds
<1>1. EventInv => BoundaryHolds
  <2> SUFFICES ASSUME EventInv, sub.status = "open"
               PROVE  /\ sub.replay \o sub.live = [k \in 1 .. sub.last - watermark |-> watermark + k]
                      /\ \A e \in outbox \cap published : e <= sub.last
    BY DEF BoundaryHolds
  <2>1. /\ watermark \in Nat /\ sub.last \in Nat /\ sub.replay \in Seq(Nat) /\ sub.live \in Seq(Nat)
    BY DEF EventInv, Values, Stored, Streamed, Subscription
  <2>2. /\ Bridges(watermark, sub.replay, sub.live, sub.last)
        /\ \A e \in outbox \cap published : e <= sub.last
    BY DEF EventInv, Contiguous
  <2> QED
    BY <2>1, <2>2, BridgeIsWhole
<1> QED
  BY <1>1, EventsInvariant, PTL

\* A stream that was told to resync follows the events again only over a snapshot
\* read after it was told (completeResync in refreshAuthoritativeSnapshot).
THEOREM ResyncIsCovered == Spec => ResyncCovers
<1>1. EventInv /\ [Next]_vars =>
        [resyncBlocked /\ ~resyncBlocked' /\ mounts' = mounts => shown' >= resyncAt]_vars
  <2> SUFFICES ASSUME EventInv, Next, resyncBlocked, ~resyncBlocked', mounts' = mounts
               PROVE  shown' >= resyncAt
    OBVIOUS
  <2>1. ~Remount
    BY DEF Remount, EventInv, Values, Noted
  <2>2. ~Receive
    BY DEF Receive, EventInv, Connected
  <2>3. RefreshDone
    BY <2>1, <2>2 DEF Next, Dispatch, ReadPending, Offer, Acknowledge, Stream, Connect, Open, Closed,
       Hook, Refresh, ReadSnapshot, InitialDone, Failure, AcknowledgeFails, Crash, LoseConnection,
       RefreshFails, InitialFails, Commit, Prune, stream
  <2>4. refresh.completing
    BY <2>3 DEF RefreshDone, Resume, Completes, stream
  <2> QED
    BY <2>3, <2>4 DEF RefreshDone, EventInv, Resyncing
<1> QED
  BY <1>1, EventsInvariant, PTL DEF ResyncCovers, Spec
=============================================================================
