--------------------------- MODULE RequestEvents ---------------------------
(***************************************************************************)
(* The funnel every finished request goes through (events.rs): the ring of *)
(* recent rows, the per-minute error window that the alert loop reads, and *)
(* the bounded channel to the one task that writes usage_daily.  Requests  *)
(* finish on several threads, so emit is not atomic: each part takes its   *)
(* own lock, and the minute is read before the window's lock.              *)
(*                                                                         *)
(* This module is the funnel alone; RequestLife drives it.                 *)
(***************************************************************************)
EXTENDS Picks

CONSTANTS
    Requests,    \* one finished product request each
    RingCap,     \* RING_CAP
    ChannelCap,  \* USAGE_CHANNEL_CAP
    Window,      \* ALERT_WINDOW_MINUTES
    MinTotal,    \* ALERT_MIN_TOTAL
    NoRequest

ASSUME FunnelAssumption ==
    /\ {RingCap, ChannelCap, Window, MinTotal} \subseteq Nat
    /\ RingCap > 0 /\ ChannelCap > 0
    /\ NoRequest \notin Requests

VARIABLES
    ring,     \* the requests whose row is in the ring, oldest first
    minute,   \* the clock, in epoch minutes
    window,   \* the error window's buckets
    queue,    \* the usage channel
    busy,     \* the delta the writer is upserting
    written,  \* the requests whose delta is in usage_daily
    dropped,  \* the requests whose delta was counted as dropped
    writer,   \* "up", "draining", "drained" (try_recv saw nothing), "gone"
    stop      \* the permit writer_stop stores

funnel == <<ring, minute, window, queue, busy, written, dropped, writer, stop>>

FunnelInit ==
    /\ ring = <<>> /\ minute = 0 /\ window = <<>>
    /\ queue = <<>> /\ busy = NoRequest
    /\ written = {} /\ dropped = {}
    /\ writer = "up" /\ stop = FALSE

-----------------------------------------------------------------------------
(* The ring and the window.                                                *)

Pushed(rows, r) ==
    IF Len(rows) = RingCap THEN Append(Tail(rows), r) ELSE Append(rows, r)

\* One finished request counted in the bucket of minute m.
Counted(bs, m, failed) ==
    LET e == IF failed THEN 1 ELSE 0
        n == Len(bs)
    IN  IF n > 0 /\ bs[n].minute = m
          THEN [bs EXCEPT ![n].total = @ + 1, ![n].errors = @ + e]
          ELSE Append(bs, [minute |-> m, total |-> 1, errors |-> e])

\* What a bug would look like: the oldest minute of the window goes, too.
FirstWithin(bs, now) ==
    CHOOSE i \in 1..(Len(bs) + 1) :
        /\ \A j \in 1..(i - 1) : bs[j].minute <= now - Window
        /\ i <= Len(bs) => bs[i].minute > now - Window

\* Where pruning from the front stops: the first bucket in the window.
FirstRecent(bs, now) ==
    CHOOSE i \in 1..(Len(bs) + 1) :
        /\ \A j \in 1..(i - 1) : bs[j].minute < now - Window
        /\ i <= Len(bs) => bs[i].minute >= now - Window

Pruned(bs, now) == SubSeq(bs, FirstRecent(bs, now), Len(bs))

CountsOf(bs) ==
    [total  |-> Total([i \in DOMAIN bs |-> bs[i].total]),
     errors |-> Total([i \in DOMAIN bs |-> bs[i].errors])]

\* What a bug would look like: half is taken for more than half.
HighAtHalf(total, errors) == total >= MinTotal /\ total > 0 /\ 2 * errors >= total

\* check_error_rate: strictly more than half, of enough requests.
High(total, errors) == total >= MinTotal /\ 2 * errors > total

\* Whether a check at this moment raises the alarm.
Alarm(bs, now) ==
    LET c == CountsOf(Pruned(bs, now)) IN High(c.total, c.errors)

\* The 60-second loop reads the window, which prunes it.
AlertCheck ==
    /\ window' = Pruned(window, minute)
    /\ UNCHANGED <<ring, minute, queue, busy, written, dropped, writer, stop>>

Minute ==
    /\ minute' = minute + 1
    /\ UNCHANGED <<ring, window, queue, busy, written, dropped, writer, stop>>

-----------------------------------------------------------------------------
(* The usage channel and its writer.                                       *)

\* What a bug would look like: a full channel loses the delta in silence.
SentSilently(r) ==
    /\ IF writer # "gone" /\ Len(queue) < ChannelCap
         THEN queue' = Append(queue, r)
         ELSE queue' = queue
    /\ UNCHANGED dropped

Sent(r) ==
    IF writer # "gone" /\ Len(queue) < ChannelCap
      THEN queue' = Append(queue, r) /\ UNCHANGED dropped
      ELSE dropped' = dropped \union {r} /\ UNCHANGED queue

\* recv, or try_recv while draining; the stop permit goes first.
WriterTakes ==
    /\ writer = "draining" \/ (writer = "up" /\ ~stop)
    /\ busy = NoRequest
    /\ queue # <<>>
    /\ busy' = Head(queue)
    /\ queue' = Tail(queue)
    /\ UNCHANGED <<ring, minute, window, written, dropped, writer, stop>>

\* upsert_usage: the row is added to, or the failure is counted.
WriterEnds ==
    /\ busy # NoRequest
    /\ \/ written' = written \union {busy} /\ UNCHANGED dropped
       \/ dropped' = dropped \union {busy} /\ UNCHANGED written
    /\ busy' = NoRequest
    /\ UNCHANGED <<ring, minute, window, queue, writer, stop>>

WriterStops ==
    /\ writer = "up" /\ stop /\ busy = NoRequest
    /\ writer' = "draining"
    /\ stop' = FALSE
    /\ UNCHANGED <<ring, minute, window, queue, busy, written, dropped>>

WriterDrained ==
    /\ writer = "draining" /\ busy = NoRequest /\ queue = <<>>
    /\ writer' = "drained"
    /\ UNCHANGED <<ring, minute, window, queue, busy, written, dropped, stop>>

\* The task returns and the receiver goes with it, and with the receiver what
\* was sent since try_recv saw an empty channel.
WriterGone ==
    /\ writer = "drained"
    /\ writer' = "gone"
    /\ queue' = <<>>
    /\ UNCHANGED <<ring, minute, window, busy, written, dropped, stop>>

Writer == \/ WriterTakes \/ WriterEnds \/ WriterStops
          \/ WriterDrained \/ WriterGone
=============================================================================
