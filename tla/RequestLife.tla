---------------------------- MODULE RequestLife ----------------------------
(***************************************************************************)
(* The life of a product request between the transport and its event: a    *)
(* REST handler (product/mod.rs, product/search.rs) or an MCP tool call    *)
(* (mcp/mod.rs).  A tool call is admitted under its token's cap, races its *)
(* product call against the client's cancellation and the deadline, lets   *)
(* its progress frames out, and then emits its one event through the       *)
(* funnel.  main drains the server, stops the writer and leaves.           *)
(***************************************************************************)
EXTENDS McpAdmission, FiniteSetsExt, SequencesExt

CONSTANTS
    MaxFrames,  \* bound: progress frames of a call queued at once
    Scripts     \* bound: how often a behaviour has each of the events below

Events == {"call", "short", "minute", "stop"}

ASSUME LifeAssumption == MaxFrames \in Nat /\ Scripts \subseteq [Events -> Nat]

VARIABLES
    pc,       \* where the request is
    kind,     \* "rest" or "tool"
    paid,     \* history: the call had its answer when the race was decided
    outcome,  \* how the request ended
    frames,   \* progress frames queued and not yet taken by the transport
    stamp,    \* the minute emit read
    main,     \* "serve", then "stopping" once the writer was told to stop
    early,    \* history: the requests whose delta was sent before shutdown()
    newest,   \* history: the newest minute that a request was counted in
    ahead,    \* history: that minute as it was before the request was counted
    left      \* what is left of the behaviour's script

past == <<early, newest, ahead, left>>
life == <<pc, kind, paid, outcome, frames, stamp, main, past>>
vars == <<funnel, admission, life>>

Init ==
    /\ FunnelInit
    /\ AdmissionInit
    /\ pc = [r \in Requests |-> "idle"]
    /\ kind = [r \in Requests |-> "none"]
    /\ paid = [r \in Requests |-> FALSE]
    /\ outcome = [r \in Requests |-> "none"]
    /\ frames = [r \in Requests |-> 0]
    /\ stamp = [r \in Requests |-> 0]
    /\ main = "serve"
    /\ early = {}
    /\ newest = 0
    /\ ahead = [r \in Requests |-> 0]
    /\ left \in Scripts

\* One more of an event that the script has left.
Spend(event) == left[event] > 0 /\ left' = [left EXCEPT ![event] = @ - 1]

Failed(r) == outcome[r] # "ok"

-----------------------------------------------------------------------------
(* Up to the product call.                                                 *)

Refused(r) ==
    /\ outcome' = [outcome EXCEPT ![r] = "refused"]
    /\ pc' = [pc EXCEPT ![r] = "emit"]
    /\ UNCHANGED kind

\* The token is missing, unknown or cannot be looked up.
Unauthorized(r) == Refused(r)

\* The JSON body of a REST request does not parse or is too large.
BadBody(r) == Refused(r)

\* The health tool takes no permit and runs no race: it reads the schema
\* version and emits.
Health(r) ==
    /\ \/ outcome' = [outcome EXCEPT ![r] = "ok"]
       \/ outcome' = [outcome EXCEPT ![r] = "failed"]
    /\ pc' = [pc EXCEPT ![r] = "emit"]
    /\ UNCHANGED kind

CallsRest(r) ==
    /\ kind' = [kind EXCEPT ![r] = "rest"]
    /\ pc' = [pc EXCEPT ![r] = "prepare"]
    /\ UNCHANGED outcome

\* search, extract_url, research: admission comes first.
CallsTool(r) ==
    /\ kind' = [kind EXCEPT ![r] = "tool"]
    /\ pc' = [pc EXCEPT ![r] = "lookup"]
    /\ UNCHANGED outcome

\* The transport hands the request over.  Requests are names: whichever comes
\* next is given the next one.
Arrive(r) ==
    /\ main = "serve"
    /\ pc[r] = "idle" /\ r = CHOOSE x \in Requests : pc[x] = "idle"
    /\ \/ Spend("short") /\ (Unauthorized(r) \/ BadBody(r) \/ Health(r))
       \/ Spend("call") /\ (CallsRest(r) \/ CallsTool(r))
    /\ UNCHANGED <<funnel, admission, paid, frames, stamp, main, early, newest, ahead>>

\* admit, before anything else: find the bucket,
Find(r) ==
    /\ pc[r] = "lookup"
    /\ LookUp(r)
    /\ pc' = [pc EXCEPT ![r] = "try"]
    /\ UNCHANGED <<funnel, kind, paid, outcome, frames, stamp, main,
                   past>>

\* and try it: a full bucket answers KeyBusy at once.
Try(r) ==
    /\ pc[r] = "try"
    /\ \/ /\ Admit(r)
          /\ pc' = [pc EXCEPT ![r] = "prepare"]
          /\ UNCHANGED outcome
       \/ /\ Refuse(r)
          /\ pc' = [pc EXCEPT ![r] = "emit"]
          /\ outcome' = [outcome EXCEPT ![r] = "refused"]
    /\ UNCHANGED <<funnel, kind, paid, frames, stamp, main, past>>

\* The arguments of a tool are deserialized and checked; what fails is
\* answered without a call.
PrepareTool(r) ==
    /\ kind[r] = "tool"
    /\ \/ Refused(r)
       \/ pc' = [pc EXCEPT ![r] = "running"] /\ UNCHANGED <<kind, outcome>>

\* A REST handler checks the query and the closed sets.
PrepareRest(r) ==
    /\ kind[r] = "rest"
    /\ \/ Refused(r)
       \/ pc' = [pc EXCEPT ![r] = "running"] /\ UNCHANGED <<kind, outcome>>

Prepare(r) ==
    /\ pc[r] = "prepare"
    /\ PrepareTool(r) \/ PrepareRest(r)
    /\ UNCHANGED <<funnel, admission, paid, frames, stamp, main, past>>

-----------------------------------------------------------------------------
(* The race.                                                               *)

\* The product call emits a frame; only the model bounds the queue.
Frame(r) ==
    /\ pc[r] = "running" /\ kind[r] = "tool"
    /\ frames[r] < MaxFrames
    /\ frames' = [frames EXCEPT ![r] = @ + 1]
    /\ UNCHANGED <<funnel, admission, pc, kind, paid, outcome, stamp, main,
                   past>>

\* The delivery task hands a frame to the peer; nothing bounds how long the
\* peer takes.
Deliver(r) ==
    /\ frames[r] > 0
    /\ frames' = [frames EXCEPT ![r] = @ - 1]
    /\ UNCHANGED <<funnel, admission, pc, kind, paid, outcome, stamp, main,
                   past>>

Answers == {"ok", "failed"}

\* What a poll of the race may find ready: the call's result, the deadline,
\* and for a tool the client's cancellation.
Ready(r) ==
    {s \in SUBSET {"ok", "failed", "cancelled", "timeout"} :
        /\ s # {} /\ ~(Answers \subseteq s)
        /\ kind[r] = "rest" => "cancelled" \notin s}

\* The arm that a biased select takes: the call, the cancellation, the
\* deadline.
Polled(s) ==
    IF s \intersect Answers # {} THEN CHOOSE x \in s \intersect Answers : TRUE
    ELSE IF "cancelled" \in s THEN "cancelled" ELSE "timeout"

Decided(r) ==
    \E s \in Ready(r) :
        /\ outcome' = [outcome EXCEPT ![r] = Polled(s)]
        /\ paid' = [paid EXCEPT ![r] = s \intersect Answers # {}]

\* What a bug would look like: only a finished call is flushed.
PollToolFlushesAnswers(r) ==
    /\ kind[r] = "tool"
    /\ Decided(r)
    /\ pc' = [pc EXCEPT ![r] = IF paid'[r] THEN "flush" ELSE "emit"]

\* race_deadline is polled; the losing call is dropped, and every arm closes
\* the progress queue.
PollTool(r) ==
    /\ kind[r] = "tool"
    /\ Decided(r)
    /\ pc' = [pc EXCEPT ![r] = "flush"]

\* run_with_deadline: the timeout polls the call before its timer.
PollRest(r) ==
    /\ kind[r] = "rest"
    /\ Decided(r)
    /\ pc' = [pc EXCEPT ![r] = "emit"]

Poll(r) ==
    /\ pc[r] = "running"
    /\ PollTool(r) \/ PollRest(r)
    /\ UNCHANGED <<funnel, admission, kind, frames, stamp, main, past>>

\* The delivery task has drained the queue and rings.
Flushed(r) ==
    /\ pc[r] = "flush"
    /\ frames[r] = 0
    /\ pc' = [pc EXCEPT ![r] = "emit"]
    /\ UNCHANGED <<funnel, admission, kind, paid, outcome, frames,
                   stamp, main, past>>

\* The connection of a REST request closes: its handler is dropped at the
\* await it is at, and no event is emitted.
Disconnect(r) ==
    /\ kind[r] = "rest" /\ pc[r] \in {"prepare", "running"}
    /\ pc' = [pc EXCEPT ![r] = "dropped"]
    /\ UNCHANGED <<funnel, admission, kind, paid, outcome, frames, stamp,
                   main, past>>

-----------------------------------------------------------------------------
(* emit: the ring, then the clock is read; the window; the channel.  None  *)
(* of it awaits, but each part is its own critical section.                *)

\* The row and all that follows know how the request ended by its status alone.
EmitRow(r) ==
    /\ pc[r] = "emit"
    /\ ring' = Pushed(ring, r)
    /\ stamp' = [stamp EXCEPT ![r] = minute]
    /\ outcome' = [outcome EXCEPT ![r] = IF Failed(r) THEN "failed" ELSE "ok"]
    /\ paid' = [paid EXCEPT ![r] = FALSE]
    /\ pc' = [pc EXCEPT ![r] = "record"]
    /\ UNCHANGED <<minute, window, queue, busy, written, dropped, writer, stop,
                   admission, kind, frames, main, past>>

EmitRecord(r) ==
    /\ pc[r] = "record"
    /\ window' = Counted(window, stamp[r], Failed(r))
    /\ ahead' = [ahead EXCEPT ![r] = newest]
    /\ newest' = IF stamp[r] > newest THEN stamp[r] ELSE newest
    /\ pc' = [pc EXCEPT ![r] = "send"]
    /\ UNCHANGED <<ring, minute, queue, busy, written, dropped, writer, stop,
                   admission, kind, paid, outcome, frames, stamp, main,
                   early, left>>

\* What a bug would look like: an admission refusal keeps its slot's clone
\* and a finished call its permit.
EmitSendLeaks(r) ==
    /\ pc[r] = "send"
    /\ Sent(r)
    /\ pc' = [pc EXCEPT ![r] = "done"]
    /\ UNCHANGED <<ring, minute, window, busy, written, writer, stop,
                   admission, kind, paid, outcome, frames, stamp, main,
                   past>>

\* try_send, and the handler returns its result and its permit.
EmitSend(r) ==
    /\ pc[r] = "send"
    /\ Sent(r)
    /\ Return(r)
    /\ pc' = [pc EXCEPT ![r] = "done"]
    /\ kind' = [kind EXCEPT ![r] = "none"]
    /\ UNCHANGED <<ring, minute, window, busy, written, writer, stop,
                   paid, outcome, frames, stamp, main, past>>

-----------------------------------------------------------------------------
(* main.                                                                   *)

\* After the signal no request arrives.  Once the server has drained, or its
\* grace is over and the connections' tasks run on, the loops are aborted and
\* the writer is told to stop.  The process may end at any moment from here.
Shutdown ==
    /\ main = "serve"
    /\ Spend("stop")
    /\ main' = "stopping"
    /\ stop' = TRUE
    /\ early' = {r \in Requests : pc[r] = "done"}
    /\ UNCHANGED <<ring, minute, window, queue, busy, written, dropped, writer,
                   admission, pc, kind, paid, outcome, frames, stamp,
                   newest, ahead>>

Alert == main = "serve" /\ AlertCheck /\ UNCHANGED <<admission, life>>

Tick ==
    /\ Spend("minute")
    /\ Minute
    /\ UNCHANGED <<admission, pc, kind, paid, outcome, frames, stamp, main, early,
                   newest, ahead>>

WriterStep == Writer /\ UNCHANGED <<admission, life>>

Emit(r) == EmitRow(r) \/ EmitRecord(r) \/ EmitSend(r)

Step(r) ==
    \/ Find(r) \/ Try(r) \/ Prepare(r) \/ Poll(r) \/ Flushed(r) \/ Emit(r)

Next ==
    \/ \E r \in Requests :
        Arrive(r) \/ Step(r) \/ Frame(r) \/ Deliver(r) \/ Disconnect(r)
    \/ Alert \/ Tick \/ WriterStep \/ Shutdown

Spec == Init /\ [][Next]_vars

\* The runtime polls every ready task, the timer of a running call fires, the
\* client's side takes frames, and the writer's statements return.  No client
\* has to call, cancel or hang up, and nobody has to stop the server.
Fairness ==
    /\ \A r \in Requests : WF_vars(Step(r)) /\ WF_vars(Deliver(r))
    /\ WF_vars(WriterStep)

FairSpec == Spec /\ Fairness
-----------------------------------------------------------------------------
(* What the ceremony promises.                                             *)

\* A result that is ready is never thrown away for a cancellation or a
\* deadline of the same poll.
PaidAnswerServed ==
    \A r \in Requests : paid[r] => outcome[r] \in Answers

\* Every queued frame is with the transport before the terminal result, also
\* after a cancellation and a deadline.
FramesFirst ==
    \A r \in Requests : pc[r] \in {"emit", "record", "send", "done"} =>
        frames[r] = 0

\* A request that ended has one row; the ring lost it only to newer ones.
RowForEveryEnd ==
    /\ IsInjective(ring)
    /\ \A r \in Requests :
        IF pc[r] \in {"record", "send", "done"}
          THEN r \in Range(ring) \/ Len(ring) = RingCap
          ELSE r \notin Range(ring)

\* Whatever is ready in one poll, a request ends in one way: a paid answer is
\* served, its frames come first and it leaves one row (run_tool, emit).
EndsOnce == PaidAnswerServed /\ FramesFirst /\ RowForEveryEnd

\* The requests that count from minute m on: those of m and later, and those
\* of an older minute that were counted behind one of m or later.
Recent(m) ==
    {r \in Requests : pc[r] \in {"send", "done"} /\ (stamp[r] >= m \/ ahead[r] >= m)}

\* The alert loop counts every request of the minutes it looks at once, and
\* every error, although requests record their minutes out of order and the
\* loop prunes only from the front; it raises the alarm exactly when more than
\* half of enough of them failed (ErrorWindow::record_at, counts_at,
\* check_error_rate). Against "over the last `window_minutes`, pruning old
\* buckets" (events.rs:453) it counts older requests too, but no others than
\* those that were counted behind a minute it still looks at.
AlertSeesRecent ==
    LET recent == Recent(minute - Window)
        failed == {r \in recent : Failed(r)}
    IN  /\ CountsOf(Pruned(window, minute)) =
              [total |-> Cardinality(recent), errors |-> Cardinality(failed)]
        /\ Alarm(window, minute) <=>
              /\ Cardinality(recent) >= MinTotal
              /\ Cardinality(failed) > Cardinality(recent \ failed)

\* Every delta is written, counted as dropped, or still on its way; and what
\* was sent before the writer was told to stop is written or counted once the
\* writer is gone (send_usage, the writer task of RequestEvents::new).
DeltasAccounted ==
    /\ written \intersect dropped = {}
    /\ writer # "gone" =>
        \A r \in Requests : pc[r] = "done" =>
            r \in Range(queue) \union {busy} \union written \union dropped
    /\ writer = "gone" => early \subseteq written \union dropped

Ended(r) == pc[r] \in {"done", "dropped"}

\* A request that has arrived ends, and with it its permit comes back; a
\* writer that is told to stop returns, while the process runs on (run_tool, emit, the writer task).
CallsEnd ==
    /\ \A r \in Requests :
        pc[r] \notin {"idle", "done", "dropped"} ~>
            (Ended(r) /\ permit[r] = NoBucket)
    /\ stop ~> (writer = "gone")
=============================================================================
