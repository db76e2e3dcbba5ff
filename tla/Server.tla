------------------------------- MODULE Server -------------------------------
(***************************************************************************)
(* Dispatching rounds: POST /api/run-round of server.py, the daemon thread *)
(* each accepted request starts, the event bus, and one open page of       *)
(* static/js/dashboard.js with its event stream, its status poll and its   *)
(* Run button.  Requests come from the page (a double click sends two) and *)
(* from other clients of the API.                                          *)
(*                                                                         *)
(* A round is what the server sees of it: round_start, log lines, then     *)
(* round_end or an exception.  Module Validator opens it.  The stream's    *)
(* queue and the bytes in flight behind it are one queue.                  *)
(***************************************************************************)
EXTENDS Naturals, Sequences

CONSTANTS
    Clicks,       \* requests the page's Run button may send
    Calls,        \* requests of other clients of the API
    QueueSize,    \* events a subscriber's queue holds (2000 in the code)
    MaxReloads    \* bound: times the page is opened again

ASSUME DisjointAssumption == Clicks \cap Calls = {}
ASSUME QueueAssumption == QueueSize \in Nat \ {0}
ASSUME ReloadsAssumption == MaxReloads \in Nat

Posts == Clicks \union Calls

VARIABLES
    running,    \* STATE["running"]
    post,       \* each request
    thread,     \* the thread its work() runs in
    stream,     \* the page's EventSource
    queue,      \* the queue BUS.subscribe() gave that stream
    hello,      \* the first event of the stream, sent and not yet handled
    status,     \* an answer of /api/status, sent and not yet handled
    disabled,   \* the Run button is disabled
    reloads     \* times the page was reloaded

server == <<running, post, thread>>
page == <<stream, queue, hello, status, disabled, reloads>>
vars == <<server, page>>

None == "none"

(* What an answer says of the flag. *)
Flag == IF running THEN "up" ELSE "down"

Init ==
    /\ running = FALSE
    /\ post = [p \in Posts |-> "unsent"]
    /\ thread = [p \in Posts |-> None]
    /\ stream = "closed"
    /\ queue = << >>
    /\ hello = None
    /\ status = None
    /\ disabled = FALSE
    /\ reloads = 0

(* Faulty: the queue has no limit. *)
Published_Unlimited(event) ==
    IF stream # "closed" THEN Append(queue, event) ELSE queue

(* put_nowait on the page's queue; a full queue drops the event.           *)
Published(event) ==
    IF stream # "closed" /\ Len(queue) < QueueSize
    THEN Append(queue, event)
    ELSE queue

-----------------------------------------------------------------------------
(* Requests.                                                               *)

Click(p) ==
    /\ p \in Clicks
    /\ post[p] = "unsent"
    /\ ~ disabled
    /\ post' = [post EXCEPT ![p] = "sent"]
    /\ UNCHANGED <<running, thread, page>>

Call(p) ==
    /\ p \in Calls
    /\ post[p] = "unsent"
    /\ post' = [post EXCEPT ![p] = "sent"]
    /\ UNCHANGED <<running, thread, page>>

Refuse(p) ==
    /\ post[p] = "sent"
    /\ running
    /\ post' = [post EXCEPT ![p] = "409"]
    /\ UNCHANGED <<running, thread, page>>

(* The flag is only read here: the thread sets it once it is scheduled.    *)
Accept(p) ==
    /\ post[p] = "sent"
    /\ ~ running
    /\ post' = [post EXCEPT ![p] = "200"]
    /\ thread' = [thread EXCEPT ![p] = "started"]
    /\ UNCHANGED <<running, page>>

-----------------------------------------------------------------------------
(* work().                                                                 *)

WorkBegin(p) ==
    /\ thread[p] = "started"
    /\ running' = TRUE
    /\ thread' = [thread EXCEPT ![p] = "begun"]
    /\ UNCHANGED <<post, page>>

(* Faulty: put() waits for room in the page's queue. *)
RoundStart_Waits(p) ==
    /\ thread[p] = "begun"
    /\ stream # "closed" => Len(queue) < QueueSize
    /\ queue' = Published("round_start")
    /\ thread' = [thread EXCEPT ![p] = "round"]
    /\ UNCHANGED <<running, post, stream, hello, status, disabled, reloads>>

RoundStart(p) ==
    /\ thread[p] = "begun"
    /\ queue' = Published("round_start")
    /\ thread' = [thread EXCEPT ![p] = "round"]
    /\ UNCHANGED <<running, post, stream, hello, status, disabled, reloads>>

(* Log lines and progress events, which the button ignores.                *)
RoundProgress(p) ==
    /\ thread[p] = "round"
    /\ queue' = Published("log")
    /\ UNCHANGED <<server, stream, hello, status, disabled, reloads>>

(* The round's last event goes out before run_validation_round returns,    *)
(* while the flag is still up.                                             *)
RoundEnd(p) ==
    /\ thread[p] = "round"
    /\ queue' = Published("round_end")
    /\ thread' = [thread EXCEPT ![p] = "over"]
    /\ UNCHANGED <<running, post, stream, hello, status, disabled, reloads>>

(* Faulty: the handler returns, and the flag is cleared on success only. *)
RoundFail_NoFinally(p) ==
    /\ thread[p] = "round"
    /\ queue' = Published("error")
    /\ thread' = [thread EXCEPT ![p] = "done"]
    /\ UNCHANGED <<running, post, stream, hello, status, disabled, reloads>>

RoundFail(p) ==
    /\ thread[p] = "round"
    /\ queue' = Published("error")
    /\ thread' = [thread EXCEPT ![p] = "over"]
    /\ UNCHANGED <<running, post, stream, hello, status, disabled, reloads>>

WorkEnd(p) ==
    /\ thread[p] = "over"
    /\ running' = FALSE
    /\ thread' = [thread EXCEPT ![p] = "done"]
    /\ UNCHANGED <<post, page>>

RoundOver(p) == RoundEnd(p) \/ RoundFail(p)
WorkStep(p) == WorkBegin(p) \/ RoundStart(p) \/ WorkEnd(p)

-----------------------------------------------------------------------------
(* The page.                                                               *)

HandleAnswer(p) ==
    /\ p \in Clicks
    /\ post[p] \in {"200", "409"}
    /\ disabled' = (disabled \/ post[p] = "200")
    /\ post' = [post EXCEPT ![p] = "answered"]
    /\ UNCHANGED <<running, thread, stream, queue, hello, status, reloads>>

(* GET /api/events: the queue exists before the generator sends hello.     *)
Subscribe ==
    /\ stream = "closed"
    /\ stream' = "subscribed"
    /\ UNCHANGED <<server, queue, hello, status, disabled, reloads>>

SendHello ==
    /\ stream = "subscribed"
    /\ hello' = Flag
    /\ stream' = "open"
    /\ UNCHANGED <<server, queue, status, disabled, reloads>>

HandleHello ==
    /\ hello # None
    /\ disabled' = (disabled \/ hello = "up")
    /\ hello' = None
    /\ UNCHANGED <<server, stream, queue, status, reloads>>

(* Faulty: a failed round is only shown. *)
Handled_EndOnly(was, event) ==
    CASE event = "round_start" -> TRUE
      [] event = "round_end" -> FALSE
      [] OTHER -> was

(* onEvent: what an event makes of the button.                             *)
Handled(was, event) ==
    CASE event = "round_start" -> TRUE
      [] event \in {"round_end", "error"} -> FALSE
      [] OTHER -> was

HandleEvent ==
    /\ stream = "open" /\ hello = None
    /\ queue # << >>
    /\ disabled' = Handled(disabled, Head(queue))
    /\ queue' = Tail(queue)
    /\ UNCHANGED <<server, stream, hello, status, reloads>>

(* The connection is lost with what was queued for it; the browser opens   *)
(* another (Subscribe) and nothing is sent again.                          *)
LoseStream ==
    /\ stream # "closed"
    /\ stream' = "closed"
    /\ queue' = << >>
    /\ hello' = None
    /\ UNCHANGED <<server, status, disabled, reloads>>

(* loadStatus(): every 15 s, at boot and after each round.                 *)
AnswerStatus ==
    /\ status = None
    /\ status' = Flag
    /\ UNCHANGED <<server, stream, queue, hello, disabled, reloads>>


(* The poll can only disable the button.                                   *)
HandleStatus ==
    /\ status # None
    /\ disabled' = (disabled \/ status = "up")
    /\ status' = None
    /\ UNCHANGED <<server, stream, queue, hello, reloads>>

Reload ==
    /\ reloads < MaxReloads
    /\ reloads' = reloads + 1
    /\ stream' = "closed"
    /\ queue' = << >>
    /\ hello' = None
    /\ status' = None
    /\ disabled' = FALSE
    /\ post' = [p \in Posts |->
                  IF p \in Clicks /\ post[p] \in {"200", "409"}
                  THEN "answered" ELSE post[p]]
    /\ UNCHANGED <<running, thread>>

-----------------------------------------------------------------------------

Next ==
    \/ \E p \in Posts :
          \/ Click(p)
          \/ Call(p)
          \/ Refuse(p)
          \/ Accept(p)
          \/ WorkStep(p)
          \/ RoundProgress(p)
          \/ RoundOver(p)
          \/ HandleAnswer(p)
    \/ Subscribe
    \/ SendHello
    \/ HandleHello
    \/ HandleEvent
    \/ LoseStream
    \/ AnswerStatus
    \/ HandleStatus
    \/ Reload

Spec == Init /\ [][Next]_vars

(* A started thread is scheduled; nothing is assumed of how long a round   *)
(* takes. The page polls for as long as it is open; whether it reads its   *)
(* events is up to the network, so the stream has no fairness either.      *)
FairSpec ==
    /\ Spec
    /\ \A p \in Posts : WF_vars(WorkStep(p))
    /\ WF_vars(AnswerStatus)
    /\ WF_vars(HandleStatus)

-----------------------------------------------------------------------------
(* Properties.                                                             *)

TypeOK ==
    /\ running \in BOOLEAN
    /\ post \in [Posts -> {"unsent", "sent", "409", "200", "answered"}]
    /\ thread \in [Posts -> {None, "started", "begun", "round", "over", "done"}]
    /\ stream \in {"closed", "subscribed", "open"}
    /\ queue \in Seq({"round_start", "log", "round_end", "error"})
    /\ Len(queue) <= QueueSize
    /\ hello \in {None, "up", "down"}
    /\ status \in {None, "up", "down"}
    /\ disabled \in BOOLEAN
    /\ reloads \in 0 .. MaxReloads

Dispatched(p) == thread[p] \in {"begun", "round", "over"}

(* The flag is never left up: while it is, some thread will take it down   *)
(* (the finally of work()), whatever rounds overlapped and whichever of    *)
(* them failed, so that a 409 is always about a round that is there.       *)
RunningIsHeld == running => \E p \in Posts : Dispatched(p)

(* A reader of the event stream that never reads cannot hold up a round    *)
(* (put_nowait in publish): if no round takes for ever by itself, every    *)
(* accepted request is done in the end and has taken its flag down.        *)
RoundsEnd ==
    (\A p \in Posts : WF_vars(RoundOver(p))) =>
        \A p \in Posts : (post[p] = "200") ~> (thread[p] = "done")


(* The button when all that is queued for the page will have been handled: *)
(* no end of a round is behind the start, or the moment, that disables it. *)
NoEndAfter(i) == \A j \in DOMAIN queue : j > i => queue[j] \notin {"round_end", "error"}
WillBeDisabled ==
    \/ disabled /\ NoEndAfter(0)
    \/ \E i \in DOMAIN queue : queue[i] = "round_start" /\ NoEndAfter(i)

(* Nothing runs any more and nothing is on its way to enable the button.   *)
Stuck ==
    /\ WillBeDisabled
    /\ \A p \in Posts : thread[p] \notin {"started", "begun", "round"}

(* The round's last event does not reach the page: it has no stream, its   *)
(* queue is full, or the stream is lost with the event in it.              *)
LastEventLost ==
    \/ stream' = "closed"
    \/ UNCHANGED queue /\ \E p \in Posts : thread[p] = "round" /\ thread'[p] = "over"

(* The page handles an answer that says a round is running.                *)
ToldItRuns ==
    \/ hello = "up" /\ hello' = None
    \/ status = "up" /\ status' = None
    \/ \E p \in Clicks : post[p] = "200" /\ post'[p] = "answered"

(* The button comes back after every round, however rounds overlap, fail   *)
(* and answers cross with events: it stays behind disabled only through a  *)
(* last event that was lost, or an answer that was given while the round   *)
(* ran and is handled after its last event (no poll and no other handler   *)
(* enables it).                                                            *)
ButtonComesBack == [][Stuck' => Stuck \/ LastEventLost \/ ToldItRuns]_vars

(* README: "dispatch a round (409 if one is running)".                     *)
OneRoundAtATime ==
    \A p, q \in Posts : Dispatched(p) /\ Dispatched(q) => p = q

=============================================================================
