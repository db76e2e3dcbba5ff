---------------------------- MODULE ServerProofs ----------------------------
(***************************************************************************)
(* Proofs about module Server, for any number of requests, any queue and   *)
(* any number of reloads: its types, that the running flag never stays up  *)
(* without a thread that will take it down, and that the Run button comes  *)
(* back.                                                                   *)
(***************************************************************************)
EXTENDS Server, SequenceTheorems, TLAPS

Events == {"round_start", "log", "round_end", "error"}

(* Publishing keeps the queue a queue within its bound: the event is       *)
(* dropped when the queue is full.                                         *)
LEMMA PublishedType ==
    ASSUME queue \in Seq(Events), Len(queue) <= QueueSize,
           NEW event \in Events
    PROVE  Published(event) \in Seq(Events) /\ Len(Published(event)) <= QueueSize
<1>1. Append(queue, event) \in Seq(Events)
  OBVIOUS
<1>2. Len(Append(queue, event)) = Len(queue) + 1
  OBVIOUS
<1>3. Len(queue) \in Nat
  OBVIOUS
<1>4. Len(queue) < QueueSize => Len(Append(queue, event)) <= QueueSize
  BY <1>2, <1>3, QueueAssumption
<1> QED BY <1>1, <1>4 DEF Published

-----------------------------------------------------------------------------

(* The server's variables and the page's keep their types.                 *)
THEOREM TypeCorrect == Spec => []TypeOK
<1>1. Init => TypeOK
  <2> SUFFICES ASSUME Init PROVE TypeOK
    OBVIOUS
  <2>1. queue \in Seq(Events) /\ Len(queue) <= QueueSize
    BY QueueAssumption DEF Init
  <2>2. reloads \in 0 .. MaxReloads
    BY ReloadsAssumption DEF Init
  <2>3. /\ post \in [Posts -> {"unsent", "sent", "409", "200", "answered"}]
        /\ thread \in [Posts -> {None, "started", "begun", "round", "over",
                                 "done"}]
    BY DEF Init
  <2> QED BY <2>1, <2>2, <2>3 DEF Init, TypeOK, None, Events
<1>2. TypeOK /\ [Next]_vars => TypeOK'
  <2> SUFFICES ASSUME TypeOK, [Next]_vars PROVE TypeOK'
    OBVIOUS
  <2> USE DEF TypeOK, Flag, None, page, server
  <2>1. ASSUME NEW p \in Posts, Click(p) \/ Call(p) \/ Refuse(p) \/ Accept(p)
        PROVE  TypeOK'
    BY <2>1 DEF Click, Call, Refuse, Accept
  <2>2. ASSUME NEW p \in Posts, WorkBegin(p) \/ WorkEnd(p)
        PROVE  TypeOK'
    BY <2>2 DEF WorkBegin, WorkEnd
  <2>3. ASSUME NEW p \in Posts, RoundStart(p) \/ RoundEnd(p) \/ RoundFail(p)
        PROVE  TypeOK'
    <3>1. queue' \in Seq(Events) /\ Len(queue') <= QueueSize
      BY <2>3, PublishedType DEF RoundStart, RoundEnd, RoundFail, Events
    <3>2. thread' \in [Posts -> {None, "started", "begun", "round", "over",
                                 "done"}]
      BY <2>3 DEF RoundStart, RoundEnd, RoundFail
    <3> QED BY <2>3, <3>1, <3>2 DEF RoundStart, RoundEnd, RoundFail, Events
  <2>4. ASSUME NEW p \in Posts, RoundProgress(p)
        PROVE  TypeOK'
    <3>1. queue' \in Seq(Events) /\ Len(queue') <= QueueSize
      BY <2>4, PublishedType DEF RoundProgress, Events
    <3> QED BY <2>4, <3>1 DEF RoundProgress, Events
  <2>5. ASSUME NEW p \in Posts, HandleAnswer(p)
        PROVE  TypeOK'
    BY <2>5 DEF HandleAnswer
  <2>6. CASE Subscribe \/ SendHello \/ HandleHello
    BY <2>6 DEF Subscribe, SendHello, HandleHello
  <2>7. CASE HandleEvent
    <3>1. queue' \in Seq(Events) /\ Len(queue') <= QueueSize
      BY <2>7, HeadTailProperties, QueueAssumption DEF HandleEvent, Events
    <3>2. disabled' \in BOOLEAN
      <4>1. CASE Head(queue) = "round_start"
        BY <2>7, <4>1 DEF HandleEvent, Handled
      <4>2. CASE Head(queue) \in {"round_end", "error"}
        BY <2>7, <4>2 DEF HandleEvent, Handled
      <4>3. CASE Head(queue) \notin {"round_start", "round_end", "error"}
        BY <2>7, <4>3 DEF HandleEvent, Handled
      <4> QED BY <4>1, <4>2, <4>3
    <3> QED BY <2>7, <3>1, <3>2 DEF HandleEvent, Events
  <2>8. CASE LoseStream
    <3>1. queue' \in Seq(Events) /\ Len(queue') <= QueueSize
      BY <2>8, QueueAssumption DEF LoseStream
    <3> QED BY <2>8, <3>1 DEF LoseStream, Events
  <2>9. CASE AnswerStatus \/ HandleStatus
    BY <2>9 DEF AnswerStatus, HandleStatus
  <2>10. CASE Reload
    <3>1. queue' \in Seq(Events) /\ Len(queue') <= QueueSize
      BY <2>10, QueueAssumption DEF Reload
    <3>2. reloads' \in 0 .. MaxReloads
      BY <2>10, ReloadsAssumption DEF Reload
    <3>3. post' \in [Posts -> {"unsent", "sent", "409", "200", "answered"}]
      BY <2>10 DEF Reload
    <3> QED BY <2>10, <3>1, <3>2, <3>3 DEF Reload, Events
  <2>11. CASE UNCHANGED vars
    BY <2>11 DEF vars
  <2> QED
    BY <2>1, <2>2, <2>3, <2>4, <2>5, <2>6, <2>7, <2>8, <2>9, <2>10, <2>11
       DEF Next, WorkStep, RoundOver
<1> QED BY <1>1, <1>2, PTL DEF Spec

-----------------------------------------------------------------------------

(* While the flag is up, a thread is between setting and clearing it: no   *)
(* interleaving of overlapping rounds and no exception leaves the server   *)
(* answering 409 for good.                                                 *)
THEOREM FlagIsHeld == Spec => []RunningIsHeld
<1>1. Init => RunningIsHeld
  BY DEF Init, RunningIsHeld
<1>2. TypeOK /\ RunningIsHeld /\ [Next]_vars => RunningIsHeld'
  <2> SUFFICES ASSUME TypeOK, RunningIsHeld, [Next]_vars, running'
               PROVE  \E p \in Posts : Dispatched(p)'
    BY DEF RunningIsHeld
  <2> USE DEF Dispatched
  (* A thread that is up stays up unless it is the one that clears the     *)
  (* flag.                                                                 *)
  <2>1. ASSUME NEW p \in Posts, WorkBegin(p)
        PROVE  Dispatched(p)'
    BY <2>1 DEF WorkBegin, TypeOK
  <2>2. ASSUME NEW p \in Posts, RoundStart(p) \/ RoundEnd(p) \/ RoundFail(p)
        PROVE  Dispatched(p)'
    BY <2>2 DEF RoundStart, RoundEnd, RoundFail, TypeOK
  <2>3. ASSUME NEW p \in Posts, WorkEnd(p)
        PROVE  FALSE
    BY <2>3 DEF WorkEnd
  <2>4. ASSUME NEW p \in Posts, Refuse(p) \/ Click(p) \/ Call(p)
               \/ RoundProgress(p) \/ HandleAnswer(p)
        PROVE  UNCHANGED <<running, thread>>
    BY <2>4 DEF Refuse, Click, Call, RoundProgress, HandleAnswer, server, page
  <2>5. ASSUME NEW p \in Posts, Accept(p)
        PROVE  FALSE
    BY <2>5 DEF Accept
  <2>6. ASSUME Subscribe \/ SendHello \/ HandleHello \/ HandleEvent \/ LoseStream
               \/ AnswerStatus \/ HandleStatus \/ Reload \/ UNCHANGED vars
        PROVE  UNCHANGED <<running, thread>>
    BY <2>6 DEF Subscribe, SendHello, HandleHello, HandleEvent, LoseStream,
                AnswerStatus, HandleStatus, Reload, vars, server, page
  <2>7. ASSUME UNCHANGED <<running, thread>>
        PROVE  \E p \in Posts : Dispatched(p)'
    BY <2>7 DEF RunningIsHeld
  <2> QED
    BY <2>1, <2>2, <2>3, <2>4, <2>5, <2>6, <2>7 DEF Next, WorkStep, RoundOver
<1> QED BY <1>1, <1>2, TypeCorrect, PTL DEF Spec

-----------------------------------------------------------------------------

(* An end of a round that finds room in the page's queue will enable the   *)
(* button.                                                                 *)
LEMMA EndEnables ==
    ASSUME TypeOK, NEW event \in {"round_end", "error"}, queue' = Append(queue, event)
    PROVE  ~ WillBeDisabled'
<1>1. queue \in Seq(Events) /\ Len(queue) \in Nat
  BY DEF TypeOK, Events
<1>2. /\ DOMAIN queue' = 1 .. (Len(queue) + 1)
      /\ queue'[Len(queue) + 1] \in {"round_end", "error"}
  BY <1>1 DEF Events
<1>3. ASSUME NEW i \in 0 .. Len(queue) PROVE ~ NoEndAfter(i)'
  BY <1>1, <1>2, <1>3 DEF NoEndAfter
<1>4. queue'[Len(queue) + 1] # "round_start"
  BY <1>2
<1>5. \A i \in DOMAIN queue' : queue'[i] = "round_start" => i \in 0 .. Len(queue)
  BY <1>1, <1>2, <1>4
<1>6. 0 \in 0 .. Len(queue)
  BY <1>1
<1>. QED
  BY <1>3, <1>5, <1>6 DEF WillBeDisabled

(* Handling an event does not change what the button will be.              *)
LEMMA HandlingKeeps ==
    ASSUME TypeOK, HandleEvent, WillBeDisabled'
    PROVE  WillBeDisabled
<1>1. /\ queue \in Seq(Events) /\ queue # << >> /\ Len(queue) \in Nat
      /\ queue' = Tail(queue) /\ disabled' = Handled(disabled, queue[1])
  BY DEF TypeOK, Events, HandleEvent
<1>2. /\ DOMAIN queue = 1 .. Len(queue) /\ Len(queue) >= 1
      /\ DOMAIN queue' = 1 .. (Len(queue) - 1)
      /\ \A j \in 1 .. (Len(queue) - 1) : queue'[j] = queue[j + 1]
  BY <1>1, HeadTailProperties
<1>3. ASSUME NEW i \in Nat, NoEndAfter(i)' PROVE NoEndAfter(i + 1)
  <2>1. ASSUME NEW j \in DOMAIN queue, j > i + 1 PROVE queue[j] \notin {"round_end", "error"}
    <3>1. j - 1 \in 1 .. (Len(queue) - 1) /\ j - 1 > i /\ (j - 1) + 1 = j
      BY <1>1, <1>2, <2>1
    <3>2. queue'[j - 1] = queue[j]
      BY <1>2, <3>1
    <3>. QED
      BY <1>2, <1>3, <3>1, <3>2 DEF NoEndAfter
  <2>. QED
    BY <2>1 DEF NoEndAfter
<1>4. ASSUME NEW i \in DOMAIN queue', queue'[i] = "round_start", NoEndAfter(i)'
      PROVE  WillBeDisabled
  <2>1. i \in Nat /\ i + 1 \in DOMAIN queue /\ queue[i + 1] = "round_start"
    BY <1>1, <1>2, <1>4
  <2>2. NoEndAfter(i + 1)
    BY <1>3, <1>4, <2>1
  <2>. QED
    BY <2>1, <2>2 DEF WillBeDisabled
<1>5. ASSUME disabled', NoEndAfter(0)' PROVE WillBeDisabled
  <2>1. NoEndAfter(1) /\ 1 \in DOMAIN queue
    <3>1. NoEndAfter(0 + 1)
      BY <1>3, <1>5
    <3>2. 0 + 1 = 1 /\ 1 \in DOMAIN queue
      BY <1>1, <1>2
    <3>. QED
      BY <3>1, <3>2
  <2>2. CASE queue[1] = "round_start"
    BY <2>1, <2>2 DEF WillBeDisabled
  <2>3. CASE queue[1] # "round_start"
    <3>1. disabled /\ queue[1] \notin {"round_end", "error"}
      BY <1>1, <1>5, <2>3, Zenon DEF Handled
    <3>2. ASSUME NEW j \in DOMAIN queue PROVE queue[j] \notin {"round_end", "error"}
      <4>1. j = 1 \/ j > 1
        BY <1>1, <1>2
      <4>. QED
        BY <2>1, <3>1, <4>1 DEF NoEndAfter
    <3>. QED
      BY <3>1, <3>2 DEF WillBeDisabled, NoEndAfter
  <2>. QED
    BY <2>2, <2>3
<1>. QED
  BY <1>4, <1>5 DEF WillBeDisabled

(* However many requests, rounds and reloads there are and whatever events *)
(* are dropped: a button that stays disabled when no round is left was     *)
(* disabled by an answer handled too late, or its last event was lost.     *)
THEOREM ButtonIsEnabled == Spec => ButtonComesBack
<1> DEFINE Back == Stuck' => Stuck \/ LastEventLost \/ ToldItRuns
<1>1. TypeOK /\ [Next]_vars => [Back]_vars
  <2> SUFFICES ASSUME TypeOK, Next, Stuck' PROVE Stuck \/ LastEventLost \/ ToldItRuns
    OBVIOUS
  <2>1. /\ WillBeDisabled' /\ \A p \in Posts : thread'[p] \notin {"started", "begun", "round"}
        /\ thread \in [Posts -> {None, "started", "begun", "round", "over", "done"}]
    BY DEF Stuck, TypeOK
  <2>2. ASSUME UNCHANGED thread, WillBeDisabled PROVE Stuck
    BY <2>1, <2>2 DEF Stuck
  <2>3. ASSUME UNCHANGED <<disabled, queue>> PROVE WillBeDisabled
    BY <2>1, <2>3 DEF WillBeDisabled, NoEndAfter
  <2>4. ASSUME NEW p \in Posts, Click(p) \/ Call(p) \/ Refuse(p) PROVE Stuck
    <3>1. UNCHANGED <<thread, disabled, queue>>
      BY <2>4 DEF Click, Call, Refuse, page
    <3>. QED
      BY <2>2, <2>3, <3>1
  <2>5. ASSUME NEW p \in Posts, Accept(p) \/ WorkBegin(p) \/ RoundStart(p) \/ RoundProgress(p)
        PROVE  FALSE
    BY <2>1, <2>5 DEF Accept, WorkBegin, RoundStart, RoundProgress, server
  <2>6. ASSUME NEW p \in Posts, WorkEnd(p) PROVE Stuck
    <3>1. /\ thread[p] = "over" /\ UNCHANGED <<disabled, queue>>
          /\ \A q \in Posts : thread'[q] = thread[q] \/ thread[q] = "over"
      BY <2>1, <2>6 DEF WorkEnd, page
    <3>2. \A q \in Posts : thread[q] \notin {"started", "begun", "round"}
      BY <2>1, <3>1
    <3>. QED
      BY <2>3, <3>1, <3>2 DEF Stuck
  <2>7. ASSUME NEW p \in Posts, RoundEnd(p) \/ RoundFail(p) PROVE LastEventLost
    <3>1. /\ thread[p] = "round" /\ thread'[p] = "over"
          /\ queue' = Published("round_end") \/ queue' = Published("error")
      BY <2>1, <2>7 DEF RoundEnd, RoundFail
    <3>2. UNCHANGED queue
      BY <2>1, <3>1, EndEnables DEF Published
    <3>. QED
      BY <3>1, <3>2 DEF LastEventLost
  <2>8. ASSUME NEW p \in Posts, HandleAnswer(p) PROVE Stuck \/ ToldItRuns
    <3>1. /\ p \in Clicks /\ post'[p] = "answered" /\ UNCHANGED <<thread, queue>>
          /\ post[p] \in {"200", "409"}
      BY <2>8 DEF HandleAnswer, TypeOK
    <3>2. CASE post[p] = "200"
      BY <3>1, <3>2 DEF ToldItRuns
    <3>3. CASE post[p] # "200"
      <4>1. disabled' = disabled
        BY <2>8, <3>3 DEF HandleAnswer, TypeOK
      <4>. QED
        BY <2>2, <2>3, <3>1, <4>1
    <3>. QED
      BY <3>2, <3>3
  <2>9. CASE Subscribe \/ SendHello \/ AnswerStatus
    <3>1. UNCHANGED <<thread, disabled, queue>>
      BY <2>9 DEF Subscribe, SendHello, AnswerStatus, server
    <3>. QED
      BY <2>2, <2>3, <3>1
  <2>10. CASE HandleHello
    <3>1. hello' = None /\ UNCHANGED <<thread, queue>> /\ (hello # "up" => disabled' = disabled)
      BY <2>10 DEF HandleHello, server, TypeOK
    <3>. QED
      BY <2>2, <2>3, <3>1 DEF ToldItRuns
  <2>11. CASE HandleStatus
    <3>1. status' = None /\ UNCHANGED <<thread, queue>> /\ (status # "up" => disabled' = disabled)
      BY <2>11 DEF HandleStatus, server, TypeOK
    <3>. QED
      BY <2>2, <2>3, <3>1 DEF ToldItRuns
  <2>12. CASE HandleEvent
    <3>1. UNCHANGED thread
      BY <2>12 DEF HandleEvent, server
    <3>. QED
      BY <2>1, <2>2, <2>12, <3>1, HandlingKeeps
  <2>13. CASE LoseStream \/ Reload
    BY <2>13 DEF LoseStream, Reload, LastEventLost
  <2>. QED
    BY <2>4, <2>5, <2>6, <2>7, <2>8, <2>9, <2>10, <2>11, <2>12, <2>13
    DEF Next, WorkStep, RoundOver
<1>2. Spec => [][Back]_vars
  BY <1>1, TypeCorrect, PTL DEF Spec
<1>. QED
  BY <1>2 DEF ButtonComesBack

=============================================================================
