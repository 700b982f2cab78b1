----------------------------- MODULE RpcService -----------------------------
(***************************************************************************)
(* Unary RPC between two nodes over successive sessions                    *)
(* (src/client/rpc_service.cpp, and the service set-up, tear-down and      *)
(* retry queue of src/client/node.cpp).                                    *)
(*                                                                         *)
(* The client's RpcService tracks pending calls; the server's runs         *)
(* handlers on executor threads, answers each request once and caches what *)
(* it answered.  Both live as long as their session: each side notices the *)
(* loss of the transport on its own, and the client's node keeps the calls *)
(* that opted into a retry until the next session.                         *)
(*                                                                         *)
(* Every step but the three of the executor's threads (TaskBegin,          *)
(* TaskCheck, TaskReturn) runs on the strand of its node.  Requests and    *)
(* responses travel in the standard class and cancels in the control       *)
(* class, so a cancel may overtake its request.                            *)
(***************************************************************************)
EXTENDS Integers, Sequences, FiniteSets, FiniteSetsExt, Functions

CONSTANTS
  Ids,          \* request ids, ordered as in the code's maps
  Retryable,    \* ids of idempotent calls with retry_on_reconnect
  Loads,        \* bounds: the calls made, the sessions the two nodes ever have,
                \* the handler tasks ever dispatched, the identical requests
                \* sent again, and whether channel queues may be full
  MaxPending,   \* RpcServiceConfig::max_pending_client_calls
  MaxExecuting, \* RpcServiceConfig::max_concurrent_server_calls
  CacheSize,    \* RpcServiceConfig::result_cache_entries
  RetryCap      \* rpc_retry_capacity of the node

ASSUME RpcAssumption ==
  /\ Ids \subseteq Nat /\ IsFiniteSet(Ids)
  /\ MaxPending \in Nat /\ MaxExecuting \in Nat /\ CacheSize \in Nat \ {0} /\ RetryCap \in Nat
  /\ \A x \in Loads : x.ids \subseteq Ids

VARIABLES
  load,       \* the load of this behaviour
  link,       \* the transport is up
  session,    \* sessions so far
  up,         \* sides whose RpcService exists
  stopped,    \* the client's node has shut down
  call,       \* each call at the client
  completed,  \* history: how often its completion ran
  outcome,    \* history: what it was told
  due,        \* calls whose local deadline has passed
  retry,      \* rpc_retry_queue for this peer
  requests,   \* RPC_REQUEST frames on their way
  cancels,    \* RPC_CANCEL frames on their way
  responses,  \* RPC_RESPONSE frames on their way
  executing,  \* executing_ : the task of each executing request, or 0
  tasks,      \* every ServerCallState with its executor task
  cache,      \* result_cache_
  answers,    \* history: the answers given, as <<session, id, status>>
  dups        \* identical requests sent again so far

clientVars == <<call, completed, outcome, due, retry>>
wireVars == <<requests, cancels, responses, dups>>
serverVars == <<executing, tasks, cache, answers>>
sessionVars == <<load, link, session, up, stopped>>
vars == <<sessionVars, clientVars, wireVars, serverVars>>

Init ==
  /\ load \in Loads
  /\ link = FALSE /\ session = 0 /\ up = {} /\ stopped = FALSE
  /\ call = [i \in Ids |-> "new"]
  /\ completed = [i \in Ids |-> 0]
  /\ outcome = [i \in Ids |-> "none"]
  /\ due = {}
  /\ retry = <<>>
  /\ requests = <<>> /\ cancels = <<>> /\ responses = <<>> /\ dups = 0
  /\ executing = [i \in Ids |-> 0]
  /\ tasks = <<>>
  /\ cache = [i \in Ids |-> "none"]
  /\ answers = {}

\* send_frame: admitted or refused; a frame sent on a dead transport is lost.
Sent == IF load.congested THEN BOOLEAN ELSE {TRUE}
Put(q, f, ok) == IF ok /\ link THEN Append(q, f) ELSE q

\* The numbers in S, smallest first.
InOrder(S) ==
  CHOOSE q \in [1 .. Cardinality(S) -> S] : \A m, n \in DOMAIN q : m < n => q[m] < q[n]

\* The queue q without what is in out.
Without(q, out) ==
  LET kept == InOrder({n \in DOMAIN q : q[n] \notin out})
  IN [n \in DOMAIN kept |-> q[kept[n]]]

-----------------------------------------------------------------------------
(* Client.                                                                 *)

Pending == {i \in Ids : call[i] = "pending"}

\* complete_pending, and every other place that runs a completion.
Complete(S, verdict) ==
  /\ call' = [i \in Ids |-> IF i \in S THEN "done" ELSE call[i]]
  /\ completed' = [i \in Ids |-> IF i \in S THEN completed[i] + 1 ELSE completed[i]]
  /\ outcome' = [i \in Ids |-> IF i \in S THEN verdict ELSE outcome[i]]

\* The client's strand is free: resubmission runs right after attach.
ClientFree == "c" \in up /\ ~stopped /\ retry = <<>>

\* submit_call: refused at the pending limit or by the channel, else sent.
SubmitCall(i) ==
  \E ok \in Sent :
    IF Cardinality(Pending) < MaxPending /\ ok
      THEN /\ call' = [call EXCEPT ![i] = "pending"]
           /\ requests' = Put(requests, i, TRUE)
           /\ UNCHANGED <<completed, outcome>>
      ELSE /\ Complete({i}, "not_admitted")
           /\ UNCHANGED requests

\* handle_session_closed and teardown_peer_services.  The retry queue is
\* bounded; its oldest calls give way.  Calls in gone are neither pending nor
\* queued at that moment.
TearDown(gone) ==
  /\ up' = up \ {"c"}
  /\ LET queue == InOrder((Pending \cap Retryable) \ gone)
         over == IF Len(queue) > RetryCap THEN Len(queue) - RetryCap ELSE 0
         lost == (Pending \ Retryable) \cup {queue[n] : n \in 1 .. over}
     IN /\ retry' = SubSeq(queue, over + 1, Len(queue))
        /\ call' = [i \in Ids |-> IF i \in lost \cup gone THEN "done"
                                  ELSE IF i \in Pending THEN "retry" ELSE call[i]]
        /\ completed' = [i \in Ids |-> IF i \in lost THEN completed[i] + 1 ELSE completed[i]]
        /\ outcome' = [i \in Ids |-> IF i \in lost THEN "unknown" ELSE outcome[i]]
  /\ UNCHANGED <<load, link, session, stopped, due, wireVars, serverVars>>

TearDownClient ==
  /\ "c" \in up /\ ~link /\ retry = <<>>
  /\ TearDown({})

\* The transport refuses the frame of a call, a cancel or a resubmission: the
\* session closes and its services are torn down before send_frame returns.
\* What the caller registers after that belongs to a service already closed.
SendClosesSession ==
  /\ "c" \in up /\ ~link /\ ~stopped
  /\ \/ retry = <<>> /\ \E i \in load.ids : call[i] = "new" /\ TearDown({i})
     \/ retry = <<>> /\ Pending # {} /\ TearDown({})
     \/ retry # <<>> /\ TearDown(Range(retry))

Call(i) ==
  /\ ClientFree /\ i \in load.ids /\ call[i] = "new"
  /\ SubmitCall(i)
  /\ UNCHANGED <<sessionVars, due, retry, cancels, responses, dups, serverVars>>

MutantResubmit ==
  /\ "c" \in up /\ ~stopped /\ retry # <<>>
  /\ SubmitCall(Head(retry))
  /\ UNCHANGED <<retry, sessionVars, due, cancels, responses, dups, serverVars>>

\* resubmit of the oldest call in the retry queue.
Resubmit ==
  /\ "c" \in up /\ ~stopped /\ retry # <<>>
  /\ retry' = Tail(retry)
  /\ IF Head(retry) \in due
       THEN Complete({Head(retry)}, "unknown") /\ UNCHANGED requests
       ELSE SubmitCall(Head(retry))
  /\ UNCHANGED <<sessionVars, due, cancels, responses, dups, serverVars>>

MutantCancel(i) ==
  /\ ClientFree /\ i \in Pending
  /\ \E ok \in Sent : cancels' = Put(cancels, i, ok)
  /\ completed' = [completed EXCEPT ![i] = @ + 1]
  /\ outcome' = [outcome EXCEPT ![i] = "cancelled"]
  /\ UNCHANGED <<call, sessionVars, due, retry, requests, responses, dups, serverVars>>

\* cancel: the call ends here at once, whatever the peer makes of it.
Cancel(i) ==
  /\ ClientFree /\ i \in Pending
  /\ \E ok \in Sent : cancels' = Put(cancels, i, ok)
  /\ Complete({i}, "cancelled")
  /\ UNCHANGED <<sessionVars, due, retry, requests, responses, dups, serverVars>>

DeadlinePasses(i) ==
  /\ call[i] \in {"pending", "retry"} /\ i \notin due
  /\ due' = due \cup {i}
  /\ UNCHANGED <<sessionVars, call, completed, outcome, retry, wireVars, serverVars>>

Expired == Pending \cap due

\* prune_client_deadlines.
PruneClient ==
  /\ ClientFree /\ Expired # {}
  /\ Complete(Expired, "deadline")
  /\ UNCHANGED <<sessionVars, due, retry, wireVars, serverVars>>

\* handle_response: an answer to a call no longer pending is counted only.
HandleResponse ==
  /\ ClientFree /\ responses # <<>>
  /\ responses' = Tail(responses)
  /\ LET r == Head(responses)
     IN Complete({r.id} \cap Pending, r.status)
  /\ UNCHANGED <<sessionVars, due, retry, requests, cancels, dups, serverVars>>

MutantTimedOut == {}

TimedOut == Range(retry) \cap due

\* prune_peer_services: the deadline of a call in the retry queue passes while
\* there is no session.
PruneRetry ==
  /\ "c" \notin up /\ TimedOut # {}
  /\ retry' = Without(retry, due)
  /\ Complete(TimedOut, "unknown")
  /\ UNCHANGED <<sessionVars, due, wireVars, serverVars>>

\* The client's node stops: pending and queued calls all end.
Shutdown ==
  /\ ~stopped /\ (("c" \in up) => retry = <<>>)
  /\ stopped' = TRUE
  /\ up' = up \ {"c"}
  /\ link' = FALSE
  /\ requests' = <<>> /\ cancels' = <<>> /\ responses' = <<>>
  /\ Complete(Pending \cup Range(retry), "unknown")
  /\ retry' = <<>>
  /\ UNCHANGED <<load, session, due, dups, serverVars>>

-----------------------------------------------------------------------------
(* Sessions.                                                               *)

\* A new authenticated session: both nodes create an RpcService for it.
Connect ==
  /\ ~link /\ up = {} /\ ~stopped /\ session < load.sessions
  /\ link' = TRUE
  /\ session' = session + 1
  /\ up' = {"c", "s"}
  /\ cache' = [i \in Ids |-> "none"]
  /\ UNCHANGED <<load, stopped, clientVars, wireVars, executing, tasks, answers>>

LinkLost ==
  /\ link
  /\ link' = FALSE
  /\ requests' = <<>> /\ cancels' = <<>> /\ responses' = <<>>
  /\ UNCHANGED <<load, session, up, stopped, clientVars, dups, serverVars>>

\* The executor's answer to a cancel of task t: a queued task never runs, a
\* started one sees its stop token set.
Stopped(t) ==
  IF t.stage = "queued" THEN [t EXCEPT !.stage = "removed"]
  ELSE IF t.stage \in {"started", "running"} THEN [t EXCEPT !.stop = "requested"]
  ELSE t

\* handle_session_closed at the server.
TearDownServer ==
  /\ "s" \in up /\ ~link
  /\ up' = up \ {"s"}
  /\ tasks' = [n \in DOMAIN tasks |->
                 IF n \in Range(executing) THEN Stopped([tasks[n] EXCEPT !.phase = "terminal"])
                                           ELSE tasks[n]]
  /\ executing' = [i \in Ids |-> 0]
  /\ UNCHANGED <<load, link, session, stopped, clientVars, wireVars, cache, answers>>

-----------------------------------------------------------------------------
(* Server.                                                                 *)

Executing == {i \in Ids : executing[i] # 0}
Cached == {i \in Ids : cache[i] # "none"}

MutantCacheResult(i, status) == UNCHANGED cache

\* cache_result makes room by dropping the smallest id.
CacheResult(i, status) ==
  LET room == IF Cardinality(Cached) >= CacheSize THEN [cache EXCEPT ![Min(Cached)] = "none"]
                                                  ELSE cache
  IN cache' = [room EXCEPT ![i] = status]

Respond(i, status) ==
  /\ \E ok \in Sent : responses' = Put(responses, [id |-> i, status |-> status], ok)
  /\ answers' = answers \cup {<<session, i, status>>}

\* answer_offline: the request is answered without a handler.
AnswerOffline(i, status) ==
  /\ CacheResult(i, status)
  /\ Respond(i, status)
  /\ UNCHANGED <<executing, tasks>>

NewTask(i) == [id |-> i, sess |-> session, stage |-> "queued", phase |-> "open",
               stop |-> "no", flag |-> "no", ran |-> "no", result |-> "none"]

\* start_server_call, when the executor takes the task.
StartServerCall(i) ==
  /\ Len(tasks) < load.tasks
  /\ tasks' = Append(tasks, NewTask(i))
  /\ executing' = [executing EXCEPT ![i] = Len(tasks) + 1]
  /\ UNCHANGED <<cache, answers, responses>>

\* handle_request: replay, ignore a request already executing, refuse at one of
\* the gates (unknown method, scope, schema, a full executing set, a full
\* executor), or start.
Request(i) ==
  \/ /\ cache[i] # "none"
     /\ Respond(i, cache[i])
     /\ UNCHANGED <<executing, tasks, cache>>
  \/ /\ cache[i] = "none" /\ i \in Executing
     /\ UNCHANGED <<responses, serverVars>>
  \/ /\ cache[i] = "none" /\ i \notin Executing
     /\ AnswerOffline(i, "rejected")
  \/ /\ cache[i] = "none" /\ i \notin Executing
     /\ Cardinality(Executing) < MaxExecuting
     /\ StartServerCall(i)

HandleRequest ==
  /\ "s" \in up /\ requests # <<>>
  /\ requests' = Tail(requests)
  /\ Request(Head(requests))
  /\ UNCHANGED <<sessionVars, clientVars, cancels, dups>>

\* answer: the phase decides who answers; q is tasks after the caller's changes.
Answer(n, status, q) ==
  /\ tasks' = [q EXCEPT ![n].phase = "terminal"]
  /\ executing' = [executing EXCEPT ![tasks[n].id] = 0]
  /\ CacheResult(tasks[n].id, status)
  /\ Respond(tasks[n].id, status)

MutantHandleCancel ==
  /\ "s" \in up /\ cancels # <<>>
  /\ cancels' = Tail(cancels)
  /\ LET n == executing[Head(cancels)]
     IN IF n = 0 THEN UNCHANGED <<responses, serverVars>>
        ELSE Answer(n, "cancelled_early", [tasks EXCEPT ![n] = Stopped([@ EXCEPT !.flag = "cancelled"])])
  /\ UNCHANGED <<sessionVars, clientVars, requests, dups>>

MutantStopsQueued ==
  /\ "s" \in up /\ cancels # <<>>
  /\ cancels' = Tail(cancels)
  /\ LET n == executing[Head(cancels)]
     IN IF n = 0 THEN UNCHANGED <<responses, serverVars>>
        ELSE /\ tasks' = [tasks EXCEPT ![n] = Stopped([@ EXCEPT !.flag = "cancelled"])]
             /\ UNCHANGED <<responses, executing, cache, answers>>
  /\ UNCHANGED <<sessionVars, clientVars, requests, dups>>

\* handle_cancel: a task the executor had not started never runs, and is
\* answered here.
HandleCancel ==
  /\ "s" \in up /\ cancels # <<>>
  /\ cancels' = Tail(cancels)
  /\ LET n == executing[Head(cancels)]
         flagged == [tasks EXCEPT ![n] = Stopped([@ EXCEPT !.flag = "cancelled"])]
     IN IF n = 0 THEN UNCHANGED <<responses, serverVars>>
        ELSE IF tasks[n].stage = "queued" THEN Answer(n, "cancelled_early", flagged)
        ELSE /\ tasks' = flagged
             /\ UNCHANGED <<responses, executing, cache, answers>>
  /\ UNCHANGED <<sessionVars, clientVars, requests, dups>>

\* prune_executing_deadlines, for one request whose deadline has passed; several
\* at once are several such steps in a row.
PruneExecuting(i) ==
  /\ "s" \in up /\ i \in Executing
  /\ Answer(executing[i], "deadline", [tasks EXCEPT ![executing[i]] = Stopped(@)])
  /\ UNCHANGED <<sessionVars, clientVars, requests, cancels, dups>>

\* The executor starts a queued task.
TaskBegin(n) ==
  /\ tasks[n].stage = "queued"
  /\ tasks' = [tasks EXCEPT ![n].stage = "started"]
  /\ UNCHANGED <<sessionVars, clientVars, wireVars, executing, cache, answers>>

Post(t, result) == [t EXCEPT !.stage = "posted", !.result = result]

\* The task's own checks, then the handler: phase, stop token, deadline.
TaskCheck(n) ==
  /\ tasks[n].stage = "started"
  /\ LET t == tasks[n]
     IN IF t.phase = "terminal" THEN tasks' = [tasks EXCEPT ![n].stage = "removed"]
        ELSE IF t.stop = "requested" THEN tasks' = [tasks EXCEPT ![n] = Post(t, "cancelled")]
        ELSE \/ tasks' = [tasks EXCEPT ![n] = Post(t, "deadline_early")]
             \/ tasks' = [tasks EXCEPT ![n].stage = "running", ![n].ran = "yes"]
  /\ UNCHANGED <<sessionVars, clientVars, wireVars, executing, cache, answers>>

\* The handler returns, having seen the cancel flag or not; a handler that throws
\* is answered as one that failed.
TaskReturn(n) ==
  /\ tasks[n].stage = "running"
  /\ \E result \in {"ok"} \cup (IF tasks[n].flag = "cancelled" THEN {"cancelled"} ELSE {}) :
       tasks' = [tasks EXCEPT ![n] = Post(@, result)]
  /\ UNCHANGED <<sessionVars, clientVars, wireVars, executing, cache, answers>>

MutantLate(n) == FALSE

\* finish_server_call finds the request answered already, or its service gone.
Late(n) ==
  \/ "s" \notin up \/ tasks[n].sess # session
  \/ executing[tasks[n].id] = 0
  \/ tasks[n].phase = "terminal"

FinishServerCall(n) ==
  /\ tasks[n].stage = "posted"
  /\ LET done == [tasks EXCEPT ![n].stage = "finished"]
     IN IF Late(n)
          THEN tasks' = done /\ UNCHANGED <<executing, cache, responses, answers>>
          ELSE Answer(n, tasks[n].result, done)
  /\ UNCHANGED <<sessionVars, clientVars, requests, cancels, dups>>

\* The peer sends an identical request again (wire protocol 6.2).
SendAgain(i) ==
  /\ link /\ dups < load.dups
  /\ call[i] \in {"pending", "done"} /\ outcome[i] # "not_admitted"
  /\ requests' = Append(requests, i)
  /\ dups' = dups + 1
  /\ UNCHANGED <<sessionVars, clientVars, cancels, responses, serverVars>>

-----------------------------------------------------------------------------
ClientStep ==
  \/ \E i \in Ids : Call(i) \/ Cancel(i) \/ DeadlinePasses(i)
  \/ Resubmit \/ PruneRetry \/ PruneClient \/ HandleResponse
  \/ TearDownClient \/ SendClosesSession \/ Shutdown

ServerStep ==
  \/ HandleRequest \/ HandleCancel \/ TearDownServer
  \/ \E i \in Ids : PruneExecuting(i)
  \/ \E n \in DOMAIN tasks : FinishServerCall(n)

ExecutorStep == \E n \in DOMAIN tasks : TaskBegin(n) \/ TaskCheck(n) \/ TaskReturn(n)

Next ==
  \/ ClientStep \/ ServerStep \/ ExecutorStep
  \/ Connect \/ LinkLost
  \/ \E i \in Ids : SendAgain(i)

Spec == Init /\ [][Next]_vars

\* Maintenance runs again and again on every node, the strand runs what the
\* transport reports to it, and handlers return.  Nothing makes a peer come
\* back.
Fairness ==
  /\ WF_vars(PruneClient) /\ WF_vars(TearDownClient) /\ WF_vars(TearDownServer)
  /\ WF_vars(Resubmit) /\ WF_vars(PruneRetry)
  /\ WF_vars(HandleRequest) /\ WF_vars(HandleResponse) /\ WF_vars(HandleCancel)
  /\ \A n \in 1 .. Max({x.tasks : x \in Loads}) :
       WF_vars(n \in DOMAIN tasks
                 /\ (TaskBegin(n) \/ TaskCheck(n) \/ TaskReturn(n) \/ FinishServerCall(n)))

FairSpec == Spec /\ Fairness

-----------------------------------------------------------------------------
(* Properties.                                                             *)

Status == {"ok", "cancelled", "cancelled_early", "deadline", "deadline_early", "rejected"}

\* The requests of a behaviour fit the result cache.
CacheFits == Cardinality(load.ids) <= CacheSize

TypeOK ==
  /\ up \subseteq {"c", "s"}
  /\ call \in [Ids -> {"new", "pending", "retry", "done"}]
  /\ outcome \in [Ids -> Status \cup {"none", "unknown", "not_admitted"}]
  /\ Range(retry) \subseteq {i \in Ids : call[i] = "retry"}
  /\ Range(requests) \subseteq Ids /\ Range(cancels) \subseteq Ids
  /\ \A n \in DOMAIN responses : responses[n].id \in Ids /\ responses[n].status \in Status
  /\ executing \in [Ids -> 0 .. Len(tasks)]
  /\ cache \in [Ids -> Status \cup {"none"}]

\* A call's completion runs at most once, and only as the call leaves the client's
\* tables, whatever response, cancel, deadline, session loss, retry and shutdown
\* race; a call waits for a reconnect exactly while it is in the retry queue.
CompletesOnce ==
  \A i \in Ids :
    /\ completed[i] <= 1
    /\ completed[i] = 1 => call[i] = "done"
    /\ call[i] = "retry" <=> i \in Range(retry)

\* "`completion` fires exactly once with the terminal outcome": a call that has
\* left both the pending table and the retry queue has completed.
CompletionFires == \A i \in Ids : call[i] = "done" => completed[i] = 1

\* The server gives one verdict per request and session: the deadline, a cancel
\* and the handler's result race for it, and everything sent later for the same
\* request is a replay.
OneVerdict ==
  \A a, b \in answers : (a[1] = b[1] /\ a[2] = b[2]) => a[3] = b[3]

Runs(i, s) == Cardinality({n \in DOMAIN tasks : tasks[n].id = i /\ tasks[n].sess = s
                                               /\ tasks[n].ran = "yes"})

\* Within a session whose requests fit the result cache, no handler runs twice
\* for a request, however often it is received.
AtMostOncePerSession == \A i \in Ids, s \in 1 .. session : Runs(i, s) <= 1

\* What the server reports as never run (refused at a gate, cancelled or expired
\* before it started) has not run in that session and never does: the task can
\* no longer start.
NeverRunIsTrue ==
  \A a \in answers :
    a[3] \in {"rejected", "cancelled_early", "deadline_early"} => Runs(a[2], a[1]) = 0

\* A call whose local deadline has passed does end, whether it is pending or waits
\* in the retry queue for a peer that never comes back.
DeadlineHonoured ==
  \A i \in Ids : (i \in due) ~> (call[i] = "done")

\* Every request the server has started is answered or its session ends: the
\* executing set does not fill up with calls nobody answers.
ExecutingDrains == \A i \in Ids : []<>(i \notin Executing)

\* A call and a request are settled once: the requester's completion runs at
\* most once and the server gives one verdict (complete_pending, answer).
CallsSettle == TypeOK /\ CompletesOnce /\ OneVerdict

\* A handler runs at most once for a request of a session, and not at all for
\* one that was reported as never run (start_server_call, handle_cancel, prune_executing_deadlines).
RunsAtMostOnce == AtMostOncePerSession /\ NeverRunIsTrue
=============================================================================
