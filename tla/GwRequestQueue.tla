--------------------------- MODULE GwRequestQueue ---------------------------
(***************************************************************************)
(* The requests that other tasks hand to the main loop: GwMessage,         *)
(* GwRequestMessage and GwRequestQueue (lib/queue), the web server's       *)
(* handleAsyncWebRequest (lib/gwwebserver), the factory reset of the       *)
(* button task, and the end of loopRun (src/main.cpp).                     *)
(*                                                                         *)
(* Actors: the web server's task, which runs all its callbacks one after   *)
(* the other and blocks inside sendAndWait; the button task; the main      *)
(* loop.  A message is freed when its reference count reaches 0.  Steps    *)
(* that touch only a message no other task can see yet are one action.     *)
(***************************************************************************)
EXTENDS Integers, Sequences

CONSTANTS
  Web,        (* the messages of HTTP requests                             *)
  Forget,     (* the messages of sendAndForget (FactoryResetRequest)       *)
  QueueLen,   (* length of mainQueue                                       *)
  MaxLen,     (* bound: length of a result in the model                    *)
  NoMessage   (* "the main loop holds no message"                          *)

ASSUME QueueAssumption ==
  /\ Web \cap Forget = {} /\ NoMessage \notin Web \cup Forget
  /\ QueueLen \in Nat \ {0}
  /\ MaxLen \in Nat

Message == Web \cup Forget

VARIABLES
  task,       (* where the asking task is with its message                 *)
  queue,      (* theQueue                                                  *)
  msg, stage, (* the main loop's message, and the next step to do for it   *)
  refcount,   (* of each message; 0: deleted (or not yet created)          *)
  notifier,   (* the counting semaphore with maximum 1                     *)
  handled, len, consumed, (* of GwRequestMessage                           *)
  performed,  (* the messages whose processRequest has run                 *)
  answer      (* what the asker got                                        *)

vars == <<task, queue, msg, stage, refcount, notifier, handled, len, consumed,
          performed, answer>>

mainVars == <<msg, stage, performed>>
resultVars == <<handled, len, consumed>>

(* The web task runs one handler at a time: nothing else of it happens     *)
(* while a handler is inside sendAndWait or before its answer.             *)
WebTaskFree == \A m \in Web : task[m] \notin {"waiting", "answering"}

(* GwMessage::unref and the change of the asker's position. *)
unref(m) == refcount' = [refcount EXCEPT ![m] = @ - 1]
Goto(m, where) == task' = [task EXCEPT ![m] = where]
Reply(m, what) == answer' = [answer EXCEPT ![m] = what]

(* Faulty variants of the definitions below; each breaks a property. *)
SendAndWaitLeaks(m) ==
  /\ task[m] = "new" /\ WebTaskFree
  /\ \/ /\ Len(queue) < QueueLen
        /\ queue' = Append(queue, m)
        /\ refcount' = [refcount EXCEPT ![m] = 1 + 2]
        /\ Goto(m, "waiting") /\ UNCHANGED answer
     \/ /\ Len(queue) >= QueueLen
        /\ refcount' = [refcount EXCEPT ![m] = 1 + 2 - 2]
        /\ Goto(m, "done") /\ Reply(m, "refused") /\ UNCHANGED queue
  /\ UNCHANGED <<mainVars, notifier, resultVars>>
WaitTimeoutCancels(m) ==
  /\ task[m] = "waiting" /\ notifier[m] = 0
  /\ unref(m) /\ Goto(m, "chunked")
  /\ queue' = SelectSeq(queue, LAMBDA q : q # m)
  /\ UNCHANGED <<mainVars, notifier, resultVars, answer>>
consumeUnclamped(m, maxLen) ==
  IF ~handled[m] THEN UNCHANGED <<consumed, answer>>
  ELSE IF consumed[m] >= len[m] THEN Reply(m, "ok") /\ UNCHANGED consumed
  ELSE consumed' = [consumed EXCEPT ![m] = @ + maxLen] /\ UNCHANGED answer
consumeDropsLast(m, maxLen) ==
  IF ~handled[m] THEN UNCHANGED <<consumed, answer>>
  ELSE IF consumed[m] + maxLen >= len[m] THEN Reply(m, "ok") /\ UNCHANGED consumed
  ELSE consumed' = [consumed EXCEPT ![m] = @ + maxLen] /\ UNCHANGED answer
sendAndForgetOverwrites(m) ==
  /\ task[m] = "new"
  /\ queue' = Append(IF Len(queue) < QueueLen THEN queue ELSE Tail(queue), m)
  /\ refcount' = [refcount EXCEPT ![m] = 1 + 1]
  /\ Goto(m, "sent")
  /\ UNCHANGED <<mainVars, notifier, resultVars, answer>>
MainUnrefForgotten ==
  /\ stage = "unref"
  /\ stage' = "idle" /\ msg' = NoMessage
  /\ UNCHANGED <<task, queue, refcount, notifier, resultVars, performed, answer>>
-----------------------------------------------------------------------------
Init ==
  /\ task = [m \in Message |-> "new"]
  /\ queue = << >>
  /\ msg = NoMessage /\ stage = "idle"
  /\ refcount = [m \in Message |-> 0]
  /\ notifier = [m \in Message |-> 0]
  /\ handled = [m \in Message |-> FALSE]
  /\ len = [m \in Message |-> 0]
  /\ consumed = [m \in Message |-> 0]
  /\ performed = {}
  /\ answer = [m \in Message |-> "none"]

(* A web handler creates its message and calls sendAndWait: a reference    *)
(* for the queue and one for waiting.  When xQueueSend fails sendAndWait   *)
(* takes both back, handleAsyncWebRequest drops its own and answers 500.   *)
sendAndWait(m) ==
  /\ task[m] = "new" /\ WebTaskFree
  /\ \/ /\ Len(queue) < QueueLen
        /\ queue' = Append(queue, m)
        /\ refcount' = [refcount EXCEPT ![m] = 1 + 2]
        /\ Goto(m, "waiting") /\ UNCHANGED answer
     \/ /\ Len(queue) >= QueueLen
        /\ refcount' = [refcount EXCEPT ![m] = 1 + 2 - 2 - 1]
        /\ Goto(m, "done") /\ Reply(m, "refused") /\ UNCHANGED queue
  /\ UNCHANGED <<mainVars, notifier, resultVars>>

(* wait() takes the notifier in time: drop the waiting reference. *)
WaitOk(m) ==
  /\ task[m] = "waiting" /\ notifier[m] = 1
  /\ notifier' = [notifier EXCEPT ![m] = 0]
  /\ unref(m) /\ Goto(m, "answering")
  /\ UNCHANGED <<queue, mainVars, resultVars, answer>>

(* The complete result is sent at once and the message dropped. *)
SendResult(m) ==
  /\ task[m] = "answering"
  /\ Reply(m, "ok")
  /\ unref(m) /\ Goto(m, "done")
  /\ UNCHANGED <<queue, mainVars, notifier, resultVars>>

(* No notification in time: only the waiting reference is dropped, and the *)
(* message now belongs to the chunked response.                            *)
WaitTimeout(m) ==
  /\ task[m] = "waiting" /\ notifier[m] = 0
  /\ unref(m) /\ Goto(m, "chunked")
  /\ UNCHANGED <<queue, mainVars, notifier, resultVars, answer>>

(* GwRequestMessage::consume for a buffer of maxLen bytes; 0 bytes end the *)
(* response.                                                               *)
consume(m, maxLen) ==
  IF ~handled[m]
  THEN UNCHANGED <<consumed, answer>>          (* RESPONSE_TRY_AGAIN *)
  ELSE IF consumed[m] >= len[m]
  THEN Reply(m, "ok") /\ UNCHANGED consumed
  ELSE /\ consumed' = [consumed EXCEPT ![m] = IF @ + maxLen < len[m] THEN @ + maxLen ELSE len[m]]
       /\ UNCHANGED answer

(* The chunked response asks for data: isHandled() || wait(1).  A request  *)
(* that is not handled yet may become so, and be notified, inside wait(1). *)
Fill(m, maxLen) ==
  /\ task[m] = "chunked" /\ answer[m] = "none" /\ WebTaskFree
  /\ \/ handled[m] /\ UNCHANGED notifier
     \/ notifier[m] = 1 /\ notifier' = [notifier EXCEPT ![m] = 0]
  /\ consume(m, maxLen)
  /\ UNCHANGED <<task, queue, mainVars, refcount, handled, len>>

(* The connection ends, after the response or because the client left. *)
onDisconnect(m) ==
  /\ task[m] = "chunked" /\ WebTaskFree
  /\ unref(m) /\ Goto(m, "done")
  /\ IF answer[m] = "none" THEN Reply(m, "gone") ELSE UNCHANGED answer
  /\ UNCHANGED <<queue, mainVars, notifier, resultVars>>
-----------------------------------------------------------------------------
(* The button task creates a FactoryResetRequest and calls sendAndForget;  *)
(* it does not look at the outcome.                                        *)
sendAndForget(m) ==
  /\ task[m] = "new"
  /\ \/ /\ Len(queue) < QueueLen
        /\ queue' = Append(queue, m)
        /\ refcount' = [refcount EXCEPT ![m] = 1 + 1]
        /\ UNCHANGED answer
     \/ /\ Len(queue) >= QueueLen
        /\ refcount' = [refcount EXCEPT ![m] = 1 + 1 - 1]
        /\ Reply(m, "refused") /\ UNCHANGED queue
  /\ Goto(m, "sent")
  /\ UNCHANGED <<mainVars, notifier, resultVars>>

(* ... and drops its own reference. *)
Release(m) ==
  /\ task[m] = "sent"
  /\ unref(m) /\ Goto(m, "done")
  /\ UNCHANGED <<queue, mainVars, notifier, resultVars, answer>>
-----------------------------------------------------------------------------
(* The main loop: fetchMessage(0), process(), unref().  process() runs     *)
(* processRequest and stores the length, then marks the request handled,   *)
(* then gives the notifier.                                                *)
fetchMessage ==
  /\ stage = "idle" /\ queue # << >>
  /\ msg' = Head(queue) /\ queue' = Tail(queue)
  /\ stage' = "request"
  /\ UNCHANGED <<task, refcount, notifier, resultVars, performed, answer>>

processRequest ==
  /\ stage = "request"
  /\ performed' = performed \cup {msg}
  /\ \/ /\ msg \in Web
        /\ \E n \in 0 .. MaxLen : len' = [len EXCEPT ![msg] = n]
        /\ stage' = "publish"
     \/ msg \in Forget /\ stage' = "notify" /\ UNCHANGED len
  /\ UNCHANGED <<task, queue, msg, refcount, notifier, handled, consumed, answer>>

Publish ==
  /\ stage = "publish"
  /\ consumed' = [consumed EXCEPT ![msg] = 0]
  /\ handled' = [handled EXCEPT ![msg] = TRUE]
  /\ stage' = "notify"
  /\ UNCHANGED <<task, queue, msg, refcount, notifier, len, performed, answer>>

Notify ==
  /\ stage = "notify"
  /\ notifier' = [notifier EXCEPT ![msg] = 1]
  /\ stage' = "unref"
  /\ UNCHANGED <<task, queue, msg, refcount, resultVars, performed, answer>>

MainUnref ==
  /\ stage = "unref"
  /\ unref(msg)
  /\ stage' = "idle" /\ msg' = NoMessage
  /\ UNCHANGED <<task, queue, notifier, resultVars, performed, answer>>

MainLoop == fetchMessage \/ processRequest \/ Publish \/ Notify \/ MainUnref

WebTask(m) ==
  \/ sendAndWait(m)
  \/ WaitOk(m)
  \/ SendResult(m)
  \/ WaitTimeout(m)
  \/ \E maxLen \in 1 .. 2 : Fill(m, maxLen)
  \/ onDisconnect(m)

(* The run ends when all messages of the instance have been dealt with. *)
Finished ==
  /\ \A m \in Message : task[m] = "done"
  /\ queue = << >> /\ stage = "idle"
  /\ UNCHANGED vars

Next ==
  \/ \E m \in Web : WebTask(m)
  \/ \E m \in Forget : sendAndForget(m) \/ Release(m)
  \/ MainLoop
  \/ Finished

Spec == Init /\ [][Next]_vars

(* The main loop runs for ever; xSemaphoreTake returns; the server asks    *)
(* for data as long as the response has not ended and closes the           *)
(* connection afterwards.  Nothing makes a client leave or send.           *)
Fairness ==
  /\ WF_vars(MainLoop)
  /\ \A m \in Web :
       /\ WF_vars(WaitOk(m) \/ WaitTimeout(m))
       /\ WF_vars(SendResult(m))
       /\ WF_vars(\E maxLen \in 1 .. 2 : Fill(m, maxLen))
       /\ WF_vars(answer[m] = "ok" /\ onDisconnect(m))
  /\ \A m \in Forget : WF_vars(Release(m))

FairSpec == Spec /\ Fairness
-----------------------------------------------------------------------------
TypeOK ==
  /\ task \in [Message -> {"new", "waiting", "answering", "chunked", "sent", "done"}]
  /\ queue \in Seq(Message) /\ Len(queue) <= QueueLen
  /\ msg \in Message \cup {NoMessage}
  /\ stage \in {"idle", "request", "publish", "notify", "unref"}
  /\ refcount \in [Message -> Int]
  /\ notifier \in [Message -> {0, 1}]
  /\ handled \in [Message -> BOOLEAN]
  /\ len \in [Message -> 0 .. MaxLen] /\ consumed \in [Message -> 0 .. MaxLen]
  /\ performed \subseteq Message
  /\ answer \in [Message -> {"none", "ok", "refused", "gone"}]

(* Who may still use a message: the task that created it, the same task    *)
(* inside wait(), the queue, the main loop.                                *)
Holds(b) == IF b THEN 1 ELSE 0
Queued(m) == \E i \in 1 .. Len(queue) : queue[i] = m
Owned(m) == task[m] \notin {"new", "done"}
Holders(m) ==
  Holds(Owned(m)) + Holds(task[m] = "waiting") + Holds(Queued(m)) + Holds(msg = m)

(* The reference count is the number of those who still use the message:   *)
(* nobody uses a deleted message, whichever of wait timeout, notification, *)
(* disconnect and the main loop's unref comes first, and a message that    *)
(* nobody uses has been deleted.                                           *)
RefcountIsHolders == \A m \in Message : refcount[m] = Holders(m)

(* The tasks' view of a request, for the abstract service. *)
statusOf(m) ==
  IF answer[m] = "refused" THEN "refused"
  ELSE IF m \in performed THEN "performed"
  ELSE IF task[m] = "new" THEN "new" ELSE "pending"

Service == INSTANCE RequestService WITH
  Request <- Message,
  Capacity <- QueueLen,
  pending <- (IF stage = "request" THEN <<msg>> ELSE << >>) \o queue,
  status <- [m \in Message |-> statusOf(m)]

(* Requests are performed once and in order, refused ones never, and an    *)
(* answer is sent once, only after the request was performed and (chunked) *)
(* only when the result has been handed over.                              *)
IsRequestService == Service!Spec

(* A complete response carried every byte of the result. *)
AnswerIsComplete ==
  \A m \in Web :
    answer[m] = "ok" => handled[m] /\ (task[m] = "chunked" => consumed[m] = len[m])

(* What was accepted is performed, even if its asker has left. *)
AcceptedIsPerformed ==
  \A m \in Message : statusOf(m) = "pending" ~> m \in performed

(* Every message is freed in the end, after an answer, a refusal or the    *)
(* client's leaving: no path of the two tasks leaks it.                    *)
EveryMessageFreed ==
  \A m \in Message : task[m] # "new" ~> (task[m] = "done" /\ refcount[m] = 0)
=============================================================================
