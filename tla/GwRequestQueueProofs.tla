------------------------ MODULE GwRequestQueueProofs ------------------------
(***************************************************************************)
(* Proofs about GwRequestQueue for any number of requests and any queue    *)
(* length: the reference count of a message is the number of its users, a  *)
(* complete answer carries the whole result, and the queue is the service  *)
(* of RequestService.                                                      *)
(***************************************************************************)
EXTENDS GwRequestQueue, SequenceTheorems, TLAPS

(* Where messages are: the main loop's message and the queued messages are *)
(* different, sent, and each in one place.                                 *)
Places ==
  /\ stage = "idle" <=> msg = NoMessage
  /\ \A i, j \in 1 .. Len(queue) : queue[i] = queue[j] => i = j
  /\ \A m \in Message : Queued(m) => task[m] # "new" /\ msg # m
  /\ msg # NoMessage => task[msg] # "new"

(* How far the main loop is with a message, seen from its flags. *)
Progress ==
  /\ \A m \in Message :
       /\ handled[m] => ~Queued(m) /\ task[m] # "new"
       /\ ~handled[m] => consumed[m] = 0
       /\ consumed[m] <= len[m]
       /\ task[m] \in {"new", "waiting", "answering"} => answer[m] = "none"
  /\ \A m \in Web :
       /\ notifier[m] = 1 => handled[m]
       /\ task[m] = "answering" => handled[m]
  /\ stage \in {"request", "publish"} => ~handled[msg]
  /\ stage = "notify" /\ msg \in Web => handled[msg]

IInv == TypeOK /\ Places /\ RefcountIsHolders /\ Progress /\ AnswerIsComplete
-----------------------------------------------------------------------------
(* Sending adds a message at the end of the queue. *)
LEMMA QueuedBySend ==
  ASSUME TypeOK, NEW m \in Message, queue' = Append(queue, m)
  PROVE  /\ queue' \in Seq(Message) /\ Len(queue') = Len(queue) + 1
         /\ \A x : Queued(x)' <=> Queued(x) \/ x = m
         /\ /\ ~Queued(m)
            /\ \A i, j \in 1 .. Len(queue) : queue[i] = queue[j] => i = j
            => \A i, j \in 1 .. Len(queue') : queue'[i] = queue'[j] => i = j
<1>1. /\ queue \in Seq(Message) /\ Len(queue) \in Nat
      /\ queue' \in Seq(Message) /\ Len(queue') = Len(queue) + 1
      /\ \A i \in 1 .. Len(queue) : queue'[i] = queue[i]
      /\ queue'[Len(queue) + 1] = m
  BY DEF TypeOK
<1>2. ASSUME NEW x PROVE Queued(x)' <=> Queued(x) \/ x = m
  BY <1>1 DEF Queued
<1>3. ASSUME ~Queued(m), \A i, j \in 1 .. Len(queue) : queue[i] = queue[j] => i = j,
             NEW i \in 1 .. Len(queue'), NEW j \in 1 .. Len(queue'), queue'[i] = queue'[j]
      PROVE  i = j
  BY <1>1, <1>3 DEF Queued
<1> QED
  BY <1>1, <1>2, <1>3

(* Fetching takes the message at the front out of the queue. *)
LEMMA QueuedByFetch ==
  ASSUME TypeOK, queue # << >>, queue' = Tail(queue),
         \A i, j \in 1 .. Len(queue) : queue[i] = queue[j] => i = j
  PROVE  /\ queue' \in Seq(Message) /\ Len(queue') < Len(queue)
         /\ Head(queue) \in Message /\ Queued(Head(queue))
         /\ \A x : Queued(x)' <=> Queued(x) /\ x # Head(queue)
         /\ \A i, j \in 1 .. Len(queue') : queue'[i] = queue'[j] => i = j
<1>1. /\ queue \in Seq(Message) /\ Len(queue) \in Nat \ {0}
      /\ queue' \in Seq(Message) /\ Len(queue') = Len(queue) - 1
      /\ \A i \in 1 .. Len(queue) - 1 : queue'[i] = queue[i + 1]
      /\ Head(queue) = queue[1]
  BY EmptySeq DEF TypeOK
<1>2. Head(queue) \in Message /\ Queued(Head(queue))
  BY <1>1 DEF Queued
<1>3. ASSUME NEW x PROVE Queued(x)' <=> Queued(x) /\ x # Head(queue)
  <2>1. ASSUME Queued(x)' PROVE Queued(x) /\ x # Head(queue)
    <3>1. PICK i \in 1 .. Len(queue) - 1 : queue'[i] = x
      BY <1>1, <2>1 DEF Queued
    <3>2. i + 1 \in 1 .. Len(queue) /\ queue[i + 1] = x /\ 1 \in 1 .. Len(queue) /\ i + 1 # 1
      BY <1>1, <3>1
    <3> QED
      BY <1>1, <3>2 DEF Queued
  <2>2. ASSUME Queued(x), x # Head(queue) PROVE Queued(x)'
    <3>1. PICK i \in 1 .. Len(queue) : queue[i] = x
      BY <2>2 DEF Queued
    <3>2. i - 1 \in 1 .. Len(queue) - 1 /\ (i - 1) + 1 = i
      BY <1>1, <2>2, <3>1
    <3>3. queue'[i - 1] = x
      BY <1>1, <3>1, <3>2
    <3> QED
      BY <1>1, <3>2, <3>3 DEF Queued
  <2> QED
    BY <2>1, <2>2
<1>4. ASSUME NEW i \in 1 .. Len(queue'), NEW j \in 1 .. Len(queue'), queue'[i] = queue'[j]
      PROVE  i = j
  <2>1. i + 1 \in 1 .. Len(queue) /\ j + 1 \in 1 .. Len(queue)
    BY <1>1
  <2>2. queue[i + 1] = queue[j + 1]
    BY <1>1, <1>4
  <2>3. i + 1 = j + 1
    BY <2>1, <2>2
  <2> QED
    BY <1>1, <2>3
<1> QED
  BY <1>1, <1>2, <1>3, <1>4

(* A queue that does not change holds the same messages. *)
LEMMA QueuedUnchanged ==
  ASSUME UNCHANGED queue
  PROVE  \A x : Queued(x)' <=> Queued(x)
BY DEF Queued
-----------------------------------------------------------------------------
(* Every step keeps the types. *)
LEMMA StepType ==
  ASSUME TypeOK, Places, [Next]_vars
  PROVE  TypeOK'
<1> USE DEF mainVars, resultVars, Goto, Reply, unref
<1>0. msg # NoMessage => msg \in Message
  BY DEF TypeOK
<1>1. ASSUME NEW m \in Web, sendAndWait(m) PROVE TypeOK'
  <2>1. m \in Message
    BY DEF Message
  <2>2. task' \in [Message -> {"new", "waiting", "answering", "chunked", "sent", "done"}]
    BY <1>1, <2>1 DEF TypeOK, sendAndWait
  <2>3. refcount' \in [Message -> Int]
    BY <1>1, <2>1 DEF TypeOK, sendAndWait
  <2>4. answer' \in [Message -> {"none", "ok", "refused", "gone"}]
    BY <1>1, <2>1 DEF TypeOK, sendAndWait
  <2>5. queue' \in Seq(Message) /\ Len(queue') <= QueueLen
    <3>1. CASE Len(queue) < QueueLen /\ queue' = Append(queue, m)
      BY <2>1, <3>1, QueuedBySend, QueueAssumption DEF TypeOK
    <3>2. CASE UNCHANGED queue
      BY <3>2 DEF TypeOK
    <3> QED
      BY <1>1, <3>1, <3>2 DEF sendAndWait
  <2> QED
    BY <1>1, <2>2, <2>3, <2>4, <2>5 DEF TypeOK, sendAndWait
<1>2. ASSUME NEW m \in Web, WaitOk(m) PROVE TypeOK'
  BY <1>2 DEF TypeOK, WaitOk, Message
<1>3. ASSUME NEW m \in Web, SendResult(m) PROVE TypeOK'
  BY <1>3 DEF TypeOK, SendResult, Message
<1>4. ASSUME NEW m \in Web, WaitTimeout(m) PROVE TypeOK'
  BY <1>4 DEF TypeOK, WaitTimeout, Message
<1>5. ASSUME NEW m \in Web, NEW maxLen \in 1 .. 2, Fill(m, maxLen) PROVE TypeOK'
  <2>1. notifier' \in [Message -> {0, 1}] /\ answer' \in [Message -> {"none", "ok", "refused", "gone"}]
    BY <1>5 DEF TypeOK, Fill, consume, Message
  <2>2. consumed' \in [Message -> 0 .. MaxLen]
    <3>1. len[m] \in 0 .. MaxLen /\ consumed[m] \in 0 .. MaxLen /\ MaxLen \in Nat
      BY QueueAssumption DEF TypeOK, Message
    <3>2. (IF consumed[m] + maxLen < len[m] THEN consumed[m] + maxLen ELSE len[m]) \in 0 .. MaxLen
      BY <3>1
    <3> QED
      BY <1>5, <3>2 DEF TypeOK, Fill, consume, Message
  <2> QED
    BY <1>5, <2>1, <2>2 DEF TypeOK, Fill
<1>6. ASSUME NEW m \in Web, onDisconnect(m) PROVE TypeOK'
  <2>1. answer' \in [Message -> {"none", "ok", "refused", "gone"}]
    BY <1>6 DEF TypeOK, onDisconnect, Message
  <2>2. task' \in [Message -> {"new", "waiting", "answering", "chunked", "sent", "done"}]
    BY <1>6 DEF TypeOK, onDisconnect, Message
  <2>3. refcount' \in [Message -> Int]
    BY <1>6 DEF TypeOK, onDisconnect, Message
  <2> QED
    BY <1>6, <2>1, <2>2, <2>3 DEF TypeOK, onDisconnect
<1>7. ASSUME NEW m \in Forget, sendAndForget(m) PROVE TypeOK'
  <2>1. m \in Message
    BY DEF Message
  <2>2. task' \in [Message -> {"new", "waiting", "answering", "chunked", "sent", "done"}]
    BY <1>7, <2>1 DEF TypeOK, sendAndForget
  <2>3. refcount' \in [Message -> Int]
    BY <1>7, <2>1 DEF TypeOK, sendAndForget
  <2>4. answer' \in [Message -> {"none", "ok", "refused", "gone"}]
    BY <1>7, <2>1 DEF TypeOK, sendAndForget
  <2>5. queue' \in Seq(Message) /\ Len(queue') <= QueueLen
    <3>1. CASE Len(queue) < QueueLen /\ queue' = Append(queue, m)
      BY <2>1, <3>1, QueuedBySend, QueueAssumption DEF TypeOK
    <3>2. CASE UNCHANGED queue
      BY <3>2 DEF TypeOK
    <3> QED
      BY <1>7, <3>1, <3>2 DEF sendAndForget
  <2> QED
    BY <1>7, <2>2, <2>3, <2>4, <2>5 DEF TypeOK, sendAndForget
<1>8. ASSUME NEW m \in Forget, Release(m) PROVE TypeOK'
  BY <1>8 DEF TypeOK, Release, Message
<1>9. CASE fetchMessage
  <2>1. queue' \in Seq(Message) /\ Len(queue') < Len(queue) /\ Head(queue) \in Message
    BY <1>9, QueuedByFetch DEF fetchMessage, Places
  <2>2. Len(queue') <= QueueLen
    BY <2>1, QueueAssumption DEF TypeOK
  <2> QED
    BY <1>9, <2>1, <2>2 DEF TypeOK, fetchMessage
<1>10. CASE processRequest
  BY <1>0, <1>10 DEF TypeOK, processRequest, Places, Message
<1>11. CASE Publish
  BY <1>0, <1>11, QueueAssumption DEF TypeOK, Publish, Places
<1>12. CASE Notify
  BY <1>0, <1>12 DEF TypeOK, Notify, Places
<1>13. CASE MainUnref
  BY <1>0, <1>13 DEF TypeOK, MainUnref, Places
<1>14. CASE UNCHANGED vars
  BY <1>14 DEF TypeOK, vars
<1> QED
  BY <1>1, <1>2, <1>3, <1>4, <1>5, <1>6, <1>7, <1>8, <1>9, <1>10, <1>11, <1>12, <1>13, <1>14
     DEF Next, WebTask, MainLoop, Finished

(* Every step moves reference counts and holders together: what a step of  *)
(* one task adds or drops is never what another task relies on.            *)
LEMMA StepRefs ==
  ASSUME TypeOK, Places, RefcountIsHolders, [Next]_vars
  PROVE  Places' /\ RefcountIsHolders'
<1> USE DEF mainVars, resultVars, Goto, Reply, unref
<1>0. /\ msg # NoMessage => msg \in Message
      /\ NoMessage \notin Message
  BY QueueAssumption DEF TypeOK, Message
<1>1. ASSUME NEW m \in Web, sendAndWait(m) PROVE Places' /\ RefcountIsHolders'
  <2>0. m \in Message /\ task[m] = "new"
    BY <1>1 DEF sendAndWait, Message
  <2>1. m \in Message /\ task[m] = "new" /\ ~Queued(m) /\ msg # m
    BY <1>0, <2>0 DEF Places
  <2>2. CASE Len(queue) < QueueLen
    <3>1. queue' = Append(queue, m) /\ UNCHANGED <<msg, stage>>
      BY <1>1, <2>2, QueueAssumption DEF sendAndWait, TypeOK
    <3>2. /\ \A x : Queued(x)' <=> Queued(x) \/ x = m
          /\ \A i, j \in 1 .. Len(queue') : queue'[i] = queue'[j] => i = j
      BY <2>1, <3>1, QueuedBySend DEF Places
    <3>3. task' = [task EXCEPT ![m] = "waiting"]
      BY <1>1, <2>2, QueueAssumption DEF sendAndWait, TypeOK
    <3>4. refcount' = [refcount EXCEPT ![m] = 1 + 2]
      BY <1>1, <2>2, QueueAssumption DEF sendAndWait, TypeOK
    <3>5. Places'
      BY <2>1, <3>1, <3>2, <3>3 DEF Places, TypeOK
    <3> SUFFICES ASSUME NEW x \in Message PROVE refcount'[x] = Holders(x)'
      BY <3>5 DEF RefcountIsHolders
    <3>6. refcount[x] = Holders(x) /\ refcount[x] \in Int
      BY DEF RefcountIsHolders, TypeOK
    <3>7. CASE x = m
      BY <2>1, <3>1, <3>2, <3>3, <3>4, <3>7 DEF Holders, Owned, Holds, TypeOK
    <3>8. CASE x # m
      BY <2>1, <3>1, <3>2, <3>3, <3>4, <3>6, <3>8 DEF Holders, Owned, Holds, TypeOK
    <3> QED
      BY <3>7, <3>8
  <2>3. CASE ~(Len(queue) < QueueLen)
    <3>1. UNCHANGED <<queue, msg, stage>>
      BY <1>1, <2>3, QueueAssumption DEF sendAndWait, TypeOK
    <3>2. \A x : Queued(x)' <=> Queued(x)
      BY <3>1, QueuedUnchanged
    <3>3. task' = [task EXCEPT ![m] = "done"]
      BY <1>1, <2>3, QueueAssumption DEF sendAndWait, TypeOK
    <3>4. refcount' = [refcount EXCEPT ![m] = 0]
      BY <1>1, <2>3, QueueAssumption DEF sendAndWait, TypeOK
    <3>5. Places'
      BY <2>1, <3>1, <3>2, <3>3 DEF Places, TypeOK
    <3> SUFFICES ASSUME NEW x \in Message PROVE refcount'[x] = Holders(x)'
      BY <3>5 DEF RefcountIsHolders
    <3>6. refcount[x] = Holders(x) /\ refcount[x] \in Int
      BY DEF RefcountIsHolders, TypeOK
    <3>7. CASE x = m
      BY <2>1, <3>1, <3>2, <3>3, <3>4, <3>7 DEF Holders, Owned, Holds, TypeOK
    <3>8. CASE x # m
      BY <3>1, <3>2, <3>3, <3>4, <3>6, <3>8 DEF Holders, Owned, Holds, TypeOK
    <3> QED
      BY <3>7, <3>8
  <2> QED
    BY <2>2, <2>3
<1>2. ASSUME NEW m \in Web, WaitOk(m) PROVE Places' /\ RefcountIsHolders'
  <2>1. \A x : Queued(x)' <=> Queued(x)
    BY <1>2, QueuedUnchanged DEF WaitOk, Message
  <2>2. Places'
    BY <1>2, <2>1 DEF WaitOk, Message, Places, TypeOK
  <2> SUFFICES ASSUME NEW x \in Message PROVE refcount'[x] = Holders(x)'
    BY <2>2 DEF RefcountIsHolders
  <2>3. refcount[x] = Holders(x) /\ refcount[x] \in Int
    BY DEF RefcountIsHolders, TypeOK
  <2> QED
    BY <1>2, <2>1, <2>3 DEF WaitOk, Message, Holders, Owned, Holds, TypeOK
<1>3. ASSUME NEW m \in Web, SendResult(m) PROVE Places' /\ RefcountIsHolders'
  <2>1. \A x : Queued(x)' <=> Queued(x)
    BY <1>3, QueuedUnchanged DEF SendResult, Message
  <2>2. Places'
    BY <1>3, <2>1 DEF SendResult, Message, Places, TypeOK
  <2> SUFFICES ASSUME NEW x \in Message PROVE refcount'[x] = Holders(x)'
    BY <2>2 DEF RefcountIsHolders
  <2>3. refcount[x] = Holders(x) /\ refcount[x] \in Int
    BY DEF RefcountIsHolders, TypeOK
  <2> QED
    BY <1>3, <2>1, <2>3 DEF SendResult, Message, Holders, Owned, Holds, TypeOK
<1>4. ASSUME NEW m \in Web, WaitTimeout(m) PROVE Places' /\ RefcountIsHolders'
  <2>1. \A x : Queued(x)' <=> Queued(x)
    BY <1>4, QueuedUnchanged DEF WaitTimeout, Message
  <2>2. Places'
    BY <1>4, <2>1 DEF WaitTimeout, Message, Places, TypeOK
  <2> SUFFICES ASSUME NEW x \in Message PROVE refcount'[x] = Holders(x)'
    BY <2>2 DEF RefcountIsHolders
  <2>3. refcount[x] = Holders(x) /\ refcount[x] \in Int
    BY DEF RefcountIsHolders, TypeOK
  <2> QED
    BY <1>4, <2>1, <2>3 DEF WaitTimeout, Message, Holders, Owned, Holds, TypeOK
<1>5. ASSUME NEW m \in Web, NEW maxLen \in 1 .. 2, Fill(m, maxLen) PROVE Places' /\ RefcountIsHolders'
  <2>1. \A x : Queued(x)' <=> Queued(x)
    BY <1>5, QueuedUnchanged DEF Fill
  <2>2. Places'
    BY <1>5, <2>1 DEF Fill, Places, TypeOK
  <2> SUFFICES ASSUME NEW x \in Message PROVE refcount'[x] = Holders(x)'
    BY <2>2 DEF RefcountIsHolders
  <2>3. refcount[x] = Holders(x) /\ refcount[x] \in Int
    BY DEF RefcountIsHolders, TypeOK
  <2> QED
    BY <1>5, <2>1, <2>3 DEF Fill, Holders, Owned, Holds, TypeOK
<1>6. ASSUME NEW m \in Web, onDisconnect(m) PROVE Places' /\ RefcountIsHolders'
  <2>1. \A x : Queued(x)' <=> Queued(x)
    BY <1>6, QueuedUnchanged DEF onDisconnect, Message
  <2>2. Places'
    BY <1>6, <2>1 DEF onDisconnect, Message, Places, TypeOK
  <2> SUFFICES ASSUME NEW x \in Message PROVE refcount'[x] = Holders(x)'
    BY <2>2 DEF RefcountIsHolders
  <2>3. refcount[x] = Holders(x) /\ refcount[x] \in Int
    BY DEF RefcountIsHolders, TypeOK
  <2> QED
    BY <1>6, <2>1, <2>3 DEF onDisconnect, Message, Holders, Owned, Holds, TypeOK
<1>7. ASSUME NEW m \in Forget, sendAndForget(m) PROVE Places' /\ RefcountIsHolders'
  <2>0. m \in Message /\ task[m] = "new"
    BY <1>7 DEF sendAndForget, Message
  <2>1. m \in Message /\ task[m] = "new" /\ ~Queued(m) /\ msg # m
    BY <1>0, <2>0 DEF Places
  <2>2. CASE Len(queue) < QueueLen
    <3>1. queue' = Append(queue, m) /\ UNCHANGED <<msg, stage>>
      BY <1>7, <2>2, QueueAssumption DEF sendAndForget, TypeOK
    <3>2. /\ \A x : Queued(x)' <=> Queued(x) \/ x = m
          /\ \A i, j \in 1 .. Len(queue') : queue'[i] = queue'[j] => i = j
      BY <2>1, <3>1, QueuedBySend DEF Places
    <3>3. task' = [task EXCEPT ![m] = "sent"]
      BY <1>7, <2>2, QueueAssumption DEF sendAndForget, TypeOK
    <3>4. refcount' = [refcount EXCEPT ![m] = 1 + 1]
      BY <1>7, <2>2, QueueAssumption DEF sendAndForget, TypeOK
    <3>5. Places'
      BY <2>1, <3>1, <3>2, <3>3 DEF Places, TypeOK
    <3> SUFFICES ASSUME NEW x \in Message PROVE refcount'[x] = Holders(x)'
      BY <3>5 DEF RefcountIsHolders
    <3>6. refcount[x] = Holders(x) /\ refcount[x] \in Int
      BY DEF RefcountIsHolders, TypeOK
    <3>7. CASE x = m
      BY <2>1, <3>1, <3>2, <3>3, <3>4, <3>7 DEF Holders, Owned, Holds, TypeOK
    <3>8. CASE x # m
      BY <2>1, <3>1, <3>2, <3>3, <3>4, <3>6, <3>8 DEF Holders, Owned, Holds, TypeOK
    <3> QED
      BY <3>7, <3>8
  <2>3. CASE ~(Len(queue) < QueueLen)
    <3>1. UNCHANGED <<queue, msg, stage>>
      BY <1>7, <2>3, QueueAssumption DEF sendAndForget, TypeOK
    <3>2. \A x : Queued(x)' <=> Queued(x)
      BY <3>1, QueuedUnchanged
    <3>3. task' = [task EXCEPT ![m] = "sent"]
      BY <1>7, <2>3, QueueAssumption DEF sendAndForget, TypeOK
    <3>4. refcount' = [refcount EXCEPT ![m] = 1]
      BY <1>7, <2>3, QueueAssumption DEF sendAndForget, TypeOK
    <3>5. Places'
      BY <2>1, <3>1, <3>2, <3>3 DEF Places, TypeOK
    <3> SUFFICES ASSUME NEW x \in Message PROVE refcount'[x] = Holders(x)'
      BY <3>5 DEF RefcountIsHolders
    <3>6. refcount[x] = Holders(x) /\ refcount[x] \in Int
      BY DEF RefcountIsHolders, TypeOK
    <3>7. CASE x = m
      BY <2>1, <3>1, <3>2, <3>3, <3>4, <3>7 DEF Holders, Owned, Holds, TypeOK
    <3>8. CASE x # m
      BY <3>1, <3>2, <3>3, <3>4, <3>6, <3>8 DEF Holders, Owned, Holds, TypeOK
    <3> QED
      BY <3>7, <3>8
  <2> QED
    BY <2>2, <2>3
<1>8. ASSUME NEW m \in Forget, Release(m) PROVE Places' /\ RefcountIsHolders'
  <2>1. \A x : Queued(x)' <=> Queued(x)
    BY <1>8, QueuedUnchanged DEF Release, Message
  <2>2. Places'
    BY <1>8, <2>1 DEF Release, Message, Places, TypeOK
  <2> SUFFICES ASSUME NEW x \in Message PROVE refcount'[x] = Holders(x)'
    BY <2>2 DEF RefcountIsHolders
  <2>3. refcount[x] = Holders(x) /\ refcount[x] \in Int
    BY DEF RefcountIsHolders, TypeOK
  <2> QED
    BY <1>8, <2>1, <2>3 DEF Release, Message, Holders, Owned, Holds, TypeOK
<1>9. ASSUME fetchMessage PROVE Places' /\ RefcountIsHolders'
  <2>1. /\ Head(queue) \in Message /\ Queued(Head(queue))
        /\ \A x : Queued(x)' <=> Queued(x) /\ x # Head(queue)
        /\ \A i, j \in 1 .. Len(queue') : queue'[i] = queue'[j] => i = j
    BY <1>9, QueuedByFetch DEF fetchMessage, Places
  <2>2. Places'
    BY <1>0, <1>9, <2>1 DEF fetchMessage, Places, TypeOK
  <2> SUFFICES ASSUME NEW x \in Message PROVE refcount'[x] = Holders(x)'
    BY <2>2 DEF RefcountIsHolders
  <2>3. refcount[x] = Holders(x) /\ refcount[x] \in Int
    BY DEF RefcountIsHolders, TypeOK
  <2>4. msg = NoMessage /\ msg' = Head(queue) /\ UNCHANGED <<refcount, task>>
    BY <1>9 DEF fetchMessage, Places
  <2>5. Holders(x)' = Holders(x)
    BY <1>0, <2>1, <2>4 DEF Holders, Owned, Holds
  <2> QED
    BY <2>3, <2>4, <2>5
<1>10. ASSUME processRequest PROVE Places' /\ RefcountIsHolders'
  <2>1. \A x : Queued(x)' <=> Queued(x)
    BY <1>10, QueuedUnchanged DEF processRequest
  <2>2. Places'
    BY <1>10, <2>1 DEF processRequest, Places, TypeOK
  <2> SUFFICES ASSUME NEW x \in Message PROVE refcount'[x] = Holders(x)'
    BY <2>2 DEF RefcountIsHolders
  <2>3. refcount[x] = Holders(x) /\ refcount[x] \in Int
    BY DEF RefcountIsHolders, TypeOK
  <2> QED
    BY <1>10, <2>1, <2>3 DEF processRequest, Holders, Owned, Holds, TypeOK
<1>11. ASSUME Publish PROVE Places' /\ RefcountIsHolders'
  <2>1. \A x : Queued(x)' <=> Queued(x)
    BY <1>11, QueuedUnchanged DEF Publish
  <2>2. Places'
    BY <1>11, <2>1 DEF Publish, Places, TypeOK
  <2> SUFFICES ASSUME NEW x \in Message PROVE refcount'[x] = Holders(x)'
    BY <2>2 DEF RefcountIsHolders
  <2>3. refcount[x] = Holders(x) /\ refcount[x] \in Int
    BY DEF RefcountIsHolders, TypeOK
  <2> QED
    BY <1>11, <2>1, <2>3 DEF Publish, Holders, Owned, Holds, TypeOK
<1>12. ASSUME Notify PROVE Places' /\ RefcountIsHolders'
  <2>1. \A x : Queued(x)' <=> Queued(x)
    BY <1>12, QueuedUnchanged DEF Notify
  <2>2. Places'
    BY <1>12, <2>1 DEF Notify, Places, TypeOK
  <2> SUFFICES ASSUME NEW x \in Message PROVE refcount'[x] = Holders(x)'
    BY <2>2 DEF RefcountIsHolders
  <2>3. refcount[x] = Holders(x) /\ refcount[x] \in Int
    BY DEF RefcountIsHolders, TypeOK
  <2> QED
    BY <1>12, <2>1, <2>3 DEF Notify, Holders, Owned, Holds, TypeOK
<1>13. ASSUME MainUnref PROVE Places' /\ RefcountIsHolders'
  <2>1. \A x : Queued(x)' <=> Queued(x)
    BY <1>13, QueuedUnchanged DEF MainUnref
  <2>2. Places'
    BY <1>0, <1>13, <2>1 DEF MainUnref, Places, TypeOK
  <2> SUFFICES ASSUME NEW x \in Message PROVE refcount'[x] = Holders(x)'
    BY <2>2 DEF RefcountIsHolders
  <2>3. refcount[x] = Holders(x) /\ refcount[x] \in Int
    BY DEF RefcountIsHolders, TypeOK
  <2>4. msg \in Message /\ msg' = NoMessage /\ UNCHANGED task
    BY <1>0, <1>13 DEF MainUnref, Places
  <2> QED
    BY <1>0, <1>13, <2>1, <2>3, <2>4 DEF MainUnref, Holders, Owned, Holds, TypeOK
<1>14. ASSUME UNCHANGED vars PROVE Places' /\ RefcountIsHolders'
  <2>1. \A x : Queued(x)' <=> Queued(x)
    BY <1>14, QueuedUnchanged DEF vars
  <2>2. Places'
    BY <1>14, <2>1 DEF vars, Places, TypeOK
  <2> SUFFICES ASSUME NEW x \in Message PROVE refcount'[x] = Holders(x)'
    BY <2>2 DEF RefcountIsHolders
  <2>3. refcount[x] = Holders(x) /\ refcount[x] \in Int
    BY DEF RefcountIsHolders, TypeOK
  <2> QED
    BY <1>14, <2>1, <2>3 DEF vars, Holders, Owned, Holds, TypeOK
<1> QED
  BY <1>1, <1>2, <1>3, <1>4, <1>5, <1>6, <1>7, <1>8, <1>9, <1>10, <1>11, <1>12, <1>13, <1>14
     DEF Next, WebTask, MainLoop, Finished

(* Every step keeps the flags of a message in line with the main loop's    *)
(* progress, and an answer complete.                                       *)
LEMMA StepProgress ==
  ASSUME TypeOK, Places, Progress, AnswerIsComplete, [Next]_vars
  PROVE  Progress' /\ AnswerIsComplete'
<1> USE DEF mainVars, resultVars, Goto, Reply, unref
<1>0. /\ msg # NoMessage => msg \in Message
      /\ NoMessage \notin Message
      /\ stage # "idle" => msg # NoMessage /\ ~Queued(msg) /\ task[msg] # "new"
      /\ MaxLen \in Nat
  BY QueueAssumption DEF TypeOK, Message, Places
<1>1. ASSUME NEW m \in Web, sendAndWait(m) PROVE Progress' /\ AnswerIsComplete'
  <2>1. m \in Message /\ task[m] = "new" /\ ~handled[m]
    BY <1>1 DEF sendAndWait, Message, Progress
  <2>2. \A x : Queued(x)' => Queued(x) \/ x = m
    <3>1. CASE queue' = Append(queue, m)
      BY <2>1, <3>1, QueuedBySend
    <3>2. CASE UNCHANGED queue
      BY <3>2, QueuedUnchanged
    <3> QED
      BY <1>1, <3>1, <3>2 DEF sendAndWait
  <2> QED
    BY <1>0, <1>1, <2>1, <2>2 DEF sendAndWait, Progress, AnswerIsComplete, Message, TypeOK
<1>2. ASSUME NEW m \in Web, WaitOk(m) PROVE Progress' /\ AnswerIsComplete'
  <2>1. \A x : Queued(x)' <=> Queued(x)
    BY <1>2, QueuedUnchanged DEF WaitOk
  <2> QED
    BY <1>0, <1>2, <2>1 DEF WaitOk, Progress, AnswerIsComplete, Message, TypeOK
<1>3. ASSUME NEW m \in Web, SendResult(m) PROVE Progress' /\ AnswerIsComplete'
  <2>1. \A x : Queued(x)' <=> Queued(x)
    BY <1>3, QueuedUnchanged DEF SendResult
  <2> QED
    BY <1>0, <1>3, <2>1 DEF SendResult, Progress, AnswerIsComplete, Message, TypeOK
<1>4. ASSUME NEW m \in Web, WaitTimeout(m) PROVE Progress' /\ AnswerIsComplete'
  <2>1. \A x : Queued(x)' <=> Queued(x)
    BY <1>4, QueuedUnchanged DEF WaitTimeout
  <2> QED
    BY <1>0, <1>4, <2>1 DEF WaitTimeout, Progress, AnswerIsComplete, Message, TypeOK
<1>5. ASSUME NEW m \in Web, NEW maxLen \in 1 .. 2, Fill(m, maxLen) PROVE Progress' /\ AnswerIsComplete'
  <2>1. \A x : Queued(x)' <=> Queued(x)
    BY <1>5, QueuedUnchanged DEF Fill, consume
  <2> QED
    BY <1>0, <1>5, <2>1 DEF Fill, consume, Progress, AnswerIsComplete, Message, TypeOK
<1>6. ASSUME NEW m \in Web, onDisconnect(m) PROVE Progress' /\ AnswerIsComplete'
  <2>1. \A x : Queued(x)' <=> Queued(x)
    BY <1>6, QueuedUnchanged DEF onDisconnect
  <2> QED
    BY <1>0, <1>6, <2>1 DEF onDisconnect, Progress, AnswerIsComplete, Message, TypeOK
<1>7. ASSUME NEW m \in Forget, sendAndForget(m) PROVE Progress' /\ AnswerIsComplete'
  <2>1. m \in Message /\ task[m] = "new" /\ ~handled[m]
    BY <1>7 DEF sendAndForget, Message, Progress
  <2>2. \A x : Queued(x)' => Queued(x) \/ x = m
    <3>1. CASE queue' = Append(queue, m)
      BY <2>1, <3>1, QueuedBySend
    <3>2. CASE UNCHANGED queue
      BY <3>2, QueuedUnchanged
    <3> QED
      BY <1>7, <3>1, <3>2 DEF sendAndForget
  <2> QED
    BY <1>0, <1>7, <2>1, <2>2 DEF sendAndForget, Progress, AnswerIsComplete, Message, TypeOK
<1>8. ASSUME NEW m \in Forget, Release(m) PROVE Progress' /\ AnswerIsComplete'
  <2>1. \A x : Queued(x)' <=> Queued(x)
    BY <1>8, QueuedUnchanged DEF Release
  <2> QED
    BY <1>0, <1>8, <2>1 DEF Release, Progress, AnswerIsComplete, Message, TypeOK
<1>9. ASSUME fetchMessage PROVE Progress' /\ AnswerIsComplete'
  <2>1. /\ Head(queue) \in Message /\ Queued(Head(queue))
        /\ \A x : Queued(x)' <=> Queued(x) /\ x # Head(queue)
    BY <1>9, QueuedByFetch DEF fetchMessage, Places
  <2> QED
    BY <1>0, <1>9, <2>1 DEF fetchMessage, Progress, AnswerIsComplete, Message, TypeOK
<1>10. ASSUME processRequest PROVE Progress' /\ AnswerIsComplete'
  <2>1. \A x : Queued(x)' <=> Queued(x)
    BY <1>10, QueuedUnchanged DEF processRequest
  <2>2. msg \in Message /\ ~handled[msg] /\ stage = "request"
    BY <1>0, <1>10 DEF processRequest, Progress
  <2>3. CASE msg \in Web
    <3>1. PICK n \in 0 .. MaxLen : len' = [len EXCEPT ![msg] = n]
      BY <1>10, <2>3, QueueAssumption DEF processRequest
    <3>2. stage' = "publish" /\ UNCHANGED <<task, queue, msg, notifier, handled, consumed, answer>>
      BY <1>10, <2>3, QueueAssumption DEF processRequest
    <3>3. \A m \in Message : len'[m] \in 0 .. MaxLen /\ (m # msg => len'[m] = len[m])
      BY <2>2, <3>1 DEF TypeOK
    <3>4. Progress'
      BY <1>0, <2>1, <2>2, <3>2, <3>3 DEF Progress
    <3>5. AnswerIsComplete'
      BY <2>2, <3>2, <3>3 DEF AnswerIsComplete, Message
    <3> QED
      BY <3>4, <3>5
  <2>4. CASE msg \in Forget
    <3>1. msg \notin Web
      BY <2>4, QueueAssumption
    <3>2. /\ stage' = "notify" /\ UNCHANGED len
          /\ UNCHANGED <<task, queue, msg, notifier, handled, consumed, answer>>
      BY <1>10, <3>1 DEF processRequest
    <3> QED
      BY <2>1, <3>1, <3>2 DEF Progress, AnswerIsComplete
  <2> QED
    BY <2>2, <2>3, <2>4 DEF Message
<1>11. ASSUME Publish PROVE Progress' /\ AnswerIsComplete'
  <2>1. \A x : Queued(x)' <=> Queued(x)
    BY <1>11, QueuedUnchanged DEF Publish
  <2> QED
    BY <1>0, <1>11, <2>1 DEF Publish, Progress, AnswerIsComplete, Message, TypeOK
<1>12. ASSUME Notify PROVE Progress' /\ AnswerIsComplete'
  <2>1. \A x : Queued(x)' <=> Queued(x)
    BY <1>12, QueuedUnchanged DEF Notify
  <2> QED
    BY <1>0, <1>12, <2>1 DEF Notify, Progress, AnswerIsComplete, Message, TypeOK
<1>13. ASSUME MainUnref PROVE Progress' /\ AnswerIsComplete'
  <2>1. \A x : Queued(x)' <=> Queued(x)
    BY <1>13, QueuedUnchanged DEF MainUnref
  <2> QED
    BY <1>0, <1>13, <2>1 DEF MainUnref, Progress, AnswerIsComplete, Message, TypeOK
<1>14. ASSUME UNCHANGED vars PROVE Progress' /\ AnswerIsComplete'
  <2>1. \A x : Queued(x)' <=> Queued(x)
    BY <1>14, QueuedUnchanged DEF vars
  <2> QED
    BY <1>0, <1>14, <2>1 DEF vars, Progress, AnswerIsComplete, Message, TypeOK
<1> QED
  BY <1>1, <1>2, <1>3, <1>4, <1>5, <1>6, <1>7, <1>8, <1>9, <1>10, <1>11, <1>12, <1>13, <1>14
     DEF Next, WebTask, MainLoop, Finished
-----------------------------------------------------------------------------
(* The inductive invariant: the places of the messages are what makes the  *)
(* reference counts right, the main loop's progress is what makes the      *)
(* answers complete.                                                       *)
LEMMA Inductive == Spec => []IInv
<1>1. Init => IInv
  <2> SUFFICES ASSUME Init PROVE IInv
    OBVIOUS
  <2>1. TypeOK
    BY QueueAssumption, EmptySeq DEF Init, TypeOK
  <2>2. \A m : ~Queued(m)
    BY EmptySeq DEF Init, Queued
  <2>3. Places
    BY <2>2, EmptySeq DEF Init, Places
  <2>4. RefcountIsHolders
    BY <2>2, QueueAssumption DEF Init, RefcountIsHolders, Holders, Owned, Holds, Message
  <2>5. Progress
    BY <2>2, QueueAssumption DEF Init, Progress, Message
  <2>6. AnswerIsComplete
    BY DEF Init, AnswerIsComplete, Message
  <2> QED
    BY <2>1, <2>3, <2>4, <2>5, <2>6 DEF IInv
<1>2. IInv /\ [Next]_vars => IInv'
  BY StepType, StepRefs, StepProgress DEF IInv
<1> QED
  BY <1>1, <1>2, PTL DEF Spec

(* The flags, counters and positions keep their types. *)
THEOREM TypeCorrect == Spec => []TypeOK
<1>1. IInv => TypeOK
  BY DEF IInv
<1> QED
  BY <1>1, Inductive, PTL

(* However the steps of the web task, the button task and the main loop    *)
(* interleave, the reference count is the number of users: no message is   *)
(* used after its deletion and none is left behind without a user.         *)
THEOREM RefcountCorrect == Spec => []RefcountIsHolders
<1>1. IInv => RefcountIsHolders
  BY DEF IInv
<1> QED
  BY <1>1, Inductive, PTL

(* An answer that ended normally carried the complete result. *)
THEOREM AnswersComplete == Spec => []AnswerIsComplete
<1>1. IInv => AnswerIsComplete
  BY DEF IInv
<1> QED
  BY <1>1, Inductive, PTL
-----------------------------------------------------------------------------
(* The queue and the tasks implement the abstract service.                 *)

(* What the inductive invariant leaves open: a refused message is nowhere, *)
(* and only a performed one counts as handled.                             *)
Outcomes ==
  /\ \A m \in Message :
       /\ task[m] = "new" => m \notin performed /\ answer[m] = "none"
       /\ Queued(m) => m \notin performed /\ answer[m] # "refused"
       /\ handled[m] => m \in performed
  /\ stage = "request" => msg \notin performed
  /\ stage \in {"publish", "notify", "unref"} => msg \in performed
  /\ msg \in Message => answer[msg] # "refused"
  /\ \A m \in performed : answer[m] # "refused"

Pending == (IF stage = "request" THEN <<msg>> ELSE << >>) \o queue
Status == [m \in Message |-> statusOf(m)]

LEMMA PendingTyped ==
  ASSUME TypeOK, Places
  PROVE  /\ Pending \in Seq(Message) /\ Len(Pending) \in Nat
         /\ stage = "request" => Pending # << >> /\ Head(Pending) = msg /\ Tail(Pending) = queue
         /\ stage # "request" => Pending = queue
<1>1. queue \in Seq(Message)
  BY DEF TypeOK
<1>2. CASE stage # "request"
  BY <1>1, <1>2, LenProperties, ConcatSimplifications DEF Pending
<1>3. CASE stage = "request"
  <2>1. msg \in Message
    BY <1>3 DEF TypeOK, Places
  <2>2. Pending = <<msg>> \o queue
    BY <1>3 DEF Pending
  <2>3. <<msg>> \o queue \in Seq(Message)
    BY <1>1, <2>1
  <2>4. /\ <<msg>> \o queue # << >> /\ Head(<<msg>> \o queue) = msg
        /\ Tail(<<msg>> \o queue) = queue
    BY <1>1, <2>1
  <2> QED
    BY <1>3, <2>2, <2>3, <2>4, LenProperties
<1> QED
  BY <1>2, <1>3

(* A message that is sent becomes the last one pending. *)
LEMMA PendingAppend ==
  ASSUME TypeOK, Places, NEW m \in Message, queue' = Append(queue, m), UNCHANGED <<stage, msg>>
  PROVE  Pending' = Append(Pending, m)
<1>1. queue \in Seq(Message)
  BY DEF TypeOK
<1>2. CASE stage # "request"
  <2>1. Append(queue, m) \in Seq(Message)
    BY <1>1
  <2> QED
    BY <1>1, <1>2, <2>1, ConcatSimplifications DEF Pending
<1>3. CASE stage = "request"
  <2>1. msg \in Message /\ <<msg>> \in Seq(Message)
    BY <1>3 DEF TypeOK, Places
  <2>2. <<msg>> \o Append(queue, m) = Append(<<msg>> \o queue, m)
    BY <1>1, <2>1
  <2> QED
    BY <1>3, <2>2 DEF Pending
<1> QED
  BY <1>2, <1>3
-----------------------------------------------------------------------------
(* The steps of the service, in the terms of the queue. *)
LEMMA Accepts ==
  ASSUME NEW m \in Message, statusOf(m) = "new", Status' = [Status EXCEPT ![m] = "pending"],
         Pending' = Append(Pending, m), answer' = answer
  PROVE  Service!Next
BY DEF Service!Next, Service!Accept, Status, Pending

LEMMA Refuses ==
  ASSUME NEW m \in Message, statusOf(m) = "new", Len(Pending) >= QueueLen,
         Status' = [Status EXCEPT ![m] = "refused"],
         Pending' = Pending, answer' = [answer EXCEPT ![m] = "refused"]
  PROVE  Service!Next
BY DEF Service!Next, Service!Refuse, Status, Pending

LEMMA Performs ==
  ASSUME Pending # << >>, Status' = [Status EXCEPT ![Head(Pending)] = "performed"],
         Pending' = Tail(Pending), answer' = answer
  PROVE  Service!Next
BY DEF Service!Next, Service!Perform, Status, Pending

LEMMA Answers ==
  ASSUME NEW m \in Message, statusOf(m) = "performed", answer[m] = "none",
         answer' = [answer EXCEPT ![m] = "ok"], UNCHANGED <<Pending, Status>>
  PROVE  Service!Next
BY DEF Service!Next, Service!Answer, Status, Pending

LEMMA Abandons ==
  ASSUME NEW m \in Message, statusOf(m) \in {"pending", "performed"}, answer[m] = "none",
         answer' = [answer EXCEPT ![m] = "gone"], UNCHANGED <<Pending, Status>>
  PROVE  Service!Next
BY DEF Service!Next, Service!Abandon, Status, Pending

LEMMA Nothing ==
  ASSUME UNCHANGED <<Pending, Status, answer>>
  PROVE  UNCHANGED Service!vars
BY DEF Service!vars, Status, Pending
-----------------------------------------------------------------------------
(* Only what the tasks see of a message matters for its status. *)
LEMMA SameStatus ==
  ASSUME NEW m, (answer[m] = "refused") <=> (answer'[m] = "refused"),
         (m \in performed) <=> (m \in performed'), (task[m] = "new") <=> (task'[m] = "new")
  PROVE  statusOf(m)' = statusOf(m)
BY DEF statusOf

(* One message changes its status. *)
LEMMA OneStatus ==
  ASSUME NEW m \in Message, NEW v, statusOf(m)' = v,
         \A x \in Message \ {m} : statusOf(x)' = statusOf(x)
  PROVE  Status' = [Status EXCEPT ![m] = v]
BY DEF Status

LEMMA SamePending ==
  ASSUME UNCHANGED queue,
         \/ stage' = stage /\ msg' = msg
         \/ stage # "request" /\ stage' # "request"
  PROVE  Pending' = Pending
BY DEF Pending
-----------------------------------------------------------------------------
LEMMA StepOutcomes ==
  ASSUME TypeOK, Places, Progress, Outcomes, [Next]_vars
  PROVE  Outcomes'
<1> USE DEF mainVars, resultVars, Goto, Reply, unref
<1>0. /\ msg # NoMessage => msg \in Message /\ ~Queued(msg) /\ task[msg] # "new"
      /\ NoMessage \notin Message /\ (stage # "idle" => msg # NoMessage)
      /\ \A m \in Message : Queued(m) => task[m] # "new"
  BY QueueAssumption DEF TypeOK, Message, Places
<1>1. ASSUME NEW m \in Web, sendAndWait(m) PROVE Outcomes'
  <2>1. m \in Message /\ task[m] = "new" /\ ~Queued(m) /\ msg # m /\ m \notin performed /\ answer[m] = "none"
    BY <1>0, <1>1 DEF sendAndWait, Message, Outcomes
  <2>2. CASE queue' = Append(queue, m) /\ UNCHANGED answer
    <3>1. \A x : Queued(x)' <=> Queued(x) \/ x = m
      BY <2>1, <2>2, QueuedBySend
    <3> QED
      BY <1>0, <1>1, <2>1, <2>2, <3>1 DEF sendAndWait, Outcomes, Message, TypeOK
  <2>3. CASE queue' = queue /\ answer' = [answer EXCEPT ![m] = "refused"]
    <3>1. \A x : Queued(x)' <=> Queued(x)
      BY <2>3, QueuedUnchanged
    <3> QED
      BY <1>0, <1>1, <2>1, <2>3, <3>1 DEF sendAndWait, Outcomes, Message, TypeOK
  <2> QED
    BY <1>1, <2>2, <2>3 DEF sendAndWait
<1>2. ASSUME NEW m \in Web, WaitOk(m) PROVE Outcomes'
  <2>1. \A x : Queued(x)' <=> Queued(x)
    BY <1>2, QueuedUnchanged DEF WaitOk
  <2> QED
    BY <1>0, <1>2, <2>1 DEF WaitOk, Outcomes, Message, TypeOK
<1>3. ASSUME NEW m \in Web, SendResult(m) PROVE Outcomes'
  <2>1. \A x : Queued(x)' <=> Queued(x)
    BY <1>3, QueuedUnchanged DEF SendResult
  <2> QED
    BY <1>0, <1>3, <2>1 DEF SendResult, Outcomes, Message, TypeOK
<1>4. ASSUME NEW m \in Web, WaitTimeout(m) PROVE Outcomes'
  <2>1. \A x : Queued(x)' <=> Queued(x)
    BY <1>4, QueuedUnchanged DEF WaitTimeout
  <2> QED
    BY <1>0, <1>4, <2>1 DEF WaitTimeout, Outcomes, Message, TypeOK
<1>5. ASSUME NEW m \in Web, NEW maxLen \in 1 .. 2, Fill(m, maxLen) PROVE Outcomes'
  <2>1. \A x : Queued(x)' <=> Queued(x)
    BY <1>5, QueuedUnchanged DEF Fill, consume
  <2> QED
    BY <1>0, <1>5, <2>1 DEF Fill, consume, Outcomes, Message, TypeOK
<1>6. ASSUME NEW m \in Web, onDisconnect(m) PROVE Outcomes'
  <2>1. \A x : Queued(x)' <=> Queued(x)
    BY <1>6, QueuedUnchanged DEF onDisconnect
  <2> QED
    BY <1>0, <1>6, <2>1 DEF onDisconnect, Outcomes, Message, TypeOK
<1>7. ASSUME NEW m \in Forget, sendAndForget(m) PROVE Outcomes'
  <2>1. m \in Message /\ task[m] = "new" /\ ~Queued(m) /\ msg # m /\ m \notin performed /\ answer[m] = "none"
    BY <1>0, <1>7 DEF sendAndForget, Message, Outcomes
  <2>2. CASE queue' = Append(queue, m) /\ UNCHANGED answer
    <3>1. \A x : Queued(x)' <=> Queued(x) \/ x = m
      BY <2>1, <2>2, QueuedBySend
    <3> QED
      BY <1>0, <1>7, <2>1, <2>2, <3>1 DEF sendAndForget, Outcomes, Message, TypeOK
  <2>3. CASE queue' = queue /\ answer' = [answer EXCEPT ![m] = "refused"]
    <3>1. \A x : Queued(x)' <=> Queued(x)
      BY <2>3, QueuedUnchanged
    <3> QED
      BY <1>0, <1>7, <2>1, <2>3, <3>1 DEF sendAndForget, Outcomes, Message, TypeOK
  <2> QED
    BY <1>7, <2>2, <2>3 DEF sendAndForget
<1>8. ASSUME NEW m \in Forget, Release(m) PROVE Outcomes'
  <2>1. \A x : Queued(x)' <=> Queued(x)
    BY <1>8, QueuedUnchanged DEF Release
  <2> QED
    BY <1>0, <1>8, <2>1 DEF Release, Outcomes, Message, TypeOK
<1>9. ASSUME fetchMessage PROVE Outcomes'
  <2>1. /\ Head(queue) \in Message /\ Queued(Head(queue))
        /\ \A x : Queued(x)' <=> Queued(x) /\ x # Head(queue)
    BY <1>9, QueuedByFetch DEF fetchMessage, Places
  <2> QED
    BY <1>0, <1>9, <2>1 DEF fetchMessage, Outcomes, Message, TypeOK
<1>10. ASSUME processRequest PROVE Outcomes'
  <2>1. \A x : Queued(x)' <=> Queued(x)
    BY <1>10, QueuedUnchanged DEF processRequest
  <2> QED
    BY <1>0, <1>10, <2>1 DEF processRequest, Outcomes, Message, TypeOK
<1>11. ASSUME Publish PROVE Outcomes'
  <2>1. \A x : Queued(x)' <=> Queued(x)
    BY <1>11, QueuedUnchanged DEF Publish
  <2> QED
    BY <1>0, <1>11, <2>1 DEF Publish, Outcomes, Message, TypeOK
<1>12. ASSUME Notify PROVE Outcomes'
  <2>1. \A x : Queued(x)' <=> Queued(x)
    BY <1>12, QueuedUnchanged DEF Notify
  <2> QED
    BY <1>0, <1>12, <2>1 DEF Notify, Outcomes, Message, TypeOK
<1>13. ASSUME MainUnref PROVE Outcomes'
  <2>1. \A x : Queued(x)' <=> Queued(x)
    BY <1>13, QueuedUnchanged DEF MainUnref
  <2> QED
    BY <1>0, <1>13, <2>1 DEF MainUnref, Outcomes, Message, TypeOK
<1>14. ASSUME UNCHANGED vars PROVE Outcomes'
  <2>1. \A x : Queued(x)' <=> Queued(x)
    BY <1>14, QueuedUnchanged DEF vars
  <2> QED
    BY <1>0, <1>14, <2>1 DEF vars, Outcomes, Message, TypeOK
<1> QED
  BY <1>1, <1>2, <1>3, <1>4, <1>5, <1>6, <1>7, <1>8, <1>9, <1>10, <1>11, <1>12, <1>13, <1>14
     DEF Next, WebTask, MainLoop, Finished

(* No message changes its place in the eyes of the tasks. *)
LEMMA SameService ==
  ASSUME UNCHANGED <<queue, performed>>,
         \/ stage' = stage /\ msg' = msg
         \/ stage # "request" /\ stage' # "request",
         \A m \in Message : /\ (answer[m] = "refused") <=> (answer'[m] = "refused")
                            /\ (task[m] = "new") <=> (task'[m] = "new")
  PROVE  UNCHANGED <<Pending, Status>>
<1>1. \A m \in Message : statusOf(m)' = statusOf(m)
  BY SameStatus
<1> QED
  BY <1>1, SamePending DEF Status

(* Every step is one of the service, or none. *)
LEMMA StepServes ==
  ASSUME TypeOK, Places, Progress, Outcomes, [Next]_vars
  PROVE  Service!Next \/ UNCHANGED Service!vars
<1> USE DEF mainVars, resultVars, Goto, Reply, unref
<1>0. /\ NoMessage \notin Message /\ QueueLen \in Nat
      /\ \A m \in Web : m \in Message
      /\ \A m \in Forget : m \in Message
  BY QueueAssumption DEF Message
<1>1. ASSUME NEW m \in Message, task[m] = "new", statusOf(m) = "new",
             UNCHANGED <<mainVars, performed>>,
             \E where \in {"waiting", "done", "sent"} : task' = [task EXCEPT ![m] = where],
             \/ queue' = Append(queue, m) /\ UNCHANGED answer
             \/ Len(queue) >= QueueLen /\ UNCHANGED queue /\ answer' = [answer EXCEPT ![m] = "refused"]
      PROVE  Service!Next
  <2>1. m \notin performed /\ answer[m] = "none" /\ UNCHANGED <<stage, msg>>
    BY <1>1 DEF Outcomes
  <2>2. \A x \in Message \ {m} : statusOf(x)' = statusOf(x)
    BY <1>1, SameStatus DEF TypeOK
  <2>3. CASE queue' = Append(queue, m) /\ UNCHANGED answer
    <3>1. statusOf(m)' = "pending"
      BY <1>1, <2>1, <2>3 DEF statusOf, TypeOK
    <3> QED
      BY <1>1, <2>1, <2>2, <2>3, <3>1, OneStatus, PendingAppend, Accepts
  <2>4. CASE Len(queue) >= QueueLen /\ UNCHANGED queue /\ answer' = [answer EXCEPT ![m] = "refused"]
    <3>1. statusOf(m)' = "refused"
      BY <2>4 DEF statusOf, TypeOK
    <3>2. Pending' = Pending
      BY <2>1, <2>4, SamePending
    <3>3. Len(Pending) >= QueueLen
      <4>1. CASE stage # "request"
        BY <2>4, <4>1, PendingTyped
      <4>2. CASE stage = "request"
        <5>1. Pending = <<msg>> \o queue /\ queue \in Seq(Message)
          BY <4>2 DEF Pending, TypeOK
        <5>2. Len(<<msg>> \o queue) = 1 + Len(queue) /\ Len(queue) \in Nat
          BY <5>1
        <5> QED
          BY <1>0, <2>4, <5>1, <5>2
      <4> QED
        BY <4>1, <4>2
    <3> QED
      BY <1>1, <2>2, <2>4, <3>1, <3>2, <3>3, OneStatus, Refuses
  <2> QED
    BY <1>1, <2>3, <2>4
<1>3. ASSUME NEW m \in Web, sendAndWait(m) PROVE Service!Next
  <2>1. m \in Message /\ task[m] = "new" /\ statusOf(m) = "new"
    BY <1>0, <1>3 DEF sendAndWait, statusOf, Outcomes
  <2> QED
    BY <1>3, <1>1, <2>1 DEF sendAndWait
<1>4. ASSUME NEW m \in Web, WaitOk(m) PROVE UNCHANGED Service!vars
  <2>1. UNCHANGED <<Pending, Status>> /\ UNCHANGED answer
    BY <1>0, SameService, <1>4 DEF WaitOk, TypeOK
  <2> QED
    BY <2>1, Nothing
<1>5. ASSUME NEW m \in Web, SendResult(m) PROVE Service!Next
  <2>1. m \in Message /\ task[m] = "answering" /\ answer[m] = "none" /\ m \in performed
    BY <1>0, <1>5 DEF SendResult, Progress, Outcomes
  <2>2. statusOf(m) = "performed" /\ answer' = [answer EXCEPT ![m] = "ok"]
    BY <1>5, <2>1 DEF SendResult, statusOf
  <2>3. UNCHANGED <<Pending, Status>>
    BY SameService, <1>5, <2>1, <2>2 DEF SendResult, TypeOK
  <2> QED
    BY <2>1, <2>2, <2>3, Answers
<1>6. ASSUME NEW m \in Web, WaitTimeout(m) PROVE UNCHANGED Service!vars
  <2>1. UNCHANGED <<Pending, Status>> /\ UNCHANGED answer
    BY <1>0, SameService, <1>6 DEF WaitTimeout, TypeOK
  <2> QED
    BY <2>1, Nothing
<1>7. ASSUME NEW m \in Web, NEW maxLen \in 1 .. 2, Fill(m, maxLen)
      PROVE  Service!Next \/ UNCHANGED Service!vars
  <2>1. m \in Message /\ answer[m] = "none" /\ UNCHANGED <<queue, performed, stage, msg, task>>
    BY <1>0, <1>7 DEF Fill
  <2>2. CASE UNCHANGED answer
    <3>1. UNCHANGED <<Pending, Status>>
      BY SameService, <2>1, <2>2
    <3> QED
      BY <2>2, <3>1, Nothing
  <2>3. CASE handled[m] /\ answer' = [answer EXCEPT ![m] = "ok"]
    <3>1. m \in performed /\ statusOf(m) = "performed"
      BY <2>1, <2>3 DEF Outcomes, statusOf
    <3>2. UNCHANGED <<Pending, Status>>
      BY SameService, <2>1, <2>3 DEF TypeOK
    <3> QED
      BY <2>1, <2>3, <3>1, <3>2, Answers
  <2> QED
    BY <1>7, <2>2, <2>3 DEF Fill, consume
<1>8. ASSUME NEW m \in Web, onDisconnect(m) PROVE Service!Next \/ UNCHANGED Service!vars
  <2>1. /\ m \in Message /\ task[m] = "chunked" /\ UNCHANGED <<queue, performed, stage, msg>>
        /\ task' = [task EXCEPT ![m] = "done"]
    BY <1>0, <1>8 DEF onDisconnect
  <2>2. CASE answer[m] = "none" /\ answer' = [answer EXCEPT ![m] = "gone"]
    <3>1. statusOf(m) \in {"pending", "performed"}
      BY <2>1, <2>2 DEF statusOf
    <3>2. UNCHANGED <<Pending, Status>>
      BY SameService, <2>1, <2>2 DEF TypeOK
    <3> QED
      BY <2>1, <2>2, <3>1, <3>2, Abandons
  <2>3. CASE UNCHANGED answer
    <3>1. UNCHANGED <<Pending, Status>>
      BY SameService, <2>1, <2>3 DEF TypeOK
    <3> QED
      BY <2>3, <3>1, Nothing
  <2> QED
    BY <1>8, <2>2, <2>3 DEF onDisconnect
<1>9. ASSUME NEW m \in Forget, sendAndForget(m) PROVE Service!Next
  <2>1. m \in Message /\ task[m] = "new" /\ statusOf(m) = "new"
    BY <1>0, <1>9 DEF sendAndForget, statusOf, Outcomes
  <2> QED
    BY <1>9, <1>1, <2>1 DEF sendAndForget
<1>10. ASSUME NEW m \in Forget, Release(m) PROVE UNCHANGED Service!vars
  <2>1. UNCHANGED <<Pending, Status>> /\ UNCHANGED answer
    BY <1>0, SameService, <1>10 DEF Release, TypeOK
  <2> QED
    BY <2>1, Nothing
<1>11. ASSUME fetchMessage PROVE UNCHANGED Service!vars
  <2>1. Head(queue) \in Message /\ queue # << >> /\ queue \in Seq(Message)
    BY <1>11, QueuedByFetch DEF fetchMessage, Places, TypeOK
  <2>2. <<Head(queue)>> \o Tail(queue) = queue
    BY <2>1
  <2>3. Pending = queue
    BY <1>11, PendingTyped DEF fetchMessage
  <2>4. Pending' = <<Head(queue)>> \o Tail(queue)
    BY <1>11 DEF fetchMessage, Pending
  <2>5. Status' = Status /\ UNCHANGED answer
    BY <1>11, SameStatus DEF fetchMessage, Status
  <2> QED
    BY <2>2, <2>3, <2>4, <2>5, Nothing
<1>12. ASSUME processRequest PROVE Service!Next
  <2>1. /\ stage = "request" /\ msg \in Message /\ performed' = performed \cup {msg}
        /\ UNCHANGED <<task, queue, answer>> /\ stage' # "request"
    BY <1>12 DEF processRequest, TypeOK, Places
  <2>2. Pending # << >> /\ Head(Pending) = msg /\ Tail(Pending) = queue
    BY <2>1, PendingTyped
  <2>3. Pending' = queue
    <3>1. queue \in Seq(Message)
      BY DEF TypeOK
    <3> QED
      BY <2>1, <3>1, ConcatSimplifications DEF Pending
  <2>4. statusOf(msg)' = "performed" /\ \A x \in Message \ {msg} : statusOf(x)' = statusOf(x)
    <3>1. answer[msg] # "refused"
      BY <2>1 DEF Outcomes
    <3>2. \A x \in Message \ {msg} : statusOf(x)' = statusOf(x)
      BY <2>1, SameStatus
    <3>3. msg' = msg
      BY <1>12 DEF processRequest
    <3> QED
      BY <2>1, <3>1, <3>2, <3>3 DEF statusOf
  <2> QED
    BY <1>12, <2>1, <2>2, <2>3, <2>4, OneStatus, Performs DEF processRequest
<1>13. ASSUME Publish PROVE UNCHANGED Service!vars
  <2>1. UNCHANGED <<Pending, Status>> /\ UNCHANGED answer
    BY <1>0, SameService, <1>13 DEF Publish, TypeOK
  <2> QED
    BY <2>1, Nothing
<1>14. ASSUME Notify PROVE UNCHANGED Service!vars
  <2>1. UNCHANGED <<Pending, Status>> /\ UNCHANGED answer
    BY <1>0, SameService, <1>14 DEF Notify, TypeOK
  <2> QED
    BY <2>1, Nothing
<1>15. ASSUME MainUnref PROVE UNCHANGED Service!vars
  <2>1. UNCHANGED <<Pending, Status>> /\ UNCHANGED answer
    BY <1>0, SameService, <1>15 DEF MainUnref, TypeOK
  <2> QED
    BY <2>1, Nothing
<1>16. ASSUME UNCHANGED vars PROVE UNCHANGED Service!vars
  <2>1. UNCHANGED <<Pending, Status>> /\ UNCHANGED answer
    BY <1>0, SameService, <1>16 DEF vars, TypeOK
  <2> QED
    BY <2>1, Nothing
<1> QED
  BY <1>3, <1>4, <1>5, <1>6, <1>7, <1>8, <1>9, <1>10, <1>11, <1>12, <1>13, <1>14, <1>15, <1>16
     DEF Next, WebTask, MainLoop, Finished

(* Whatever the tasks and the main loop do, the queue is a service that    *)
(* performs what it accepted once and in order, and answers at most once   *)
(* and only what it has performed or refused.                              *)
THEOREM ServiceCorrect == Spec => IsRequestService
<1>1. Init => Service!Init /\ Outcomes
  <2> SUFFICES ASSUME Init PROVE Service!Init /\ Outcomes
    OBVIOUS
  <2>1. Pending = << >>
    BY ConcatSimplifications, EmptySeq DEF Init, Pending
  <2>2. Status = [m \in Message |-> "new"]
    BY DEF Init, Status, statusOf
  <2>3. \A m : ~Queued(m)
    BY EmptySeq DEF Init, Queued
  <2>4. Outcomes
    BY <2>3, QueueAssumption DEF Init, Outcomes, Message
  <2> QED
    BY <2>1, <2>2, <2>4 DEF Init, Service!Init, Pending, Status
<1>2. IInv /\ Outcomes /\ [Next]_vars => Outcomes'
  BY StepOutcomes DEF IInv
<1>3. IInv /\ Outcomes /\ [Next]_vars => [Service!Next]_(Service!vars)
  BY StepServes DEF IInv
<1> QED
  BY <1>1, <1>2, <1>3, Inductive, PTL DEF Spec, IsRequestService, Service!Spec
=============================================================================
