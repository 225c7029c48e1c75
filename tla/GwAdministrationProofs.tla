---------------------- MODULE GwAdministrationProofs ----------------------
(***************************************************************************)
(* Proofs about GwAdministration: only a request with a valid hash changes *)
(* what the next start uses, uploads that were alone when they began are   *)
(* not disturbed while updateRunning holds, the state keeps its types      *)
(* (the parser is at one symbol of one parameter of its request), and what *)
(* a request stores is a whole value of the request.                       *)
(***************************************************************************)
EXTENDS GwAdministration, NaturalsInduction, WellFoundedInduction, SequenceTheorems, TLAPS

(* The form of a request in progress, as far as the proofs need it. *)
IsNv(nv) ==
  /\ {"notFirst", "hashChecked", "parsingValue", "name", "value"} \subseteq DOMAIN nv
  /\ nv.hashChecked => nv.notFirst
IsConfig(r) ==
  /\ {"kind", "hash", "pos", "nv"} \subseteq DOMAIN r
  /\ r.kind = "config" /\ IsNv(r.nv)
HasUploadFields(r) ==
  /\ {"kind", "hash", "pos", "error", "alone", "since"} \subseteq DOMAIN r
  /\ r.kind = "upload" /\ r.pos \in Nat /\ r.since \in Nat
IsUpload(r) ==
  HasUploadFields(r) /\ (r.pos = 0 => r.since = 0 /\ r.alone = FALSE)
IsRequest(r) == r = Idle \/ IsConfig(r) \/ IsUpload(r)
ConnForm == DOMAIN conn = Conns /\ \A c \in Conns : IsRequest(conn[c])

(* A request that has passed the check is trusted from then on. *)
HasPassed(r) ==
  \/ r.kind = "config" /\ r.nv.hashChecked
  \/ r.kind = "upload" /\ r.pos > 0 /\ r.error = ""
PassedAreTrusted == \A c \in Conns : HasPassed(conn[c]) => Trusted(c)

(* While an upload is protected, updateRunning is that of its start, and   *)
(* no other has got further than to be refused.                            *)
ProtectedHoldLock ==
  \A c \in Conns : Protected(c) => /\ updateRunning = conn[c].since
                                   /\ \A d \in Conns \ {c} : ~InUpload(d)

AdminInv == ConnForm /\ PassedAreTrusted /\ ProtectedHoldLock /\ updateRunning \in Nat

-----------------------------------------------------------------------------
(* parsed changes neither notFirst nor hashChecked. *)
LEMMA ParsedForm ==
  ASSUME NEW nv, NEW s, IsNv(nv)
  PROVE  /\ IsNv(parsed(nv, s)) /\ parsed(nv, s).notFirst = nv.notFirst
         /\ parsed(nv, s).hashChecked = nv.hashChecked
BY DEF IsNv, parsed

LEMMA NextPairForm ==
  ASSUME NEW ok \in BOOLEAN
  PROVE  IsNv(nextPair(ok)) /\ nextPair(ok).hashChecked = ok
BY DEF IsNv, nextPair, NvInit

(* A step changes one request. *)
LEMMA OneRequest ==
  ASSUME ConnForm, NEW c \in Conns, NEW r, IsRequest(r), conn' = [conn EXCEPT ![c] = r]
  PROVE  ConnForm' /\ conn'[c] = r /\ \A d \in Conns \ {c} : conn'[d] = conn[d]
BY DEF ConnForm, IsRequest, IsConfig, IsUpload, HasUploadFields, IsNv, Idle

(* advance ends the request, or goes on with the parser at its next place. *)
LEMMA AdvanceForm ==
  ASSUME NEW c \in Conns, IsConfig(conn[c]), NEW nv, IsNv(nv), advance(c, nv)
  PROVE  \E r : /\ conn' = [conn EXCEPT ![c] = r]
                /\ r = Idle \/ (IsConfig(r) /\ r.hash = conn[c].hash /\ r.nv = nv)
<1> DEFINE r0 == IF isLast(conn[c]) THEN Idle ELSE [conn[c] EXCEPT !.pos = @ + 1, !.nv = nv]
<1>1. conn' = [conn EXCEPT ![c] = r0]
  BY DEF advance
<1>2. r0 = Idle \/ (IsConfig(r0) /\ r0.hash = conn[c].hash /\ r0.nv = nv)
  BY DEF IsConfig
<1> HIDE DEF r0
<1> QED
  BY <1>1, <1>2

LEMMA ConfigRequest ==
  ASSUME ConnForm, NEW c \in Conns, Receiving(c)
  PROVE  IsConfig(conn[c])
BY DEF ConnForm, IsRequest, IsUpload, HasUploadFields, Receiving, Idle

LEMMA UploadRequest ==
  ASSUME ConnForm, NEW c \in Conns, Sending(c)
  PROVE  IsUpload(conn[c])
BY DEF ConnForm, IsRequest, IsConfig, Sending, Idle

-----------------------------------------------------------------------------
(* A step of setConfig: the request goes on only as a trusted one, or as   *)
(* one whose hash has not been accepted; only a trusted one has an effect. *)
ConfigGoesOn(c, r) ==
  r = Idle \/ (IsConfig(r) /\ r.hash = conn[c].hash /\ (r.nv.hashChecked => Trusted(c)))

LEMMA ConfigStep ==
  ASSUME AdminInv, NEW c \in Conns, handleConfigRequestData(c)
  PROVE  /\ \E r : conn' = [conn EXCEPT ![c] = r] /\ ConfigGoesOn(c, r)
         /\ UNCHANGED <<memory, update>>
         /\ prefs' # prefs \/ (restart' /\ ~restart) => Trusted(c)
<1> DEFINE nv == parsed(conn[c].nv, symbol(conn[c]))
<1>1. ConnForm /\ Receiving(c)
  BY DEF AdminInv, handleConfigRequestData, IgnoreData, ParseSymbol, CheckHash, StoreValue
<1>2. IsConfig(conn[c]) /\ IsNv(conn[c].nv) /\ conn[c].kind = "config"
  BY <1>1, ConfigRequest DEF IsConfig, Receiving
<1>3. /\ IsNv(nv) /\ nv.notFirst = conn[c].nv.notFirst
      /\ nv.hashChecked = conn[c].nv.hashChecked
  BY <1>2, ParsedForm
<1>4. conn[c].nv.hashChecked => Trusted(c)
  BY <1>2 DEF AdminInv, PassedAreTrusted, HasPassed
<1> HIDE DEF nv
<1>5. CASE IgnoreData(c)
  <2>1. advance(c, conn[c].nv) /\ UNCHANGED <<memory, prefs, restart, update>>
    BY <1>5 DEF IgnoreData, flash
  <2>2. \E r : conn' = [conn EXCEPT ![c] = r] /\ ConfigGoesOn(c, r)
    BY <2>1, <1>2, <1>4, AdvanceForm DEF ConfigGoesOn
  <2> QED BY <2>1, <2>2
<1>6. CASE ParseSymbol(c)
  <2>1. /\ advance(c, nv) /\ restart' = (restart \/ (isLast(conn[c]) /\ nv.hashChecked))
        /\ UNCHANGED <<memory, prefs, update>>
    BY <1>6 DEF ParseSymbol, flash, nv
  <2>2. \E r : conn' = [conn EXCEPT ![c] = r] /\ ConfigGoesOn(c, r)
    BY <2>1, <1>2, <1>3, <1>4, AdvanceForm DEF ConfigGoesOn
  <2> QED BY <2>1, <2>2, <1>3, <1>4
<1>7. CASE CheckHash(c)
  <2> DEFINE ok == nv.name = HashName /\ hashOk(conn[c], nv)
  <2>1. /\ advance(c, nextPair(ok)) /\ restart' = (restart \/ (isLast(conn[c]) /\ ok))
        /\ UNCHANGED <<memory, prefs, update>>
    BY <1>7 DEF CheckHash, flash, nv
  <2>2. ok \in BOOLEAN /\ (ok => Trusted(c))
    BY DEF hashOk, Trusted
  <2> HIDE DEF ok
  <2>3. IsNv(nextPair(ok)) /\ nextPair(ok).hashChecked = ok
    BY <2>2, NextPairForm
  <2>4. \E r : conn' = [conn EXCEPT ![c] = r] /\ ConfigGoesOn(c, r)
    BY <2>1, <2>2, <2>3, <1>2, AdvanceForm DEF ConfigGoesOn
  <2> QED BY <2>1, <2>2, <2>4
<1>8. CASE StoreValue(c)
  <2>1. advance(c, nextPair(TRUE)) /\ UNCHANGED <<memory, update>> /\ conn[c].nv.hashChecked
    BY <1>8 DEF StoreValue, ignored, nv
  <2>2. IsNv(nextPair(TRUE)) /\ nextPair(TRUE).hashChecked
    BY NextPairForm
  <2>3. \E r : conn' = [conn EXCEPT ![c] = r] /\ ConfigGoesOn(c, r)
    BY <2>1, <2>2, <1>2, <1>3, <1>4, AdvanceForm DEF ConfigGoesOn
  <2> QED BY <2>1, <2>3, <1>4
<1> QED
  BY <1>5, <1>6, <1>7, <1>8 DEF handleConfigRequestData

LEMMA IdleFacts == Idle.kind = "idle" /\ ~HasPassed(Idle)
BY DEF Idle, HasPassed

(* A protected upload stays so when another request is not an upload that  *)
(* has begun.                                                              *)
LEMMA OthersKeepLock ==
  ASSUME AdminInv, ConnForm', NEW c \in Conns, UNCHANGED updateRunning,
         \A d \in Conns \ {c} : conn'[d] = conn[d],
         conn'[c].kind = "upload" => conn'[c].pos = 0 \/ conn'[c].error = "other"
  PROVE  ProtectedHoldLock'
<1> SUFFICES ASSUME NEW e \in Conns, Protected(e)'
             PROVE  updateRunning = conn'[e].since /\ \A d \in Conns \ {e} : ~InUpload(d)'
  BY DEF ProtectedHoldLock
<1>1. e # c
  <2>1. conn'[e].kind = "upload" /\ conn'[e].pos > 0 /\ conn'[e].error = ""
    BY DEF Protected, Sending
  <2>2. conn'[e].pos \in Nat
    BY <2>1, IdleFacts DEF ConnForm, IsRequest, IsConfig, IsUpload, HasUploadFields
  <2>3. conn'[e].pos # 0
    <3> DEFINE n == conn'[e].pos
    <3>1. n \in Nat /\ n > 0
      BY <2>1, <2>2
    <3> HIDE DEF n
    <3>2. n # 0
      BY <3>1
    <3> QED BY <3>2 DEF n
  <2>4. conn'[e].error # "other"
    BY <2>1
  <2> QED
    BY <2>1, <2>3, <2>4
<1>2. conn'[e] = conn[e] /\ Protected(e)
  BY <1>1 DEF Protected, Sending
<1>3. updateRunning = conn'[e].since /\ \A d \in Conns \ {e} : ~InUpload(d)
  BY <1>2 DEF AdminInv, ProtectedHoldLock
<1>4. ~InUpload(c)'
  BY DEF InUpload, Sending
<1>5. \A d \in Conns \ {c} : InUpload(d)' = InUpload(d)
  BY DEF InUpload, Sending
<1> QED
  BY <1>3, <1>4, <1>5

LEMMA ConfigKeepsInv ==
  ASSUME AdminInv, NEW c \in Conns, NEW r, conn' = [conn EXCEPT ![c] = r],
         ConfigGoesOn(c, r), UNCHANGED <<memory, update>>
  PROVE  AdminInv'
<1>1. r = Idle \/ IsConfig(r)
  BY DEF ConfigGoesOn
<1>2. ConnForm' /\ conn'[c] = r /\ \A d \in Conns \ {c} : conn'[d] = conn[d]
  BY <1>1, OneRequest DEF AdminInv, IsRequest
<1>3. updateRunning' = updateRunning
  BY DEF update
<1>4. r.kind # "upload"
  BY <1>1, IdleFacts DEF IsConfig
<1>5. PassedAreTrusted'
  <2> SUFFICES ASSUME NEW d \in Conns, HasPassed(conn'[d])
               PROVE  checkPass(memory, conn'[d].hash)
    BY DEF PassedAreTrusted, Trusted
  <2>1. CASE d = c
    <3>1. r # Idle
      BY <2>1, <1>2, IdleFacts
    <3>2. r.nv.hashChecked
      BY <2>1, <1>2, <1>4 DEF HasPassed
    <3> QED
      BY <3>1, <3>2, <2>1, <1>2 DEF ConfigGoesOn, Trusted
  <2>2. CASE d # c
    BY <2>2, <1>2 DEF AdminInv, PassedAreTrusted, Trusted
  <2> QED
    BY <2>1, <2>2
<1>6. ProtectedHoldLock'
  BY <1>2, <1>3, <1>4, OthersKeepLock
<1> QED
  BY <1>2, <1>3, <1>5, <1>6 DEF AdminInv

(* A request begins, or ends, without any effect. *)
LEMMA PostKeepsInv ==
  ASSUME AdminInv, NEW c \in Conns, PostConfig(c) \/ PostUpdate(c) \/ Disconnect(c)
  PROVE  AdminInv'
<1>1. /\ UNCHANGED <<memory, update>>
      /\ \E r : /\ conn' = [conn EXCEPT ![c] = r] /\ IsRequest(r) /\ ~HasPassed(r)
                /\ r.kind = "upload" => r.pos = 0
  <2>1. CASE PostConfig(c)
    <3>1. PICK q \in Requests, h \in Hashes :
            conn' = [conn EXCEPT ![c] = [kind |-> "config", hash |-> h, pairs |-> q, pos |-> 0, nv |-> NvInit]]
      BY <2>1 DEF PostConfig
    <3> DEFINE r == [kind |-> "config", hash |-> h, pairs |-> q, pos |-> 0, nv |-> NvInit]
    <3>2. IsNv(NvInit) /\ ~NvInit.hashChecked
      BY DEF IsNv, NvInit
    <3>3. IsConfig(r) /\ ~HasPassed(r) /\ r.kind # "upload"
      BY <3>2 DEF IsConfig, HasPassed
    <3>4. conn' = [conn EXCEPT ![c] = r] /\ UNCHANGED <<memory, update>>
      BY <2>1, <3>1 DEF PostConfig
    <3> HIDE DEF r
    <3> QED
      BY <3>3, <3>4 DEF IsRequest
  <2>2. CASE PostUpdate(c)
    <3>1. PICK i \in Images, h \in Hashes :
            conn' = [conn EXCEPT ![c] = [kind |-> "upload", hash |-> h, image |-> i, pos |-> 0, error |-> "",
                                         alone |-> FALSE, since |-> 0]]
      BY <2>2 DEF PostUpdate
    <3> DEFINE r == [kind |-> "upload", hash |-> h, image |-> i, pos |-> 0, error |-> "",
                     alone |-> FALSE, since |-> 0]
    <3>2. IsUpload(r) /\ ~HasPassed(r) /\ r.pos = 0
      BY DEF IsUpload, HasUploadFields, HasPassed
    <3>3. conn' = [conn EXCEPT ![c] = r] /\ UNCHANGED <<memory, update>>
      BY <2>2, <3>1 DEF PostUpdate
    <3> HIDE DEF r
    <3> QED
      BY <3>2, <3>3 DEF IsRequest
  <2>3. CASE Disconnect(c)
    <3>1. conn' = [conn EXCEPT ![c] = Idle] /\ UNCHANGED <<memory, update>>
      BY <2>3 DEF Disconnect
    <3> QED
      BY <3>1, IdleFacts DEF IsRequest
  <2> QED
    BY <2>1, <2>2, <2>3
<1>2. PICK r : /\ conn' = [conn EXCEPT ![c] = r] /\ IsRequest(r) /\ ~HasPassed(r)
               /\ r.kind = "upload" => r.pos = 0
  BY <1>1
<1>3. ConnForm' /\ conn'[c] = r /\ \A d \in Conns \ {c} : conn'[d] = conn[d]
  BY <1>2, OneRequest DEF AdminInv
<1>4. PassedAreTrusted'
  BY <1>1, <1>2, <1>3 DEF AdminInv, PassedAreTrusted, Trusted
<1>5. updateRunning' = updateRunning
  BY <1>1 DEF update
<1>6. ProtectedHoldLock'
  BY <1>2, <1>3, <1>5, OthersKeepLock
<1> QED
  BY <1>3, <1>4, <1>5, <1>6 DEF AdminInv

-----------------------------------------------------------------------------
(* What a chunk makes of the request r of an upload: one more chunk, and   *)
(* perhaps a failure.                                                      *)
OneChunk(c, r, s) ==
  /\ conn' = [conn EXCEPT ![c] = s] /\ IsUpload(s)
  /\ s.pos = r.pos + 1 /\ s.pos > 0 /\ s.hash = r.hash
  /\ s.since = r.since /\ s.alone = r.alone
  /\ s.error \in {r.error, "failed"}

LEMMA WriteForm ==
  ASSUME NEW c \in Conns, NEW r, HasUploadFields(r), NEW chunks, fail(c, r) \/ write(c, r, chunks)
  PROVE  \E s : OneChunk(c, r, s)
<1>1. r.pos \in Nat /\ r.pos + 1 \in Nat /\ r.pos + 1 > 0 /\ r.pos + 1 # 0
  BY DEF IsUpload, HasUploadFields
<1>2. CASE fail(c, r)
  <2> DEFINE s0 == [r EXCEPT !.pos = @ + 1, !.error = "failed"]
  <2>1. conn' = [conn EXCEPT ![c] = s0]
    BY <1>2 DEF fail
  <2>2. s0.pos = r.pos + 1 /\ s0.hash = r.hash /\ s0.since = r.since /\ s0.alone = r.alone /\ s0.error = "failed"
    BY DEF IsUpload, HasUploadFields
  <2>3. IsUpload(s0)
    BY <1>1 DEF IsUpload, HasUploadFields
  <2> HIDE DEF s0
  <2> QED BY <1>1, <2>1, <2>2, <2>3 DEF OneChunk
<1>3. CASE conn' = [conn EXCEPT ![c] = [r EXCEPT !.pos = @ + 1]]
  <2> DEFINE s0 == [r EXCEPT !.pos = @ + 1]
  <2>1. conn' = [conn EXCEPT ![c] = s0]
    BY <1>3
  <2>2. s0.pos = r.pos + 1 /\ s0.hash = r.hash /\ s0.since = r.since /\ s0.alone = r.alone /\ s0.error = r.error
    BY DEF IsUpload, HasUploadFields
  <2>3. IsUpload(s0)
    BY <1>1 DEF IsUpload, HasUploadFields
  <2> HIDE DEF s0
  <2> QED BY <1>1, <2>1, <2>2, <2>3 DEF OneChunk
<1> QED
  BY <1>2, <1>3 DEF write

LEMMA SkipForm ==
  ASSUME NEW c \in Conns, NEW r, HasUploadFields(r), skip(c, r)
  PROVE  \E s : OneChunk(c, r, s) /\ s.error = r.error
<1>1. r.pos \in Nat /\ r.pos + 1 \in Nat /\ r.pos + 1 > 0 /\ r.pos + 1 # 0
  BY DEF IsUpload, HasUploadFields
<1> DEFINE s0 == [r EXCEPT !.pos = @ + 1]
<1>2. conn' = [conn EXCEPT ![c] = s0]
  BY DEF skip
<1>3. s0.pos = r.pos + 1 /\ s0.hash = r.hash /\ s0.since = r.since /\ s0.alone = r.alone /\ s0.error = r.error
  BY DEF IsUpload, HasUploadFields
<1>4. IsUpload(s0)
  BY <1>1 DEF IsUpload, HasUploadFields
<1> HIDE DEF s0
<1> QED BY <1>1, <1>2, <1>3, <1>4 DEF OneChunk

(* An upload that goes on is trusted if it was. *)
LEMMA UploadKeepsTrust ==
  ASSUME AdminInv, NEW c \in Conns, UNCHANGED memory,
         \A d \in Conns \ {c} : conn'[d] = conn[d],
         HasPassed(conn'[c]) => checkPass(memory, conn'[c].hash)
  PROVE  PassedAreTrusted'
BY DEF AdminInv, PassedAreTrusted, Trusted

(* No other upload is protected while this one is in progress. *)
LEMMA NoOtherProtected ==
  ASSUME AdminInv, NEW c \in Conns, InUpload(c)
  PROVE  \A e \in Conns \ {c} : ~Protected(e)
BY DEF AdminInv, ProtectedHoldLock

(* When the lock is free no upload is protected. *)
LEMMA FreeLock ==
  ASSUME AdminInv, FALSE \in otherUpdate
  PROVE  \A e \in Conns : ~Protected(e)
<1>1. updateRunning \in Nat /\ ~(updateRunning < LockMin)
  <2>1. updateRunning \in Nat
    BY DEF AdminInv
  <2>2. ~(updateRunning < LockMin) \/ ~(updateRunning <= LockMax)
    BY Zenon DEF otherUpdate
  <2> QED
    BY <2>1, <2>2, AdministrationAssumption
<1> QED
  BY <1>1 DEF AdminInv, ProtectedHoldLock, Protected

(* The chunks of an upload, and its end: what they promise. *)
UploadPromise(c) ==
  /\ AdminInv' /\ UNCHANGED prefs
  /\ \A d \in Conns \ {c} : conn'[d] = conn[d]
  /\ image' # image \/ (restart' /\ ~restart) => Trusted(c)
  /\ session' # session => conn'[c] # conn[c] /\ \A e \in Conns \ {c} : ~Protected(e)

(* From its first chunk on, an upload holds the lock, or was refused. *)
LEMMA StartStep ==
  ASSUME AdminInv, NEW c \in Conns, UploadStart(c)
  PROVE  UploadPromise(c)
<1> DEFINE errorOf(other) ==
      IF other THEN "other" ELSE IF checkPass(memory, conn[c].hash) THEN "" ELSE "failed"
    begun(error) == [conn[c] EXCEPT !.error = error, !.alone = error = "" /\ Alone(c)]
<1>1. ConnForm /\ Sending(c) /\ conn[c].pos = 0 /\ UNCHANGED <<memory, prefs, restart>>
  BY DEF AdminInv, UploadStart, flash
<1>2. IsUpload(conn[c]) /\ conn[c].since = 0
  BY <1>1, UploadRequest DEF IsUpload, HasUploadFields
<1>3. PICK other \in otherUpdate :
        /\ updateRunning' = lockTime(other)
        /\ IF errorOf(other) = ""
           THEN fail(c, begun(errorOf(other))) \/ write(c, begun(errorOf(other)), Empty)
           ELSE skip(c, begun(errorOf(other)))
  BY DEF UploadStart
<1> DEFINE error == errorOf(other)
           r == begun(error)
<1>4. r.hash = conn[c].hash /\ r.pos = 0 /\ r.since = 0 /\ r.error = error
  BY <1>1, <1>2 DEF IsUpload, HasUploadFields
<1>5. r.alone => error = "" /\ Alone(c)
  BY <1>2 DEF IsUpload, HasUploadFields
<1>6. HasUploadFields(r)
  BY <1>2 DEF IsUpload, HasUploadFields
<1>7. other \in BOOLEAN
  <2>1. (updateRunning < LockMin) \in BOOLEAN /\ (updateRunning <= LockMax) \in BOOLEAN
    BY SMT
  <2> QED
    BY <2>1, Zenon DEF otherUpdate
<1>8. /\ other => error = "other"
      /\ error = "" => ~other /\ Trusted(c)
      /\ ~other => error \in {"", "failed"}
  BY DEF Trusted
<1> HIDE DEF error
<1> HIDE DEF r
<1>9. CASE other
  <2>1. error = "other" /\ skip(c, r) /\ updateRunning' = updateRunning
    BY <1>3, <1>8, <1>9 DEF lockTime, r, error
  <2>2. PICK s : OneChunk(c, r, s) /\ s.error = "other"
    BY <2>1, <1>4, <1>6, SkipForm
  <2>3. ConnForm' /\ conn'[c] = s /\ \A d \in Conns \ {c} : conn'[d] = conn[d]
    BY <2>2, <1>1, OneRequest DEF OneChunk, IsRequest
  <2>4. s.kind = "upload" /\ s.error = "other" /\ UNCHANGED <<image, session>>
    BY <2>1, <2>2 DEF OneChunk, IsUpload, HasUploadFields, skip
  <2>5. PassedAreTrusted'
    BY <2>3, <2>4, <1>1, UploadKeepsTrust DEF HasPassed
  <2>6. ProtectedHoldLock'
    BY <2>1, <2>3, <2>4, OthersKeepLock
  <2>7. AdminInv'
    BY <2>1, <2>3, <2>5, <2>6 DEF AdminInv
  <2> QED
    BY <2>3, <2>4, <2>7, <1>1 DEF UploadPromise
<1>10. CASE ~other
  <2>1. updateRunning' = 0 /\ \A e \in Conns : ~Protected(e)
    BY <1>3, <1>7, <1>10, FreeLock DEF lockTime
  <2>2. PICK s : OneChunk(c, r, s) /\ (error # "" => s.error = error)
    <3>1. CASE error = ""
      <4>1. fail(c, r) \/ write(c, r, Empty)
        BY <3>1, <1>3 DEF r, error
      <4> QED
        BY <4>1, <3>1, <1>6, WriteForm
    <3>2. CASE error # ""
      <4>1. skip(c, r)
        BY <3>2, <1>3 DEF r, error
      <4> QED
        BY <4>1, <1>4, <1>6, SkipForm
    <3> QED BY <3>1, <3>2
  <2>3. ConnForm' /\ conn'[c] = s /\ \A d \in Conns \ {c} : conn'[d] = conn[d]
    BY <2>2, <1>1, OneRequest DEF OneChunk, IsRequest
  <2>4. /\ s.kind = "upload" /\ s.hash = conn[c].hash /\ s.pos = 1 /\ s.since = 0
        /\ s.alone = r.alone /\ s.error \in {error, "failed"}
    <3>1. s.kind = "upload"
      BY <2>2 DEF OneChunk, IsUpload, HasUploadFields
    <3>2. /\ s.hash = r.hash /\ s.pos = r.pos + 1 /\ s.since = r.since /\ s.alone = r.alone
          /\ s.error \in {r.error, "failed"}
      BY <2>2 DEF OneChunk
    <3> QED
      BY <3>1, <3>2, <1>4
  <2>5. s.error = "" => error = ""
    BY <2>4
  <2>6. PassedAreTrusted'
    <3>1. HasPassed(s) => checkPass(memory, s.hash)
      BY <2>4, <2>5, <1>8 DEF HasPassed, Trusted
    <3> QED
      BY <3>1, <2>3, <1>1, UploadKeepsTrust
  <2>7. ProtectedHoldLock'
    <3> SUFFICES ASSUME NEW e \in Conns, Protected(e)'
                 PROVE  updateRunning' = conn'[e].since /\ \A d \in Conns \ {e} : ~InUpload(d)'
      BY DEF ProtectedHoldLock
    <3>1. e = c
      <4> SUFFICES ASSUME e # c PROVE FALSE
        OBVIOUS
      <4>1. Protected(e)
        BY <2>3 DEF Protected, Sending
      <4> QED BY <4>1, <2>1
    <3>2. s.alone
      BY <3>1, <2>3 DEF Protected
    <3>3. Alone(c)
      BY <3>2, <2>4, <1>5 DEF r
    <3>4. \A d \in Conns \ {e} : ~InUpload(d)'
      BY <3>1, <3>3, <2>3 DEF Alone, InUpload, Sending
    <3> QED
      BY <3>1, <3>4, <2>1, <2>3, <2>4
  <2>8. AdminInv'
    BY <2>1, <2>3, <2>6, <2>7 DEF AdminInv
  <2>9. image' # image => Trusted(c)
    <3>1. error # "" => image' = image
      BY <1>3 DEF skip, error
    <3> QED
      BY <3>1, <1>8
  <2>10. conn'[c] # conn[c]
    BY <2>3, <2>4, <1>1
  <2> QED
    BY <2>1, <2>3, <2>8, <2>9, <2>10, <1>1 DEF UploadPromise
<1> QED
  BY <1>9, <1>10

LEMMA ChunkStep ==
  ASSUME AdminInv, NEW c \in Conns, UploadChunk(c)
  PROVE  UploadPromise(c)
<1>1. /\ ConnForm /\ Sending(c) /\ conn[c].pos \in 1 .. Pieces - 1
      /\ UNCHANGED <<memory, prefs, restart, updateRunning>>
  BY DEF AdminInv, UploadChunk, flash
<1>2. IsUpload(conn[c]) /\ HasUploadFields(conn[c])
  BY <1>1, UploadRequest DEF IsUpload
<1>3. PICK s : OneChunk(c, conn[c], s) /\ (conn[c].error # "" => s.error = conn[c].error)
  <2>1. CASE conn[c].error = ""
    BY <2>1, <1>2, WriteForm DEF UploadChunk
  <2>2. CASE conn[c].error # ""
    BY <2>2, <1>2, SkipForm DEF UploadChunk
  <2> QED BY <2>1, <2>2
<1>4. ConnForm' /\ conn'[c] = s /\ \A d \in Conns \ {c} : conn'[d] = conn[d]
  BY <1>3, <1>1, OneRequest DEF OneChunk, IsRequest
<1> DEFINE n == conn[c].pos
<1>5. n \in Nat /\ n > 0 /\ n # n + 1
  BY <1>1, AdministrationAssumption
<1>6. s.kind = "upload" /\ s.hash = conn[c].hash /\ s.pos = n + 1 /\ s.since = conn[c].since /\ s.alone = conn[c].alone
  BY <1>3 DEF OneChunk, IsUpload, HasUploadFields
<1>7. conn[c].error = "other" => s.error = "other"
  BY <1>3
<1>8. s.error = "" => conn[c].error = ""
  BY <1>3
<1>9. conn[c].kind = "upload" /\ conn[c].pos > 0
  BY <1>1, <1>5 DEF Sending
<1> HIDE DEF n
<1>10. conn[c].error = "" => Trusted(c)
  BY <1>9 DEF AdminInv, PassedAreTrusted, HasPassed
<1>11. PassedAreTrusted'
  <2>1. HasPassed(s) => checkPass(memory, s.hash)
    BY <1>6, <1>8, <1>10 DEF HasPassed, Trusted
  <2> QED
    BY <2>1, <1>4, <1>1, UploadKeepsTrust
<1>12. \A e \in Conns : /\ Protected(e)' => Protected(e) /\ conn'[e].since = conn[e].since
                        /\ InUpload(e)' => InUpload(e)
  <2> SUFFICES ASSUME NEW e \in Conns
               PROVE  /\ Protected(e)' => Protected(e) /\ conn'[e].since = conn[e].since
                      /\ InUpload(e)' => InUpload(e)
    OBVIOUS
  <2>1. CASE e = c
    BY <2>1, <1>4, <1>6, <1>7, <1>8, <1>9 DEF Protected, InUpload, Sending
  <2>2. CASE e # c
    BY <2>2, <1>4 DEF Protected, InUpload, Sending
  <2> QED BY <2>1, <2>2
<1>13. ProtectedHoldLock'
  BY <1>1, <1>12 DEF AdminInv, ProtectedHoldLock
<1>14. AdminInv'
  BY <1>1, <1>4, <1>11, <1>13 DEF AdminInv
<1>15. image' # image \/ session' # session => conn[c].error = ""
  BY DEF UploadChunk, skip
<1>16. conn'[c] # conn[c]
  BY <1>4, <1>5, <1>6 DEF n
<1>17. conn[c].error = "" => \A e \in Conns \ {c} : ~Protected(e)
  BY <1>9, NoOtherProtected DEF InUpload, Sending
<1> QED
  BY <1>1, <1>4, <1>10, <1>14, <1>15, <1>16, <1>17 DEF UploadPromise

LEMMA FinishStep ==
  ASSUME AdminInv, NEW c \in Conns, UploadFinish(c)
  PROVE  UploadPromise(c)
<1>1. /\ ConnForm /\ Sending(c) /\ conn[c].pos = Pieces
      /\ updateRunning' = unlocked(conn[c])
      /\ UNCHANGED <<memory, prefs, session, image>>
  BY DEF AdminInv, UploadFinish, flash
<1>2. ConnForm' /\ conn'[c] = Idle /\ \A d \in Conns \ {c} : conn'[d] = conn[d]
  BY <1>1, OneRequest DEF UploadFinish, IsRequest
<1>3. conn[c].kind = "upload" /\ conn[c].pos > 0
  BY <1>1, AdministrationAssumption DEF Sending
<1>4. PassedAreTrusted'
  BY <1>1, <1>2, IdleFacts, UploadKeepsTrust
<1>5. restart' /\ ~restart => Trusted(c)
  BY <1>3 DEF UploadFinish, AdminInv, PassedAreTrusted, HasPassed
<1>6. ProtectedHoldLock' /\ updateRunning' \in Nat
  <2>1. CASE conn[c].error = "other"
    <3>1. updateRunning' = updateRunning
      BY <2>1, <1>1 DEF unlocked
    <3> QED
      BY <3>1, <1>2, IdleFacts, OthersKeepLock DEF AdminInv
  <2>2. CASE conn[c].error # "other"
    <3>1. \A e \in Conns \ {c} : ~Protected(e)
      BY <2>2, <1>3, NoOtherProtected DEF InUpload, Sending
    <3>2. \A e \in Conns : ~Protected(e)'
      BY <3>1, <1>2, IdleFacts DEF Protected, Sending
    <3>3. updateRunning' \in Nat
      BY <2>2, <1>1, AdministrationAssumption DEF unlocked, NoUpdate
    <3> QED
      BY <3>2, <3>3 DEF ProtectedHoldLock
  <2> QED BY <2>1, <2>2
<1>7. AdminInv'
  BY <1>2, <1>4, <1>6 DEF AdminInv
<1> QED
  BY <1>1, <1>2, <1>5, <1>7 DEF UploadPromise

-----------------------------------------------------------------------------
(* The main loop, a start and the time. *)

LEMMA MainLoopStep ==
  ASSUME AdminInv, MainLoop
  PROVE  AdminInv' /\ UNCHANGED <<conn, update>>
<1>1. UNCHANGED <<memory, conn, update>>
  BY DEF MainLoop, ResetRequest, ResetConfigRequest, FactoryResetRequest
<1> QED
  BY <1>1 DEF AdminInv, ConnForm, PassedAreTrusted, Trusted, ProtectedHoldLock, Protected, InUpload,
              Sending, update

LEMMA StartKeepsInv ==
  ASSUME Restart \/ PowerLoss
  PROVE  AdminInv' /\ conn' = [c \in Conns |-> Idle] /\ ~restart' /\ UNCHANGED <<prefs, image>>
<1>1. /\ conn' = [c \in Conns |-> Idle] /\ ~restart' /\ UNCHANGED <<prefs, image>>
      /\ updateRunning' = NoUpdate
  BY DEF Restart, PowerLoss, Start
<1>2. \A c \in Conns : conn'[c] = Idle /\ conn'[c].kind = "idle"
  BY <1>1, IdleFacts
<1>3. ConnForm'
  BY <1>1, <1>2 DEF ConnForm, IsRequest
<1>4. PassedAreTrusted'
  BY <1>2, IdleFacts DEF PassedAreTrusted
<1>5. ProtectedHoldLock'
  BY <1>2 DEF ProtectedHoldLock, Protected, Sending
<1>6. updateRunning' \in Nat
  BY <1>1, AdministrationAssumption DEF NoUpdate
<1> QED
  BY <1>1, <1>3, <1>4, <1>5, <1>6 DEF AdminInv

LEMMA InitHasInv == ASSUME Init PROVE AdminInv
<1>1. \A c \in Conns : conn[c] = Idle /\ conn[c].kind = "idle"
  BY IdleFacts DEF Init
<1>2. ConnForm
  BY <1>1 DEF ConnForm, IsRequest, Init
<1>3. PassedAreTrusted
  BY <1>1, IdleFacts DEF PassedAreTrusted
<1>4. ProtectedHoldLock
  BY <1>1 DEF ProtectedHoldLock, Protected, Sending
<1>5. updateRunning \in Nat
  BY AdministrationAssumption DEF NoUpdate, Init
<1> QED
  BY <1>2, <1>3, <1>4, <1>5 DEF AdminInv

(* A window ages a request, but not a hash that has been checked. *)
LEMMA AgedForm ==
  ASSUME NEW r, IsRequest(r)
  PROVE  /\ IsRequest(aged(r)) /\ aged(r).kind = r.kind
         /\ HasPassed(aged(r)) => HasPassed(r) /\ aged(r).hash = r.hash
         /\ r.kind = "upload" =>
              /\ aged(r).pos = r.pos /\ aged(r).error = r.error /\ aged(r).alone = r.alone
              /\ r.pos > 0 /\ r.alone => aged(r).since = older(r.since, LockMin)
<1>1. CASE r = Idle
  BY <1>1 DEF aged, Idle, IsRequest, HasPassed
<1>2. CASE IsConfig(r)
  <2>1. CASE r.nv.notFirst
    <3>1. aged(r) = r
      BY <2>1, <1>2 DEF aged, IsConfig
    <3> QED BY <3>1, <1>2 DEF IsRequest, IsConfig
  <2>2. CASE ~r.nv.notFirst
    <3> DEFINE a == [r EXCEPT !.hash.age = older(@, Windows)]
    <3>1. aged(r) = a
      BY <2>2, <1>2 DEF aged, IsConfig
    <3>2. IsConfig(a) /\ ~a.nv.hashChecked /\ a.kind = "config"
      BY <2>2, <1>2 DEF IsConfig, IsNv
    <3> HIDE DEF a
    <3> QED BY <3>1, <3>2, <1>2 DEF IsRequest, HasPassed, IsConfig
  <2> QED BY <2>1, <2>2
<1>3. CASE IsUpload(r)
  <2>1. CASE r.pos = 0
    <3> DEFINE a == [r EXCEPT !.hash.age = older(@, Windows)]
    <3>1. aged(r) = a
      BY <2>1, <1>3 DEF aged, IsUpload, HasUploadFields
    <3>2. IsUpload(a) /\ a.pos = 0 /\ a.error = r.error /\ a.alone = r.alone /\ a.kind = "upload"
      BY <2>1, <1>3 DEF IsUpload, HasUploadFields
    <3> HIDE DEF a
    <3> QED BY <3>1, <3>2, <2>1, <1>3 DEF IsRequest, HasPassed, IsUpload, HasUploadFields
  <2>2. CASE r.pos # 0
    <3> DEFINE a == [r EXCEPT !.since = IF r.alone THEN older(@, LockMin) ELSE @]
    <3>1. aged(r) = a
      BY <2>2, <1>3 DEF aged, IsUpload, HasUploadFields
    <3>2. older(r.since, LockMin) \in Nat
      BY <1>3, AdministrationAssumption DEF older, IsUpload, HasUploadFields
    <3>3. /\ IsUpload(a) /\ a.hash = r.hash
          /\ a.pos = r.pos /\ a.error = r.error /\ a.alone = r.alone /\ a.kind = "upload"
          /\ r.alone => a.since = older(r.since, LockMin)
      BY <2>2, <3>2, <1>3 DEF IsUpload, HasUploadFields
    <3> HIDE DEF a
    <3> QED BY <3>1, <3>3, <1>3 DEF IsRequest, HasPassed, IsUpload, HasUploadFields
  <2> QED BY <2>1, <2>2
<1> QED
  BY <1>1, <1>2, <1>3 DEF IsRequest

LEMMA TickStep ==
  ASSUME AdminInv, Tick
  PROVE  AdminInv'
<1>1. /\ conn' = [c \in Conns |-> aged(conn[c])] /\ UNCHANGED memory
      /\ updateRunning' = older(updateRunning, NoUpdate)
  BY DEF Tick
<1>2. \A c \in Conns : conn'[c] = aged(conn[c]) /\ IsRequest(conn[c])
  BY <1>1 DEF AdminInv, ConnForm
<1>3. ConnForm'
  BY <1>1, <1>2, AgedForm DEF ConnForm
<1>4. PassedAreTrusted'
  <2> SUFFICES ASSUME NEW c \in Conns, HasPassed(conn'[c])
               PROVE  checkPass(memory, conn'[c].hash)
    BY <1>1 DEF PassedAreTrusted, Trusted
  <2>1. HasPassed(conn[c]) /\ conn'[c].hash = conn[c].hash
    BY <1>2, AgedForm
  <2> QED
    BY <2>1 DEF AdminInv, PassedAreTrusted, Trusted
<1>5. \A c \in Conns : InUpload(c)' => InUpload(c)
  BY <1>2, AgedForm DEF InUpload, Sending
<1>6. ProtectedHoldLock'
  <2> SUFFICES ASSUME NEW c \in Conns, Protected(c)'
               PROVE  updateRunning' = conn'[c].since /\ \A d \in Conns \ {c} : ~InUpload(d)'
    BY DEF ProtectedHoldLock
  <2>1. /\ Sending(c) /\ conn[c].pos > 0 /\ conn[c].error = "" /\ conn[c].alone
        /\ conn'[c].since = older(conn[c].since, LockMin) /\ conn'[c].since < LockMin
    <3>1. /\ conn'[c].kind = "upload" /\ conn'[c].pos > 0 /\ conn'[c].error = ""
          /\ conn'[c].alone /\ conn'[c].since < LockMin
      BY DEF Protected, Sending
    <3>2. conn'[c] = aged(conn[c]) /\ IsRequest(conn[c])
      BY <1>2
    <3>3. conn[c].kind = "upload"
      BY <3>1, <3>2, AgedForm
    <3>4. /\ conn'[c].pos = conn[c].pos /\ conn'[c].error = conn[c].error /\ conn'[c].alone = conn[c].alone
          /\ conn[c].pos > 0 /\ conn[c].alone => conn'[c].since = older(conn[c].since, LockMin)
      BY <3>2, <3>3, AgedForm
    <3> QED
      BY <3>1, <3>3, <3>4 DEF Sending
  <2>2. conn[c].since \in Nat
    BY <2>1, UploadRequest DEF AdminInv, IsUpload, HasUploadFields
  <2> DEFINE n == conn[c].since
             m == conn'[c].since
  <2>3. n \in Nat /\ m = older(n, LockMin) /\ m < LockMin
    BY <2>1, <2>2
  <2> HIDE DEF n, m
  <2>4. n < LockMin /\ m = n + 1 /\ n < NoUpdate
    BY <2>3, AdministrationAssumption DEF older, NoUpdate
  <2>5. updateRunning = n /\ \A d \in Conns \ {c} : ~InUpload(d)
    BY <2>1, <2>4 DEF AdminInv, ProtectedHoldLock, Protected, n
  <2>6. updateRunning' = m
    BY <2>4, <2>5, <1>1 DEF older
  <2> QED
    BY <2>5, <2>6, <1>5 DEF m
<1>7. updateRunning' \in Nat
  BY <1>1, AdministrationAssumption DEF AdminInv, older, NoUpdate
<1> QED
  BY <1>3, <1>4, <1>6, <1>7 DEF AdminInv

-----------------------------------------------------------------------------
(* The steps of a connection, in the words of the properties. *)
StepPromise ==
  /\ AdminInv'
  /\ \A c \in Conns :
       conn'[c] # conn[c] /\ (prefs' # prefs \/ image' # image \/ (restart' /\ ~restart)) => Trusted(c)
  /\ \A c \in Conns : Protected(c) /\ session' # session => conn'[c] # conn[c]

LEMMA EveryStep ==
  ASSUME AdminInv, [Next]_vars
  PROVE  StepPromise
<1>1. ASSUME NEW c \in Conns, handleConfigRequestData(c) PROVE StepPromise
  <2>1. PICK r : conn' = [conn EXCEPT ![c] = r] /\ ConfigGoesOn(c, r)
    BY <1>1, ConfigStep
  <2>2. UNCHANGED <<memory, update>> /\ (prefs' # prefs \/ (restart' /\ ~restart) => Trusted(c))
    BY <1>1, ConfigStep
  <2>3. AdminInv'
    BY <2>1, <2>2, ConfigKeepsInv
  <2>4. \A d \in Conns \ {c} : conn'[d] = conn[d]
    BY <2>1 DEF AdminInv, ConnForm
  <2> QED
    BY <2>2, <2>3, <2>4 DEF StepPromise, update
<1>2. ASSUME NEW c \in Conns, PostConfig(c) \/ PostUpdate(c) \/ Disconnect(c) PROVE StepPromise
  <2>1. AdminInv'
    BY <1>2, PostKeepsInv
  <2>2. UNCHANGED <<prefs, restart, update>>
    BY <1>2 DEF PostConfig, PostUpdate, Disconnect, flash
  <2> QED
    BY <2>1, <2>2 DEF StepPromise, update
<1>3. ASSUME NEW c \in Conns, updateHandler(c) PROVE StepPromise
  <2>1. UploadPromise(c)
    BY <1>3, StartStep, ChunkStep, FinishStep DEF updateHandler
  <2> QED
    BY <2>1 DEF UploadPromise, StepPromise
<1>4. CASE MainLoop
  BY <1>4, MainLoopStep DEF StepPromise, update
<1>5. CASE Restart \/ PowerLoss
  <2>1. AdminInv' /\ conn' = [c \in Conns |-> Idle] /\ ~restart' /\ UNCHANGED <<prefs, image>>
    BY <1>5, StartKeepsInv
  <2>2. \A c \in Conns : Protected(c) => conn'[c] # conn[c]
    BY <2>1, IdleFacts DEF Protected, Sending
  <2> QED
    BY <2>1, <2>2 DEF StepPromise
<1>6. CASE Tick
  <2>1. AdminInv' /\ UNCHANGED <<prefs, image, restart, session>>
    BY <1>6, TickStep DEF Tick, flash
  <2> QED
    BY <2>1 DEF StepPromise
<1>7. CASE UNCHANGED vars
  BY <1>7 DEF StepPromise, vars, AdminInv, ConnForm, PassedAreTrusted, Trusted, ProtectedHoldLock,
              Protected, InUpload, Sending
<1> QED
  BY <1>1, <1>2, <1>3, <1>4, <1>5, <1>6, <1>7 DEF Next, WebTask

-----------------------------------------------------------------------------
(* In every state a request that has passed its check was trusted then,    *)
(* and an upload that is protected holds the lock.                         *)
THEOREM AdminInvariant == Spec => []AdminInv
<1>1. Init => AdminInv
  BY InitHasInv
<1>2. AdminInv /\ [Next]_vars => AdminInv'
  BY EveryStep DEF StepPromise
<1> QED
  BY <1>1, <1>2, PTL DEF Spec

(* Without the password of the gateway no request changes what is stored,  *)
(* the firmware, or starts a restart, whatever its chunks, however they    *)
(* come, and whatever other connections do (setConfig and updateHandler).  *)
THEOREM PasswordNeeded == Spec => OnlyWithPassword
<1> DEFINE Step ==
      \A c \in Conns :
        conn'[c] # conn[c] /\ (prefs' # prefs \/ image' # image \/ (restart' /\ ~restart)) => Trusted(c)
<1>1. AdminInv /\ [Next]_vars => [Step]_vars
  BY EveryStep DEF StepPromise
<1> QED
  BY <1>1, AdminInvariant, PTL DEF Spec, OnlyWithPassword

(* For the time of updateRunning an upload that was alone when it began is *)
(* the only one whose chunks reach the flash (updateHandler).              *)
THEOREM UploadsUndisturbed == Spec => UploadNotDisturbed
<1> DEFINE Step == \A c \in Conns : Protected(c) /\ session' # session => conn'[c] # conn[c]
<1>1. AdminInv /\ [Next]_vars => [Step]_vars
  BY EveryStep DEF StepPromise
<1> QED
  BY <1>1, AdminInvariant, PTL DEF Spec, UploadNotDisturbed

-----------------------------------------------------------------------------
(* What the parser of setConfig reads: the text of each pair of the body.  *)
Symbols == STRING \cup {"%26", "%3D", "=", "&"}
Texts == Seq(Symbols)
Pairs == [name : Texts, value : Texts]

LEMMA EveryNatural ==
  ASSUME NEW T, 0 \in T, \A n \in Nat : n \in T => n + 1 \in T
  PROVE  Nat \subseteq T
<1> SUFFICES ASSUME NEW x \in Nat, x \notin T PROVE FALSE
  OBVIOUS
<1> DEFINE U == Nat \ T
           Rel == {ss \in Nat \X Nat : ss[1] < ss[2]}
<1>1. IsWellFoundedOn(Rel, Nat)
  BY NatLessThanWellFounded DEF OpToRel
<1>2. U \subseteq Nat /\ U # {}
  OBVIOUS
<1>3. PICK n \in U : \A i \in U : ~ (<<i, n>> \in Rel)
  <2> HIDE DEF Rel, U
  <2> QED
    BY <1>1, <1>2, WFMin
<1>4. n \in Nat /\ n # 0 /\ n - 1 \in Nat /\ n - 1 < n /\ n = (n - 1) + 1
  BY <1>3
<1>5. n - 1 \notin U
  BY <1>3, <1>4
<1>6. n - 1 \in T
  BY <1>4, <1>5
<1> QED
  BY <1>3, <1>4, <1>6

(* The first n symbols of an encoded text. *)
Coded(text, n) == [k \in 1 .. n |-> encoded(text[k])]

LEMMA EncodedSymbol ==
  ASSUME NEW s \in Symbols
  PROVE  encoded(s) \in Symbols /\ encoded(s) # "&" /\ encoded(s) # "="
BY DEF encoded, Symbols

LEMMA CodedIsText ==
  ASSUME NEW text \in Texts, NEW n \in 0 .. Len(text)
  PROVE  /\ Coded(text, n) \in Texts /\ Len(Coded(text, n)) = n
         /\ \A k \in 1 .. n : Coded(text, n)[k] = encoded(text[k])
<1>1. n \in Nat /\ \A k \in 1 .. n : text[k] \in Symbols
  BY DEF Texts
<1>2. Coded(text, n) \in [1 .. n -> Symbols]
  BY <1>1, EncodedSymbol DEF Coded
<1> QED
  BY <1>1, <1>2, SeqDef, LenProperties DEF Coded, Texts

LEMMA CodedAll ==
  ASSUME NEW text \in Texts
  PROVE  encodeURIComponent(text) = Coded(text, Len(text))
BY DEF encodeURIComponent, Coded, Texts

LEMMA CodedNone ==
  ASSUME NEW text \in Texts
  PROVE  Coded(text, 0) = Empty
<1>1. Coded(text, 0) \in Texts /\ Len(Coded(text, 0)) = 0
  BY CodedIsText DEF Texts
<1> QED
  BY <1>1, EmptySeq DEF Empty, Texts

LEMMA CodedMore ==
  ASSUME NEW text \in Texts, NEW n \in 0 .. (Len(text) - 1)
  PROVE  Append(Coded(text, n), encoded(text[n + 1])) = Coded(text, n + 1)
<1> DEFINE s == Append(Coded(text, n), encoded(text[n + 1]))
           t == Coded(text, n + 1)
<1>1. n \in Nat /\ n \in 0 .. Len(text) /\ n + 1 \in 0 .. Len(text) /\ Len(text) \in Nat
  BY DEF Texts
<1>2. text[n + 1] \in Symbols
  BY <1>1 DEF Texts
<1>3. encoded(text[n + 1]) \in Symbols
  BY <1>2, EncodedSymbol
<1>4. s \in Texts /\ Len(s) = n + 1 /\ \A k \in 1 .. n : s[k] = encoded(text[k])
  <2>1. Coded(text, n) \in Texts /\ Len(Coded(text, n)) = n /\ \A k \in 1 .. n : Coded(text, n)[k] = encoded(text[k])
    BY <1>1, CodedIsText
  <2> HIDE DEF t
  <2> QED
    BY <2>1, <1>1, <1>3, AppendProperties DEF Texts
<1>5. s[n + 1] = encoded(text[n + 1])
  <2>1. Coded(text, n) \in Texts /\ Len(Coded(text, n)) = n
    BY <1>1, CodedIsText
  <2> HIDE DEF t
  <2> QED
    BY <2>1, <1>1, <1>3, AppendProperties DEF Texts
<1>6. t \in Texts /\ Len(t) = n + 1 /\ \A k \in 1 .. (n + 1) : t[k] = encoded(text[k])
  BY <1>1, CodedIsText
<1> HIDE DEF s, t
<1>7. \A k \in 1 .. (n + 1) : s[k] = t[k]
  BY <1>1, <1>4, <1>5, <1>6
<1>8. s = t
  BY <1>1, <1>4, <1>6, <1>7, SeqEqual DEF Texts
<1> QED
  BY <1>8 DEF s, t

(* Decoding gives back what was encoded. *)
Plain(text) == \A k \in DOMAIN text : text[k] \notin {"%26", "%3D"}

LEMMA DecodeCoded ==
  ASSUME NEW text \in Texts, Plain(text)
  PROVE  urlDecode(Coded(text, Len(text))) = text
<1> DEFINE t == Coded(text, Len(text))
           n == Len(text)
<1>1. n \in Nat /\ DOMAIN text = 1 .. n /\ text \in [1 .. n -> Symbols]
  BY LenProperties DEF Texts
<1>2. DOMAIN t = 1 .. n /\ \A k \in 1 .. n : t[k] = encoded(text[k])
  BY DEF Coded
<1> HIDE DEF t, n
<1>3. \A k \in 1 .. n : (IF t[k] = "%26" THEN "&" ELSE IF t[k] = "%3D" THEN "=" ELSE t[k]) = text[k]
  BY <1>1, <1>2 DEF encoded, Plain
<1>4. urlDecode(t) = [k \in 1 .. n |-> text[k]]
  BY <1>2, <1>3 DEF urlDecode
<1>5. [k \in 1 .. n |-> text[k]] = text
  BY <1>1
<1> QED
  BY <1>4, <1>5 DEF t, n

(* The text of a pair. *)
LEMMA ParamIs ==
  ASSUME NEW p \in Pairs
  PROVE  /\ param(p) \in Texts /\ Len(param(p)) = Len(p.name) + Len(p.value) + 2
         /\ \A k \in 1 .. Len(p.name) : param(p)[k] = encoded(p.name[k])
         /\ param(p)[Len(p.name) + 1] = "="
         /\ \A k \in 1 .. Len(p.value) : param(p)[Len(p.name) + 1 + k] = encoded(p.value[k])
         /\ param(p)[Len(p.name) + Len(p.value) + 2] = "&"
<1> DEFINE a == encodeURIComponent(p.name)
           b == encodeURIComponent(p.value)
<1>1. p.name \in Texts /\ p.value \in Texts
  BY DEF Pairs
<1>2. a \in Texts /\ Len(a) = Len(p.name) /\ \A k \in 1 .. Len(p.name) : a[k] = encoded(p.name[k])
  <2>1. a = Coded(p.name, Len(p.name)) /\ Len(p.name) \in 0 .. Len(p.name)
    BY <1>1, CodedAll DEF Texts
  <2> HIDE DEF a
  <2> QED
    BY <1>1, <2>1, CodedIsText
<1>3. b \in Texts /\ Len(b) = Len(p.value) /\ \A k \in 1 .. Len(p.value) : b[k] = encoded(p.value[k])
  <2>1. b = Coded(p.value, Len(p.value)) /\ Len(p.value) \in 0 .. Len(p.value)
    BY <1>1, CodedAll DEF Texts
  <2> HIDE DEF b
  <2> QED
    BY <1>1, <2>1, CodedIsText
<1> HIDE DEF a, b
<1> DEFINE e == <<"=">>
           d == <<"&">>
<1>4. e \in Texts /\ Len(e) = 1 /\ e[1] = "=" /\ d \in Texts /\ Len(d) = 1 /\ d[1] = "&"
  BY DEF Texts, Symbols
<1> HIDE DEF e, d
<1>5. a \o e \in Texts /\ Len(a \o e) = Len(a) + 1
  BY <1>2, <1>4, ConcatProperties DEF Texts
<1>6. a \o e \o b \in Texts /\ Len(a \o e \o b) = Len(a) + 1 + Len(b)
  <2> DEFINE ae == a \o e
  <2>1. ae \in Texts /\ Len(ae) = Len(a) + 1
    BY <1>5
  <2> HIDE DEF ae
  <2>2. ae \o b \in Texts /\ Len(ae \o b) = Len(ae) + Len(b)
    BY <1>3, <2>1, ConcatProperties DEF Texts
  <2> QED
    BY <2>1, <2>2 DEF ae
<1>7. a \o e \o b \o d \in Texts /\ Len(a \o e \o b \o d) = Len(a) + Len(b) + 2
  <2>1. Len(a) \in Nat /\ Len(b) \in Nat
    BY <1>2, <1>3 DEF Texts
  <2> QED
    BY <1>4, <1>6, <2>1, ConcatProperties DEF Texts
<1> DEFINE t == a \o e \o b \o d
<1>8. Len(a) \in Nat /\ Len(b) \in Nat
  BY <1>2, <1>3 DEF Texts
<1>9. \A k \in 1 .. Len(a) : t[k] = a[k]
  <2>1. \A k \in 1 .. Len(a) : (a \o e)[k] = a[k]
    BY <1>2, <1>4, ConcatProperties DEF Texts
  <2>2. \A k \in 1 .. Len(a) : (a \o e \o b)[k] = (a \o e)[k]
    BY <1>3, <1>5, <1>8, ConcatProperties DEF Texts
  <2>3. \A k \in 1 .. Len(a) : t[k] = (a \o e \o b)[k]
    BY <1>4, <1>6, <1>8, ConcatProperties DEF Texts
  <2> QED
    BY <2>1, <2>2, <2>3
<1>10. t[Len(a) + 1] = "="
  <2>1. (a \o e)[Len(a) + 1] = e[1]
    BY <1>2, <1>4, <1>8, ConcatProperties DEF Texts
  <2>2. (a \o e \o b)[Len(a) + 1] = (a \o e)[Len(a) + 1]
    BY <1>3, <1>5, <1>8, ConcatProperties DEF Texts
  <2>3. t[Len(a) + 1] = (a \o e \o b)[Len(a) + 1]
    BY <1>4, <1>6, <1>8, ConcatProperties DEF Texts
  <2> QED
    BY <1>4, <2>1, <2>2, <2>3
<1>11. \A k \in 1 .. Len(b) : t[Len(a) + 1 + k] = b[k]
  <2> SUFFICES ASSUME NEW k \in 1 .. Len(b) PROVE t[Len(a) + 1 + k] = b[k]
    OBVIOUS
  <2>1. (a \o e \o b)[Len(a) + 1 + k] = b[k]
    BY <1>3, <1>5, <1>8, ConcatProperties DEF Texts
  <2>2. t[Len(a) + 1 + k] = (a \o e \o b)[Len(a) + 1 + k]
    BY <1>4, <1>6, <1>8, ConcatProperties DEF Texts
  <2> QED
    BY <2>1, <2>2
<1>12. t[Len(a) + Len(b) + 2] = "&"
  <2> DEFINE aeb == a \o e \o b
  <2>1. aeb \in Texts /\ Len(aeb) = Len(a) + 1 + Len(b)
    BY <1>6
  <2> HIDE DEF aeb
  <2>2. (aeb \o d)[Len(aeb) + 1] = d[1]
    <3>1. Len(aeb) + 1 \in 1 .. (Len(aeb) + Len(d)) /\ ~(Len(aeb) + 1 <= Len(aeb)) /\ Len(aeb) + 1 - Len(aeb) = 1
      BY <1>4, <1>8, <2>1
    <3> QED
      BY <1>4, <2>1, <3>1, ConcatProperties DEF Texts
  <2> QED
    BY <1>4, <1>8, <2>1, <2>2 DEF aeb
<1>13. param(p) = t
  BY DEF param, a, b, e, d
<1> HIDE DEF t
<1> QED
  BY <1>2, <1>3, <1>7, <1>9, <1>10, <1>11, <1>12, <1>13 DEF t

(* The body is the texts of its pairs, one after the other. *)
Flat(seqs, n) ==
  CHOOSE f : f = [i \in 1 .. n |-> IF i = 1 THEN seqs[i] ELSE f[i - 1] \o seqs[i]]

LEMMA FlatExists ==
  ASSUME NEW seqs, NEW n \in Nat
  PROVE  \E f : f = [i \in 1 .. n |-> IF i = 1 THEN seqs[i] ELSE f[i - 1] \o seqs[i]]
<1> DEFINE F(f, i) == IF i = 1 THEN seqs[i] ELSE f[i - 1] \o seqs[i]
           T == {k \in Nat : \E f : f = [i \in 1 .. k |-> F(f, i)]}
<1>1. 0 \in T
  <2> DEFINE f == [i \in 1 .. 0 |-> 0]
  <2>1. f = [i \in 1 .. 0 |-> F(f, i)]
    OBVIOUS
  <2> HIDE DEF f, F
  <2> QED
    BY <2>1
<1>2. ASSUME NEW k \in Nat, k \in T PROVE k + 1 \in T
  <2>1. PICK f : f = [i \in 1 .. k |-> F(f, i)]
    <3> HIDE DEF F
    <3> QED
      BY <1>2
  <2> DEFINE last == F(f, k + 1)
  <2>2. PICK v : v = last
    OBVIOUS
  <2> DEFINE h == [i \in 1 .. (k + 1) |-> IF i = k + 1 THEN v ELSE f[i]]
  <2>3. ASSUME NEW i \in 1 .. (k + 1) PROVE h[i] = F(h, i)
    <3>1. i # 1 => i - 1 \in 1 .. k /\ h[i - 1] = f[i - 1]
      OBVIOUS
    <3>2. F(h, i) = F(f, i)
      <4> HIDE DEF h
      <4> QED BY <3>1
    <3>3. h[i] = F(f, i)
      <4>1. CASE i = k + 1
        BY <4>1, <2>2
      <4>2. CASE i # k + 1
        <5>1. i \in 1 .. k /\ h[i] = f[i]
          BY <4>2
        <5> HIDE DEF h, F
        <5> QED
          BY <5>1, <2>1
      <4> QED
        BY <4>1, <4>2
    <3> HIDE DEF h, F
    <3> QED
      BY <3>2, <3>3
  <2>4. h = [i \in 1 .. (k + 1) |-> F(h, i)]
    <3>1. h = [i \in 1 .. (k + 1) |-> h[i]]
      OBVIOUS
    <3> HIDE DEF h, F
    <3> QED
      BY <2>3, <3>1
  <2> HIDE DEF h, F
  <2> QED
    BY <2>4
<1>3. n \in T
  <2> HIDE DEF T
  <2> QED
    BY <1>1, <1>2, EveryNatural
<1> QED
  BY <1>3

LEMMA FlatIs ==
  ASSUME NEW seqs, NEW n \in Nat \ {0}, Len(seqs) = n
  PROVE  /\ FlattenSeq(seqs) = Flat(seqs, n)[n]
         /\ Flat(seqs, n)[1] = seqs[1]
         /\ \A i \in 2 .. n : Flat(seqs, n)[i] = Flat(seqs, n)[i - 1] \o seqs[i]
<1>1. FlattenSeq(seqs) = Flat(seqs, n)[n]
  BY DEF FlattenSeq, Flat
<1> DEFINE f == Flat(seqs, n)
<1>2. f = [i \in 1 .. n |-> IF i = 1 THEN seqs[i] ELSE f[i - 1] \o seqs[i]]
  BY FlatExists DEF Flat
<1> HIDE DEF f
<1>3. f[1] = seqs[1]
  BY <1>2
<1>4. \A i \in 2 .. n : i \in 1 .. n /\ i # 1
  OBVIOUS
<1>5. \A i \in 2 .. n : f[i] = f[i - 1] \o seqs[i]
  BY <1>2, <1>4
<1> QED
  BY <1>1, <1>3, <1>5 DEF f

(* off[k] symbols of the body come before the k-th pair. *)
Starts(q, n, off, B) ==
  /\ off \in [1 .. (n + 1) -> Nat] /\ off[1] = 0
  /\ B \in Texts /\ Len(B) = off[n + 1]
  /\ \A k \in 1 .. n :
       /\ off[k + 1] = off[k] + Len(param(q[k])) /\ off[k + 1] <= Len(B)
       /\ \A j \in 1 .. Len(param(q[k])) : B[off[k] + j] = param(q[k])[j]

LEMMA OneStarts ==
  ASSUME NEW q, NEW B \in Texts, B = param(q[1])
  PROVE  \E off : Starts(q, 1, off, B)
<1> DEFINE off == [k \in 1 .. (1 + 1) |-> IF k = 1 THEN 0 ELSE Len(B)]
<1>1. Len(B) \in Nat
  BY DEF Texts
<1>2. off \in [1 .. (1 + 1) -> Nat] /\ off[1] = 0 /\ off[1 + 1] = Len(B)
  BY <1>1
<1> HIDE DEF off
<1>3. \A k \in 1 .. 1 : k = 1
  OBVIOUS
<1>4. \A j \in 1 .. Len(B) : off[1] + j = j
  BY <1>2
<1>5. Starts(q, 1, off, B)
  BY <1>1, <1>2, <1>3, <1>4 DEF Starts
<1> QED
  BY <1>5

LEMMA MoreStarts ==
  ASSUME NEW q, NEW n \in Nat, NEW off, NEW B, Starts(q, n, off, B),
         \A k \in 1 .. (n + 1) : param(q[k]) \in Texts
  PROVE  \E new : Starts(q, n + 1, new, B \o param(q[n + 1]))
<1> DEFINE p == param(q[n + 1])
           C == B \o p
           new == [k \in 1 .. (n + 1 + 1) |-> IF k = n + 1 + 1 THEN Len(B) + Len(p) ELSE off[k]]
<1>1. Len(B) \in Nat /\ Len(p) \in Nat /\ B \in Texts /\ p \in Texts
  BY DEF Texts, Starts
<1>2. C \in Texts /\ Len(C) = Len(B) + Len(p)
  BY <1>1, ConcatProperties DEF Texts
<1>3. /\ \A j \in 1 .. Len(B) : C[j] = B[j]
      /\ \A j \in 1 .. Len(p) : C[Len(B) + j] = p[j]
  <2>1. \A i \in 1 .. Len(B) + Len(p) : C[i] = IF i <= Len(B) THEN B[i] ELSE p[i - Len(B)]
    BY <1>1, ConcatProperties DEF Texts
  <2> HIDE DEF C, p
  <2> QED
    BY <1>1, <2>1
<1>4. off \in [1 .. (n + 1) -> Nat] /\ off[1] = 0 /\ Len(B) = off[n + 1]
  BY DEF Starts
<1> HIDE DEF p
<1>5. /\ new \in [1 .. (n + 1 + 1) -> Nat] /\ new[1] = 0
      /\ new[n + 1 + 1] = Len(C) /\ \A k \in 1 .. (n + 1) : new[k] = off[k]
  BY <1>1, <1>2, <1>4
<1> HIDE DEF C, new
<1>6. ASSUME NEW k \in 1 .. (n + 1)
      PROVE  /\ new[k + 1] = new[k] + Len(param(q[k])) /\ new[k + 1] <= Len(C)
             /\ \A j \in 1 .. Len(param(q[k])) : C[new[k] + j] = param(q[k])[j]
  <2>1. CASE k = n + 1
    <3>1. param(q[k]) = p
      BY <2>1 DEF p
    <3>2. new[k] = Len(B) /\ new[k + 1] = Len(C)
      BY <2>1, <1>4, <1>5
    <3> QED
      BY <3>1, <3>2, <1>1, <1>2, <1>3
  <2>2. CASE k # n + 1
    <3>1. k \in 1 .. n /\ k + 1 \in 1 .. (n + 1)
      BY <2>2
    <3>2. /\ off[k + 1] = off[k] + Len(param(q[k]))
          /\ off[k + 1] <= Len(B) /\ off[k + 1] \in Nat /\ off[k] \in Nat
          /\ \A j \in 1 .. Len(param(q[k])) : B[off[k] + j] = param(q[k])[j]
      BY <3>1, <1>4 DEF Starts
    <3>3. new[k] = off[k] /\ new[k + 1] = off[k + 1]
      BY <3>1, <1>5
    <3>4. new[k + 1] = new[k] + Len(param(q[k])) /\ new[k + 1] <= Len(C)
      BY <3>2, <3>3, <1>1, <1>2
    <3>5. PICK l : l = Len(param(q[k]))
      OBVIOUS
    <3>6. l \in Int /\ off[k] + l <= Len(B)
      <4>1. k \in Nat /\ param(q[k]) \in Texts
        BY <3>1
      <4> QED
        BY <4>1, <3>2, <3>5 DEF Texts
    <3>7. ASSUME NEW j \in 1 .. l PROVE C[off[k] + j] = param(q[k])[j]
      <4>1. off[k] + j \in 1 .. Len(B)
        BY <3>2, <3>6, <1>1
      <4>2. C[off[k] + j] = B[off[k] + j]
        BY <4>1, <1>3
      <4> QED
        BY <4>2, <3>2, <3>5
    <3> QED
      BY <3>3, <3>4, <3>5, <3>7
  <2> QED
    BY <2>1, <2>2
<1>7. Starts(q, n + 1, new, C)
  BY <1>2, <1>5, <1>6 DEF Starts
<1> QED
  BY <1>7 DEF C, p

LEMMA BodyStarts ==
  ASSUME NEW q \in Requests
  PROVE  \E off : Starts(q, Len(q), off, Body[q])
<1>1. q \in Seq(Pairs) /\ q # <<>>
  <2>1. q # <<>> /\ q \in Seq([name : Seq(STRING), value : Seq(STRING)])
    BY AdministrationAssumption
  <2>2. STRING \subseteq Symbols
    BY DEF Symbols
  <2>3. [name : Seq(STRING), value : Seq(STRING)] \subseteq Pairs
    BY <2>2, SeqMonotonic DEF Pairs, Texts
  <2> QED
    BY <2>1, <2>3, SeqMonotonic
<1> DEFINE n == Len(q)
           seqs == [k \in DOMAIN q |-> param(q[k])]
<1>2. n \in Nat \ {0} /\ DOMAIN q = 1 .. n /\ \A k \in 1 .. n : q[k] \in Pairs
  BY <1>1, LenProperties, EmptySeq
<1>3. /\ Len(seqs) = n /\ \A k \in 1 .. n : seqs[k] = param(q[k]) /\ param(q[k]) \in Texts
  <2>1. \A k \in 1 .. n : param(q[k]) \in Texts
    BY <1>2, ParamIs
  <2>2. seqs \in [1 .. n -> Texts]
    BY <1>2, <2>1
  <2>3. seqs \in Seq(Texts)
    BY <1>2, <2>2, SeqDef
  <2> QED
    BY <1>2, <2>1, <2>2, <2>3, LenProperties
<1>4. Body[q] = FlattenSeq(seqs)
  BY DEF Body, bodyOf
<1> HIDE DEF n, seqs
<1> DEFINE f == Flat(seqs, n)
<1>5. /\ FlattenSeq(seqs) = f[n] /\ f[1] = seqs[1]
      /\ \A i \in 2 .. n : f[i] = f[i - 1] \o seqs[i]
  BY <1>2, <1>3, FlatIs
<1> HIDE DEF f
<1> DEFINE T == {k \in Nat : k + 1 <= n => \E off : Starts(q, k + 1, off, f[k + 1])}
<1>6. 0 \in T
  <2>1. f[1] \in Texts /\ f[1] = param(q[1])
    BY <1>2, <1>3, <1>5
  <2>2. \E off : Starts(q, 1, off, f[1])
    BY <2>1, OneStarts
  <2>3. 0 + 1 = 1
    OBVIOUS
  <2> QED
    BY <2>2, <2>3
<1>7. ASSUME NEW k \in Nat, k \in T PROVE k + 1 \in T
  <2> SUFFICES ASSUME k + 1 + 1 <= n PROVE \E off : Starts(q, k + 1 + 1, off, f[k + 1 + 1])
    OBVIOUS
  <2>1. PICK m : m = k + 1
    OBVIOUS
  <2>2. m \in Nat /\ m + 1 \in 2 .. n /\ m + 1 - 1 = m /\ m + 1 \in 1 .. n /\ k + 1 <= n
    BY <2>1, <1>2
  <2>3. PICK off : Starts(q, m, off, f[m])
    BY <1>7, <2>1, <2>2
  <2>4. f[m + 1] = f[m] \o param(q[m + 1])
    <3>1. PICK i : i = m + 1
      OBVIOUS
    <3>2. i \in 2 .. n /\ i \in 1 .. n /\ i - 1 = m
      BY <2>2, <3>1
    <3>3. f[i] = f[i - 1] \o seqs[i]
      BY <1>5, <3>2
    <3>4. seqs[i] = param(q[i])
      BY <1>3, <3>2
    <3> QED
      BY <3>1, <3>2, <3>3, <3>4
  <2>5. \A i \in 1 .. (m + 1) : param(q[i]) \in Texts
    BY <1>2, <1>3, <2>2
  <2>6. \E new : Starts(q, m + 1, new, f[m] \o param(q[m + 1]))
    BY <2>2, <2>3, <2>5, MoreStarts
  <2> QED
    BY <2>1, <2>4, <2>6
<1>8. n - 1 \in T
  <2>1. n - 1 \in Nat
    BY <1>2
  <2> HIDE DEF T
  <2> QED
    BY <1>6, <1>7, <2>1, EveryNatural
<1>9. (n - 1) + 1 = n
  BY <1>2
<1> QED
  BY <1>2, <1>4, <1>5, <1>8, <1>9 DEF n

-----------------------------------------------------------------------------
(* The names and values of the requests fit into the buffers of the parser *)
(* and hold no symbol that stands for an encoded one.                      *)
Fitting ==
  \A q \in Requests : \A k \in DOMAIN q :
    /\ Len(q[k].name) < MaxName /\ Len(q[k].value) < MaxValue
    /\ Plain(q[k].name) /\ Plain(q[k].value)

(* A request that is received is at symbol j + 1 of pair k, and its parser *)
(* has the symbols of this pair before that.                               *)
IsPlace(r, off, k, j) ==
  /\ r.pairs \in Requests /\ Starts(r.pairs, Len(r.pairs), off, Body[r.pairs])
  /\ k \in 1 .. Len(r.pairs) /\ j \in 0 .. (Len(param(r.pairs[k])) - 1)
  /\ r.pos = off[k] + j
HasRead(nv, p, j) ==
  IF j <= Len(p.name)
  THEN nv.parsingValue = FALSE /\ nv.name = Coded(p.name, j) /\ nv.value = Empty
  ELSE /\ nv.parsingValue /\ nv.name = Coded(p.name, Len(p.name))
       /\ nv.value = Coded(p.value, j - Len(p.name) - 1)
Reads(r, off, k, j) ==
  IsPlace(r, off, k, j) /\ (Fitting /\ ~ignored(r.nv) => HasRead(r.nv, r.pairs[k], j))

ConfigType(r) ==
  /\ IsConfig(r) /\ "pairs" \in DOMAIN r /\ r.hash \in Hashes
  /\ \E off, k, j : Reads(r, off, k, j)

LEMMA RequestPairs ==
  ASSUME NEW q \in Requests
  PROVE  /\ q \in Seq(Pairs) /\ Len(q) \in Nat \ {0} /\ DOMAIN q = 1 .. Len(q)
         /\ \A k \in 1 .. Len(q) : q[k] \in Pairs /\ Len(param(q[k])) \in Nat /\ Len(param(q[k])) >= 2
<1>1. q \in Seq(Pairs) /\ q # <<>>
  <2>1. q # <<>> /\ q \in Seq([name : Seq(STRING), value : Seq(STRING)])
    BY AdministrationAssumption
  <2>2. STRING \subseteq Symbols
    BY DEF Symbols
  <2>3. [name : Seq(STRING), value : Seq(STRING)] \subseteq Pairs
    BY <2>2, SeqMonotonic DEF Pairs, Texts
  <2> QED
    BY <2>1, <2>3, SeqMonotonic
<1>2. Len(q) \in Nat \ {0} /\ DOMAIN q = 1 .. Len(q) /\ \A k \in 1 .. Len(q) : q[k] \in Pairs
  BY <1>1, LenProperties, EmptySeq
<1>3. ASSUME NEW p \in Pairs PROVE Len(param(p)) \in Nat /\ Len(param(p)) >= 2
  <2>1. p.name \in Texts /\ p.value \in Texts
    BY DEF Pairs
  <2>2. PICK n, v : n = Len(p.name) /\ v = Len(p.value)
    OBVIOUS
  <2>3. n \in Nat /\ v \in Nat
    BY <2>1, <2>2 DEF Texts
  <2>4. Len(param(p)) = n + v + 2
    BY <2>2, ParamIs
  <2> QED
    BY <2>3, <2>4
<1> QED
  BY <1>1, <1>2, <1>3

LEMMA PlaceIs ==
  ASSUME NEW r, NEW off, NEW k, NEW j, IsPlace(r, off, k, j)
  PROVE  /\ symbol(r) = param(r.pairs[k])[j + 1]
         /\ isLast(r) <=> k = Len(r.pairs) /\ j + 1 = Len(param(r.pairs[k]))
         /\ r.pos \in 0 .. (Len(Body[r.pairs]) - 1)
<1>1. PICK q : q = r.pairs
  OBVIOUS
<1>2. PICK l : l = Len(param(q[k]))
  OBVIOUS
<1>3. PICK n : n = Len(q)
  OBVIOUS
<1>4. /\ q \in Requests /\ Starts(q, n, off, Body[q]) /\ k \in 1 .. n /\ j \in 0 .. (l - 1)
      /\ r.pos = off[k] + j /\ n \in Nat /\ l \in Nat /\ \A i \in 1 .. n : Len(param(q[i])) \in Nat /\ Len(param(q[i])) >= 2
  BY <1>1, <1>2, <1>3, RequestPairs DEF IsPlace
<1>5. /\ off \in [1 .. (n + 1) -> Nat] /\ Len(Body[q]) = off[n + 1]
      /\ off[k + 1] = off[k] + l /\ off[k + 1] <= Len(Body[q])
      /\ \A i \in 1 .. l : Body[q][off[k] + i] = param(q[k])[i]
  BY <1>2, <1>4 DEF Starts
<1>6. off[k] \in Nat /\ off[k + 1] \in Nat /\ off[n + 1] \in Nat
  <2>1. k \in 1 .. (n + 1) /\ k + 1 \in 1 .. (n + 1) /\ n + 1 \in 1 .. (n + 1)
    BY <1>4
  <2> QED
    BY <2>1, <1>5
<1>7. j + 1 \in 1 .. l /\ off[k] + (j + 1) = r.pos + 1 /\ j \in Nat /\ j + 1 <= l
  <2>1. PICK a : a = off[k]
    OBVIOUS
  <2>2. PICK u : u = r.pos
    OBVIOUS
  <2>3. a \in Nat /\ u = a + j
    BY <2>1, <2>2, <1>4, <1>6
  <2>4. j + 1 \in 1 .. l /\ j \in Nat /\ j + 1 <= l /\ a + (j + 1) = u + 1
    BY <2>3, <1>4
  <2> QED
    BY <2>1, <2>2, <2>4
<1>8. symbol(r) = param(q[k])[j + 1]
  <2>1. Body[q][off[k] + (j + 1)] = param(q[k])[j + 1]
    BY <1>5, <1>7
  <2> QED
    BY <1>1, <1>7, <2>1 DEF symbol
<1>9. PICK a, b, total : a = off[k] /\ b = off[k + 1] /\ total = Len(Body[q])
  OBVIOUS
<1>10. a \in Nat /\ b \in Nat /\ total \in Nat /\ b = a + l /\ b <= total /\ r.pos = a + j
  BY <1>4, <1>5, <1>6, <1>9
<1>11. r.pos \in 0 .. (total - 1)
  BY <1>4, <1>7, <1>10
<1>12. isLast(r) <=> a + j + 1 = total
  BY <1>1, <1>9, <1>10 DEF isLast
<1>13. CASE k = n
  <2>1. b = total
    BY <1>5, <1>9, <1>13
  <2>2. isLast(r) <=> j + 1 = l
    BY <2>1, <1>4, <1>7, <1>10, <1>12
  <2> QED
    BY <1>1, <1>2, <1>3, <1>8, <1>9, <1>11, <1>13, <2>2
<1>14. CASE k # n
  <2>1. k + 1 \in 1 .. n
    BY <1>4, <1>14
  <2>2. PICK m, c : m = Len(param(q[k + 1])) /\ c = off[k + 1 + 1]
    OBVIOUS
  <2>3. m \in Nat /\ m >= 2
    BY <2>1, <2>2, <1>4
  <2>4. c = b + m /\ c <= total
    BY <2>1, <2>2, <1>4, <1>9 DEF Starts
  <2>5. ~(a + j + 1 = total)
    BY <2>3, <2>4, <1>4, <1>7, <1>10
  <2> QED
    BY <1>1, <1>2, <1>3, <1>8, <1>9, <1>11, <1>12, <1>14, <2>5
<1> QED
  BY <1>13, <1>14

(* The place after one more symbol. *)
LEMMA NextPlace ==
  ASSUME NEW r, NEW off, NEW k, NEW j, IsPlace(r, off, k, j), ~isLast(r),
         NEW s, s.pairs = r.pairs, s.pos = r.pos + 1
  PROVE  IF j + 1 < Len(param(r.pairs[k])) THEN IsPlace(s, off, k, j + 1) ELSE IsPlace(s, off, k + 1, 0)
<1>1. PICK q : q = r.pairs
  OBVIOUS
<1>2. PICK l : l = Len(param(q[k]))
  OBVIOUS
<1>3. PICK n : n = Len(q)
  OBVIOUS
<1>4. /\ q \in Requests /\ Starts(q, n, off, Body[q]) /\ k \in 1 .. n /\ j \in 0 .. (l - 1)
      /\ r.pos = off[k] + j /\ n \in Nat /\ l \in Nat /\ \A i \in 1 .. n : Len(param(q[i])) \in Nat /\ Len(param(q[i])) >= 2
  BY <1>1, <1>2, <1>3, RequestPairs DEF IsPlace
<1>5. /\ off \in [1 .. (n + 1) -> Nat] /\ off[k + 1] = off[k] + l
  BY <1>2, <1>4 DEF Starts
<1>6. off[k] \in Nat /\ off[k + 1] \in Nat
  <2>1. k \in 1 .. (n + 1) /\ k + 1 \in 1 .. (n + 1)
    BY <1>4
  <2> QED
    BY <2>1, <1>5
<1>7. ~(k = n /\ j + 1 = l)
  BY <1>1, <1>2, <1>3, PlaceIs
<1> DEFINE a == off[k]
           b == off[k + 1]
<1>8. a \in Nat /\ b \in Nat /\ b = a + l /\ s.pos = a + j + 1 /\ a + j + 1 = a + (j + 1)
  <2>1. r.pos = a + j /\ b = a + l /\ a \in Nat /\ b \in Nat
    BY <1>4, <1>5, <1>6
  <2> HIDE DEF a, b
  <2> QED
    BY <2>1, <1>4
<1>9. CASE j + 1 < l
  <2>1. j + 1 \in 0 .. (l - 1) /\ s.pos = off[k] + (j + 1)
    <3>1. s.pos = a + (j + 1)
      <4> HIDE DEF a, b
      <4> QED
        BY <1>8
    <3>2. j + 1 \in 0 .. (l - 1)
      <4> HIDE DEF a, b
      <4> QED
        BY <1>4, <1>9
    <3> QED
      BY <3>1, <3>2
  <2>2. IsPlace(s, off, k, j + 1)
    BY <1>1, <1>2, <1>3, <1>4, <2>1 DEF IsPlace
  <2> QED
    BY <1>1, <1>2, <1>9, <2>2
<1>10. CASE ~(j + 1 < l)
  <2>1. j + 1 = l /\ k + 1 \in 1 .. n
    BY <1>4, <1>7, <1>10
  <2>2. s.pos = off[k + 1] + 0
    <3>1. s.pos = b /\ b + 0 = b
      <4> HIDE DEF a, b
      <4>1. b + 0 = b
        BY <1>8
      <4>2. s.pos = a + l
        BY <2>1, <1>8
      <4> QED
        BY <4>1, <4>2, <1>8
    <3> QED
      BY <3>1
  <2>3. PICK m : m = Len(param(q[k + 1]))
    OBVIOUS
  <2>4. m \in Nat /\ m >= 2
    BY <2>1, <2>3, <1>4
  <2>5. 0 \in 0 .. (m - 1)
    BY <2>4
  <2>6. IsPlace(s, off, k + 1, 0)
    BY <1>1, <1>3, <1>4, <2>1, <2>2, <2>3, <2>5 DEF IsPlace
  <2> QED
    BY <1>1, <1>2, <1>10, <2>6
<1> QED
  BY <1>9, <1>10

(* One symbol of a pair. *)
LEMMA SymbolRead ==
  ASSUME NEW p \in Pairs, NEW nv, IsNv(nv), NEW j \in 0 .. (Len(param(p)) - 1), HasRead(nv, p, j),
         Len(p.name) < MaxName, Len(p.value) < MaxValue,
         NEW s, s = param(p)[j + 1]
  PROVE  LET next == parsed(nv, s)
         IN IF j + 1 < Len(param(p)) THEN HasRead(next, p, j + 1) /\ (next.parsingValue => s # "&")
            ELSE /\ next.parsingValue /\ s = "&"
                 /\ next.name = Coded(p.name, Len(p.name)) /\ next.value = Coded(p.value, Len(p.value))
<1>1. PICK n : n = Len(p.name)
  OBVIOUS
<1>2. PICK v : v = Len(p.value)
  OBVIOUS
<1>3. p.name \in Texts /\ p.value \in Texts
  BY DEF Pairs
<1>4. n \in Nat /\ v \in Nat /\ Len(param(p)) = n + v + 2 /\ j \in 0 .. (n + v + 1)
  <2>1. n \in Nat /\ v \in Nat
    BY <1>1, <1>2, <1>3 DEF Texts
  <2>2. Len(param(p)) = n + v + 2
    BY <1>1, <1>2, ParamIs
  <2> QED
    BY <2>1, <2>2
<1>5. MaxName \in Nat /\ MaxValue \in Nat /\ n < MaxName /\ v < MaxValue
  BY <1>1, <1>2, AdministrationAssumption
<1>6. PICK next : next = parsed(nv, s)
  OBVIOUS
<1>7. CASE j < n
  <2>1. s = encoded(p.name[j + 1]) /\ p.name[j + 1] \in Symbols
    <3>1. j + 1 \in 1 .. n
      BY <1>4, <1>7
    <3>2. param(p)[j + 1] = encoded(p.name[j + 1])
      BY <3>1, <1>1, ParamIs
    <3> QED
      BY <3>1, <3>2, <1>1, <1>3 DEF Texts
  <2>2. s # "="
    BY <2>1, EncodedSymbol
  <2>3. nv.parsingValue = FALSE /\ nv.name = Coded(p.name, j) /\ nv.value = Empty
    BY <1>1, <1>4, <1>7 DEF HasRead
  <2>4. Len(nv.name) = j
    BY <2>3, <1>1, <1>3, <1>4, <1>7, CodedIsText
  <2>5. append(nv.name, s, MaxName) = Coded(p.name, j + 1)
    <3>1. ~(Len(nv.name) >= MaxName)
      BY <2>4, <1>4, <1>5, <1>7
    <3>2. j \in 0 .. (Len(p.name) - 1)
      BY <1>1, <1>4, <1>7
    <3> QED
      BY <3>1, <3>2, <2>1, <2>3, <1>3, CodedMore DEF append
  <2>6. next.parsingValue = FALSE /\ next.name = Coded(p.name, j + 1) /\ next.value = Empty
    BY <2>2, <2>3, <2>5, <1>6 DEF parsed, IsNv
  <2>7. j + 1 < Len(param(p)) /\ j + 1 <= Len(p.name)
    BY <1>1, <1>4, <1>7
  <2> QED
    BY <2>6, <2>7, <1>6 DEF HasRead
<1>8. CASE j = n
  <2>1. s = "="
    BY <1>1, <1>8, ParamIs
  <2>2. nv.parsingValue = FALSE /\ nv.name = Coded(p.name, n) /\ nv.value = Empty
    BY <1>1, <1>4, <1>8 DEF HasRead
  <2>3. Len(nv.name) = n
    BY <2>2, <1>1, <1>3, <1>4, CodedIsText
  <2>4. close(nv.name, MaxName) = nv.name
    BY <2>3, <1>4, <1>5 DEF close
  <2>5. next.parsingValue /\ next.name = Coded(p.name, n) /\ next.value = Empty
    BY <2>1, <2>2, <2>4, <1>6 DEF parsed, IsNv
  <2>6. Coded(p.value, 0) = Empty
    BY <1>3, CodedNone
  <2>7. PICK i : i = j + 1
    OBVIOUS
  <2>8. i < Len(param(p)) /\ ~(i <= n) /\ i - n - 1 = 0
    BY <2>7, <1>4, <1>8
  <2>9. HasRead(next, p, i)
    BY <2>5, <2>6, <2>8, <1>1 DEF HasRead
  <2> QED
    BY <2>1, <2>7, <2>8, <2>9, <1>6
<1>9. CASE j > n
  <2>1. PICK i : i = j - n - 1
    OBVIOUS
  <2>2. i \in 0 .. v /\ j = n + 1 + i /\ ~(j <= n)
    BY <2>1, <1>4, <1>9
  <2>3. nv.parsingValue /\ nv.name = Coded(p.name, n) /\ nv.value = Coded(p.value, i)
    BY <2>1, <2>2, <1>1 DEF HasRead
  <2>4. Len(nv.value) = i
    BY <2>2, <2>3, <1>2, <1>3, CodedIsText
  <2>5. ~(Len(nv.value) >= MaxValue)
    BY <2>2, <2>4, <1>4, <1>5
  <2>6. CASE i < v
    <3>1. s = encoded(p.value[i + 1]) /\ p.value[i + 1] \in Symbols
      <4>1. i + 1 \in 1 .. v /\ j + 1 = n + 1 + (i + 1)
        BY <2>2, <2>6, <1>4
      <4>2. param(p)[n + 1 + (i + 1)] = encoded(p.value[i + 1])
        BY <4>1, <1>1, <1>2, ParamIs
      <4> QED
        BY <4>1, <4>2, <1>2, <1>3 DEF Texts
    <3>2. s # "&"
      BY <3>1, EncodedSymbol
    <3>3. append(nv.value, s, MaxValue) = Coded(p.value, i + 1)
      <4>1. i \in 0 .. (Len(p.value) - 1)
        BY <2>2, <2>6, <1>2, <1>4
      <4> QED
        BY <4>1, <3>1, <2>3, <2>5, <1>3, CodedMore DEF append
    <3>4. next.parsingValue /\ next.name = Coded(p.name, n) /\ next.value = Coded(p.value, i + 1)
      BY <2>3, <3>2, <3>3, <1>6 DEF parsed, IsNv
    <3>5. PICK u : u = j + 1
      OBVIOUS
    <3>6. u < Len(param(p)) /\ ~(u <= n) /\ u - n - 1 = i + 1
      BY <2>2, <2>6, <3>5, <1>4
    <3>7. HasRead(next, p, u)
      BY <3>4, <3>6, <1>1 DEF HasRead
    <3> QED
      BY <3>2, <3>5, <3>6, <3>7, <1>6
  <2>7. CASE i = v
    <3>1. j + 1 = n + v + 2
      BY <2>2, <2>7, <1>4
    <3>2. s = "&"
      BY <3>1, <1>1, <1>2, ParamIs
    <3>3. close(nv.value, MaxValue) = nv.value
      BY <2>5 DEF close
    <3>4. next.parsingValue /\ next.name = Coded(p.name, n) /\ next.value = Coded(p.value, v)
      BY <2>3, <2>7, <3>2, <3>3, <1>6 DEF parsed, IsNv
    <3>5. ~(j + 1 < Len(param(p)))
      BY <3>1, <1>4
    <3> QED
      BY <3>2, <3>4, <3>5, <1>1, <1>2, <1>6
  <2> QED
    BY <2>2, <2>6, <2>7, <1>4
<1> QED
  BY <1>4, <1>7, <1>8, <1>9

-----------------------------------------------------------------------------
(* Types.  A request that goes on is at its next place.                    *)
LEMMA ConfigGoesOnTyped ==
  ASSUME NEW r, ConfigType(r), ~isLast(r), NEW nv, IsNv(nv),
         ASSUME Fitting, ~ignored(nv), NEW off, NEW k, NEW j, Reads(r, off, k, j)
         PROVE  IF j + 1 < Len(param(r.pairs[k])) THEN HasRead(nv, r.pairs[k], j + 1)
                ELSE nv.parsingValue = FALSE /\ nv.name = Empty /\ nv.value = Empty
  PROVE  ConfigType([r EXCEPT !.pos = @ + 1, !.nv = nv])
<1> DEFINE s == [r EXCEPT !.pos = @ + 1, !.nv = nv]
<1>1. {"kind", "hash", "pos", "nv", "pairs"} \subseteq DOMAIN r /\ r.kind = "config" /\ r.hash \in Hashes
  BY DEF ConfigType, IsConfig
<1>2. s.pairs = r.pairs /\ s.pos = r.pos + 1 /\ s.nv = nv /\ s.hash = r.hash /\ s.kind = "config" /\ DOMAIN s = DOMAIN r
  BY <1>1
<1> HIDE DEF s
<1>3. PICK off, k, j : Reads(r, off, k, j)
  BY DEF ConfigType
<1>4. PICK q : q = r.pairs
  OBVIOUS
<1>5. IsPlace(r, off, k, j)
  BY <1>3 DEF Reads
<1>6. q \in Requests /\ k \in 1 .. Len(q) /\ j \in Nat
  <2>1. q \in Requests /\ k \in 1 .. Len(q) /\ j \in 0 .. (Len(param(q[k])) - 1)
    BY <1>4, <1>5 DEF IsPlace
  <2>2. Len(param(q[k])) \in Nat
    BY <2>1, RequestPairs
  <2> QED
    BY <2>1, <2>2
<1>7. CASE j + 1 < Len(param(q[k]))
  <2>1. IsPlace(s, off, k, j + 1)
    BY <1>2, <1>4, <1>5, <1>7, NextPlace
  <2>2. Fitting /\ ~ignored(nv) => HasRead(nv, q[k], j + 1)
    BY <1>3, <1>4, <1>7
  <2>3. Reads(s, off, k, j + 1)
    BY <1>2, <1>4, <2>1, <2>2 DEF Reads
  <2> QED
    BY <1>1, <1>2, <2>3 DEF ConfigType, IsConfig, s
<1>8. CASE ~(j + 1 < Len(param(q[k])))
  <2>1. IsPlace(s, off, k + 1, 0)
    BY <1>2, <1>4, <1>5, <1>8, NextPlace
  <2>2. Fitting /\ ~ignored(nv) => nv.parsingValue = FALSE /\ nv.name = Empty /\ nv.value = Empty
    BY <1>3, <1>4, <1>8
  <2>3. k + 1 \in 1 .. Len(q)
    BY <2>1, <1>2, <1>4 DEF IsPlace
  <2>4. PICK p : p = q[k + 1]
    OBVIOUS
  <2>5. p \in Pairs
    BY <1>6, <2>3, <2>4, RequestPairs
  <2>6. Coded(p.name, 0) = Empty /\ 0 <= Len(p.name)
    <3>1. p.name \in Texts
      BY <2>5 DEF Pairs
    <3> QED
      BY <3>1, CodedNone DEF Texts
  <2>7. Fitting /\ ~ignored(nv) => HasRead(nv, p, 0)
    BY <2>2, <2>6 DEF HasRead
  <2>8. Reads(s, off, k + 1, 0)
    BY <1>2, <1>4, <2>1, <2>4, <2>7 DEF Reads
  <2> QED
    BY <1>1, <1>2, <2>8 DEF ConfigType, IsConfig, s
<1> QED
  BY <1>7, <1>8

UploadType(r) ==
  /\ HasUploadFields(r) /\ "image" \in DOMAIN r
  /\ r.hash \in Hashes /\ r.image \in Images /\ r.pos \in 0 .. Pieces /\ r.since \in 0 .. LockMin
RequestType(r) == r = Idle \/ ConfigType(r) \/ UploadType(r)
ConnTypes == DOMAIN conn = Conns /\ \A c \in Conns : RequestType(conn[c])
IsSession(s) == s = Closed \/ s \in Seq(Images \X (1 .. Pieces))
IsImage(i) == i \in Images \cup {Factory}
OtherTypes ==
  /\ DOMAIN memory = Items /\ DOMAIN prefs \subseteq Items
  /\ wiped \in BOOLEAN /\ restart \in BOOLEAN
  /\ updateRunning \in 0 .. NoUpdate /\ IsSession(session) /\ IsImage(image)
AdminTypes == ConnTypes /\ OtherTypes

LEMMA OneTyped ==
  ASSUME ConnTypes, NEW c \in Conns, NEW r, RequestType(r), conn' = [conn EXCEPT ![c] = r]
  PROVE  ConnTypes'
BY DEF ConnTypes

LEMMA ReceivingTyped ==
  ASSUME ConnTypes, NEW c \in Conns, Receiving(c)
  PROVE  ConfigType(conn[c]) /\ IsNv(conn[c].nv)
BY DEF ConnTypes, RequestType, UploadType, HasUploadFields, Receiving, Idle, ConfigType, IsConfig

LEMMA SendingTyped ==
  ASSUME ConnTypes, NEW c \in Conns, Sending(c)
  PROVE  UploadType(conn[c])
BY DEF ConnTypes, RequestType, Sending, Idle, ConfigType, IsConfig

LEMMA AdvanceTyped ==
  ASSUME ConnTypes, NEW c \in Conns, Receiving(c), NEW nv, IsNv(nv), advance(c, nv),
         ASSUME Fitting, ~ignored(nv), NEW off, NEW k, NEW j, Reads(conn[c], off, k, j)
         PROVE  IF j + 1 < Len(param(conn[c].pairs[k])) THEN HasRead(nv, conn[c].pairs[k], j + 1)
                ELSE nv.parsingValue = FALSE /\ nv.name = Empty /\ nv.value = Empty
  PROVE  ConnTypes'
<1> DEFINE s == [conn[c] EXCEPT !.pos = @ + 1, !.nv = nv]
<1>1. CASE isLast(conn[c])
  <2>1. conn' = [conn EXCEPT ![c] = Idle]
    BY <1>1 DEF advance
  <2> QED
    BY <2>1, OneTyped DEF RequestType
<1>2. CASE ~isLast(conn[c])
  <2>1. conn' = [conn EXCEPT ![c] = s]
    BY <1>2 DEF advance
  <2>2. ConfigType(conn[c])
    BY ReceivingTyped
  <2>3. ConfigType(s)
    BY <1>2, <2>2, ConfigGoesOnTyped
  <2> HIDE DEF s
  <2> QED
    BY <2>1, <2>3, OneTyped DEF RequestType
<1> QED
  BY <1>1, <1>2

(* When a pair ends, the parser has its name and its value. *)
LEMMA ReadStep ==
  ASSUME Fitting, ConnTypes, NEW c \in Conns, Receiving(c), ~ignored(conn[c].nv),
         NEW off, NEW k, NEW j, Reads(conn[c], off, k, j)
  PROVE  LET r == conn[c]
             p == r.pairs[k]
             nv == parsed(r.nv, symbol(r))
         IN /\ valueDone(r, nv) <=> ~(j + 1 < Len(param(p)))
            /\ IF j + 1 < Len(param(p)) THEN HasRead(nv, p, j + 1)
               ELSE urlDecode(nv.name) = p.name /\ urlDecode(nv.value) = p.value
            /\ r.pairs \in Requests /\ k \in DOMAIN r.pairs
<1>1. PICK r : r = conn[c]
  OBVIOUS
<1>2. PICK p : p = r.pairs[k]
  OBVIOUS
<1>3. PICK nv : nv = parsed(r.nv, symbol(r))
  OBVIOUS
<1>4. IsNv(r.nv)
  BY <1>1, ReceivingTyped
<1>5. IsPlace(r, off, k, j) /\ HasRead(r.nv, p, j)
  BY <1>1, <1>2 DEF Reads
<1>6. r.pairs \in Requests /\ k \in DOMAIN r.pairs /\ k \in 1 .. Len(r.pairs) /\ p \in Pairs /\ j \in 0 .. (Len(param(p)) - 1)
  <2>1. r.pairs \in Requests /\ k \in 1 .. Len(r.pairs) /\ j \in 0 .. (Len(param(p)) - 1)
    BY <1>2, <1>5 DEF IsPlace
  <2> QED
    BY <1>2, <2>1, RequestPairs
<1>7. Len(p.name) < MaxName /\ Len(p.value) < MaxValue /\ Plain(p.name) /\ Plain(p.value)
  BY <1>2, <1>6 DEF Fitting
<1>8. symbol(r) = param(p)[j + 1] /\ (isLast(r) => j + 1 = Len(param(p)))
  BY <1>2, <1>5, PlaceIs
<1>9. IF j + 1 < Len(param(p)) THEN HasRead(nv, p, j + 1) /\ (nv.parsingValue => symbol(r) # "&")
      ELSE /\ nv.parsingValue /\ symbol(r) = "&"
           /\ nv.name = Coded(p.name, Len(p.name)) /\ nv.value = Coded(p.value, Len(p.value))
  BY <1>3, <1>4, <1>5, <1>6, <1>7, <1>8, SymbolRead
<1>10. CASE j + 1 < Len(param(p))
  <2>1. ~isLast(r)
    <3>1. PICK l : l = Len(param(p))
      OBVIOUS
    <3>2. j \in Nat /\ j + 1 < l
      BY <1>6, <1>10, <3>1, RequestPairs, <1>2
    <3> QED
      BY <1>8, <3>1, <3>2
  <2>2. ~valueDone(r, nv)
    BY <1>9, <1>10, <2>1 DEF valueDone
  <2> QED
    BY <1>1, <1>2, <1>3, <1>6, <1>9, <1>10, <2>2
<1>11. CASE ~(j + 1 < Len(param(p)))
  <2>1. valueDone(r, nv)
    BY <1>9, <1>11 DEF valueDone
  <2>2. p.name \in Texts /\ p.value \in Texts
    BY <1>6 DEF Pairs
  <2>3. urlDecode(nv.name) = p.name /\ urlDecode(nv.value) = p.value
    BY <1>7, <1>9, <1>11, <2>2, DecodeCoded
  <2> QED
    BY <1>1, <1>2, <1>3, <1>6, <1>11, <2>1, <2>3
<1> QED
  BY <1>10, <1>11

LEMMA NextPairEmpty ==
  ASSUME NEW ok
  PROVE  nextPair(ok).parsingValue = FALSE /\ nextPair(ok).name = Empty /\ nextPair(ok).value = Empty
BY DEF nextPair, NvInit

LEMMA ConfigTypes ==
  ASSUME ConnTypes, NEW c \in Conns, handleConfigRequestData(c)
  PROVE  ConnTypes'
<1> DEFINE nv == parsed(conn[c].nv, symbol(conn[c]))
<1>1. Receiving(c)
  BY DEF handleConfigRequestData, IgnoreData, ParseSymbol, CheckHash, StoreValue
<1>2. IsNv(conn[c].nv)
  BY <1>1, ReceivingTyped
<1>3. IsNv(nv) /\ nv.notFirst = conn[c].nv.notFirst /\ nv.hashChecked = conn[c].nv.hashChecked
  BY <1>2, ParsedForm
<1>4. CASE IgnoreData(c)
  BY <1>1, <1>2, <1>4, AdvanceTyped DEF IgnoreData
<1>5. CASE ParseSymbol(c)
  <2>1. ~ignored(conn[c].nv) /\ ~valueDone(conn[c], nv) /\ advance(c, nv)
    BY <1>5 DEF ParseSymbol
  <2>2. ASSUME Fitting, NEW off, NEW k, NEW j, Reads(conn[c], off, k, j)
        PROVE  j + 1 < Len(param(conn[c].pairs[k])) /\ HasRead(nv, conn[c].pairs[k], j + 1)
    BY <1>1, <2>1, <2>2, ReadStep
  <2> HIDE DEF nv
  <2> QED
    BY <1>1, <1>3, <2>1, <2>2, AdvanceTyped
<1>6. ASSUME NEW ok \in BOOLEAN, ~ignored(conn[c].nv), valueDone(conn[c], nv), advance(c, nextPair(ok))
      PROVE  ConnTypes'
  <2>1. IsNv(nextPair(ok))
    BY NextPairForm
  <2>2. ASSUME Fitting, NEW off, NEW k, NEW j, Reads(conn[c], off, k, j)
        PROVE  ~(j + 1 < Len(param(conn[c].pairs[k])))
    BY <1>1, <1>6, <2>2, ReadStep
  <2> HIDE DEF nv
  <2> QED
    BY <1>1, <1>6, <2>1, <2>2, NextPairEmpty, AdvanceTyped
<1>7. CASE CheckHash(c)
  <2> DEFINE ok == nv.name = HashName /\ hashOk(conn[c], nv)
  <2>1. valueDone(conn[c], nv) /\ advance(c, nextPair(ok)) /\ ~conn[c].nv.notFirst
    BY <1>7 DEF CheckHash
  <2>2. ok \in BOOLEAN /\ ~ignored(conn[c].nv)
    BY <2>1 DEF hashOk, ignored
  <2> HIDE DEF ok, nv
  <2> QED
    BY <1>6, <2>1, <2>2
<1>8. CASE StoreValue(c)
  <2>1. valueDone(conn[c], nv) /\ advance(c, nextPair(TRUE)) /\ ~ignored(conn[c].nv)
    BY <1>8 DEF StoreValue
  <2> HIDE DEF nv
  <2> QED
    BY <1>6, <2>1
<1> QED
  BY <1>4, <1>5, <1>7, <1>8 DEF handleConfigRequestData

(* Every stored value is the whole value of a pair of a request. *)
LEMMA StoredIsAsked ==
  ASSUME ConnTypes, Fitting, NEW c \in Conns, StoreValue(c)
  PROVE  \/ prefs' = prefs
         \/ \E i \in Items : \E v \in Asked(i) : prefs' = putString(prefs, i, v)
<1> DEFINE nv == parsed(conn[c].nv, symbol(conn[c]))
           i == urlDecode(nv.name)
           v == urlDecode(nv.value)
<1>1. /\ Receiving(c) /\ ~ignored(conn[c].nv) /\ valueDone(conn[c], nv)
      /\ IF updates(memory, i, v) THEN store(i, v) ELSE keep
  BY DEF StoreValue
<1>2. PICK off, k, j : Reads(conn[c], off, k, j)
  BY <1>1, ReceivingTyped DEF ConfigType
<1>3. PICK q : q = conn[c].pairs
  OBVIOUS
<1>4. q \in Requests /\ k \in DOMAIN q /\ i = q[k].name /\ v = q[k].value
  BY <1>1, <1>2, <1>3, ReadStep
<1> HIDE DEF i, v
<1>5. v \in Asked(i)
  BY <1>4 DEF Asked
<1>6. prefs' = prefs \/ (i \in Items /\ prefs' = putString(prefs, i, v))
  BY <1>1 DEF store, keep, flash, updates, isKnown
<1> QED
  BY <1>5, <1>6

LEMMA StoreTypes ==
  ASSUME AdminTypes, NEW i, NEW v, store(i, v), i \in Items
  PROVE  DOMAIN prefs' \subseteq Items /\ wiped' \in BOOLEAN
BY DEF AdminTypes, OtherTypes, store, putString

LEMMA ConfigOtherTypes ==
  ASSUME AdminTypes, NEW c \in Conns, handleConfigRequestData(c)
  PROVE  OtherTypes'
<1> DEFINE nv == parsed(conn[c].nv, symbol(conn[c]))
<1>1. UNCHANGED <<memory, update>>
  BY DEF handleConfigRequestData, IgnoreData, ParseSymbol, CheckHash, StoreValue
<1>2. Receiving(c) /\ IsNv(conn[c].nv)
  <2>1. Receiving(c)
    BY DEF handleConfigRequestData, IgnoreData, ParseSymbol, CheckHash, StoreValue
  <2> QED
    BY <2>1, ReceivingTyped DEF AdminTypes
<1>3. restart' \in BOOLEAN
  <2>1. isLast(conn[c]) \in BOOLEAN /\ restart \in BOOLEAN
    BY DEF isLast, AdminTypes, OtherTypes
  <2>2. (restart' = restart) \/ \E b : restart' = (restart \/ b)
    BY DEF handleConfigRequestData, IgnoreData, ParseSymbol, CheckHash, StoreValue
  <2> QED
    BY <2>1, <2>2
<1>4. DOMAIN prefs' \subseteq Items /\ wiped' \in BOOLEAN
  <2>1. CASE UNCHANGED flash
    BY <2>1 DEF flash, AdminTypes, OtherTypes
  <2>2. CASE \E i, v : updates(memory, i, v) /\ store(i, v)
    BY <2>2, StoreTypes DEF updates, isKnown
  <2>3. UNCHANGED flash \/ \E i, v : updates(memory, i, v) /\ store(i, v)
    BY DEF handleConfigRequestData, IgnoreData, ParseSymbol, CheckHash, StoreValue, keep
  <2> QED
    BY <2>1, <2>2, <2>3
<1> QED
  BY <1>1, <1>3, <1>4 DEF AdminTypes, OtherTypes, update

(* An upload: the chunks it writes and those it skips. *)
BegunType(r) ==
  /\ HasUploadFields(r) /\ "image" \in DOMAIN r
  /\ r.hash \in Hashes /\ r.image \in Images /\ r.pos \in 0 .. (Pieces - 1) /\ r.since \in 0 .. LockMin

LEMMA ChunkTyped ==
  ASSUME NEW r, BegunType(r), NEW e
  PROVE  UploadType([r EXCEPT !.pos = @ + 1]) /\ UploadType([r EXCEPT !.pos = @ + 1, !.error = e])
<1>1. r.pos + 1 \in 0 .. Pieces /\ r.pos + 1 \in Nat
  <2>1. PICK n : n = r.pos
    OBVIOUS
  <2>2. n \in 0 .. (Pieces - 1)
    BY <2>1 DEF BegunType
  <2> QED
    BY <2>1, <2>2, AdministrationAssumption
<1> QED
  BY <1>1 DEF UploadType, BegunType, HasUploadFields

LEMMA FailTypes ==
  ASSUME AdminTypes, NEW c \in Conns, NEW r, BegunType(r), fail(c, r)
  PROVE  ConnTypes' /\ IsSession(session') /\ IsImage(image')
<1> DEFINE s == [r EXCEPT !.pos = @ + 1, !.error = "failed"]
<1>1. UploadType(s) /\ conn' = [conn EXCEPT ![c] = s]
  BY ChunkTyped DEF fail
<1> HIDE DEF s
<1>2. ConnTypes'
  BY <1>1, OneTyped DEF AdminTypes, RequestType
<1> QED
  BY <1>2 DEF fail, IsSession, AdminTypes, OtherTypes

LEMMA SkipTypes ==
  ASSUME AdminTypes, NEW c \in Conns, NEW r, BegunType(r), skip(c, r)
  PROVE  ConnTypes' /\ IsSession(session') /\ IsImage(image')
<1> DEFINE s == [r EXCEPT !.pos = @ + 1]
<1>1. UploadType(s) /\ conn' = [conn EXCEPT ![c] = s]
  BY ChunkTyped DEF skip
<1> HIDE DEF s
<1>2. ConnTypes'
  BY <1>1, OneTyped DEF AdminTypes, RequestType
<1> QED
  BY <1>2 DEF skip, AdminTypes, OtherTypes

LEMMA WriteTypes ==
  ASSUME AdminTypes, NEW c \in Conns, NEW r, BegunType(r), NEW chunks, IsSession(chunks), write(c, r, chunks)
  PROVE  ConnTypes' /\ IsSession(session') /\ IsImage(image')
<1>1. CASE fail(c, r)
  BY <1>1, FailTypes
<1>2. CASE ~fail(c, r)
  <2> DEFINE s == [r EXCEPT !.pos = @ + 1]
             piece == <<r.image, r.pos + 1>>
             done == Append(chunks, piece)
  <2>1. /\ chunks # Closed /\ conn' = [conn EXCEPT ![c] = s]
        /\ session' \in {Closed, done} /\ image' \in {image, r.image}
    BY <1>2 DEF write
  <2>2. UploadType(s)
    BY ChunkTyped
  <2>3. piece \in Images \X (1 .. Pieces)
    <3>1. PICK n : n = r.pos
      OBVIOUS
    <3>2. n \in 0 .. (Pieces - 1) /\ r.image \in Images
      BY <3>1 DEF BegunType
    <3>3. n + 1 \in 1 .. Pieces
      BY <3>2, AdministrationAssumption
    <3> QED
      BY <3>1, <3>2, <3>3
  <2>4. done \in Seq(Images \X (1 .. Pieces))
    <3> HIDE DEF piece
    <3> QED
      BY <2>1, <2>3 DEF IsSession
  <2> HIDE DEF s, done
  <2>5. ConnTypes'
    BY <2>1, <2>2, OneTyped DEF AdminTypes, RequestType
  <2> QED
    BY <2>1, <2>4, <2>5 DEF IsSession, IsImage, AdminTypes, OtherTypes, BegunType
<1> QED
  BY <1>1, <1>2

LEMMA UploadTypes ==
  ASSUME AdminTypes, NEW c \in Conns, updateHandler(c)
  PROVE  AdminTypes'
<1>1. Sending(c) /\ UploadType(conn[c])
  <2>1. Sending(c)
    BY DEF updateHandler, UploadStart, UploadChunk, UploadFinish
  <2> QED
    BY <2>1, SendingTyped DEF AdminTypes
<1>2. LockMin \in Nat /\ LockMax \in Nat /\ NoUpdate \in 0 .. NoUpdate /\ 0 \in 0 .. NoUpdate
  BY AdministrationAssumption DEF NoUpdate
<1>3. CASE UploadStart(c)
  <2>1. conn[c].pos = 0 /\ UNCHANGED <<memory, flash, restart>>
    BY <1>3 DEF UploadStart
  <2>2. PICK other \in otherUpdate :
          LET error == IF other THEN "other" ELSE IF checkPass(memory, conn[c].hash) THEN "" ELSE "failed"
              r == [conn[c] EXCEPT !.error = error, !.alone = error = "" /\ Alone(c)]
          IN /\ updateRunning' = lockTime(other)
             /\ IF error = "" THEN fail(c, r) \/ write(c, r, Empty) ELSE skip(c, r)
    BY <1>3 DEF UploadStart
  <2> DEFINE error == IF other THEN "other" ELSE IF checkPass(memory, conn[c].hash) THEN "" ELSE "failed"
             r == [conn[c] EXCEPT !.error = error, !.alone = error = "" /\ Alone(c)]
  <2>3. BegunType(r)
    <3> DEFINE b == error = "" /\ Alone(c)
    <3>1. 0 \in 0 .. (Pieces - 1)
      BY AdministrationAssumption
    <3> HIDE DEF b, error
    <3> QED
      BY <1>1, <2>1, <3>1 DEF BegunType, UploadType, HasUploadFields, b
  <2>4. fail(c, r) \/ write(c, r, Empty) \/ skip(c, r)
    BY <2>2
  <2> HIDE DEF r, error
  <2>5. IsSession(Empty)
    BY DEF IsSession, Empty
  <2>6. ConnTypes' /\ IsSession(session') /\ IsImage(image')
    BY <2>3, <2>4, <2>5, FailTypes, WriteTypes, SkipTypes
  <2>7. updateRunning' \in 0 .. NoUpdate
    BY <2>2, <1>2 DEF lockTime, AdminTypes, OtherTypes
  <2> QED
    BY <2>1, <2>6, <2>7 DEF AdminTypes, OtherTypes, flash
<1>4. CASE UploadChunk(c)
  <2>1. /\ conn[c].pos \in 1 .. (Pieces - 1) /\ UNCHANGED <<memory, flash, restart, updateRunning>>
        /\ write(c, conn[c], session) \/ skip(c, conn[c])
    BY <1>4 DEF UploadChunk
  <2>2. BegunType(conn[c])
    BY <1>1, <2>1 DEF BegunType, UploadType
  <2>3. ConnTypes' /\ IsSession(session') /\ IsImage(image')
    BY <2>1, <2>2, WriteTypes, SkipTypes DEF AdminTypes, OtherTypes
  <2> QED
    BY <2>1, <2>3 DEF AdminTypes, OtherTypes, flash
<1>5. CASE UploadFinish(c)
  <2>1. /\ conn' = [conn EXCEPT ![c] = Idle] /\ UNCHANGED <<memory, flash, session, image>>
        /\ updateRunning' \in {updateRunning, NoUpdate} /\ restart' \in BOOLEAN
    BY <1>5 DEF UploadFinish, unlocked, AdminTypes, OtherTypes
  <2>2. ConnTypes'
    BY <2>1, OneTyped DEF AdminTypes, RequestType
  <2> QED
    BY <2>1, <2>2, <1>2 DEF AdminTypes, OtherTypes, flash
<1> QED
  BY <1>3, <1>4, <1>5 DEF updateHandler

LEMMA PostTypes ==
  ASSUME AdminTypes, NEW c \in Conns, PostConfig(c) \/ PostUpdate(c) \/ Disconnect(c)
  PROVE  AdminTypes'
<1>1. OtherTypes'
  BY DEF AdminTypes, OtherTypes, PostConfig, PostUpdate, Disconnect, flash, update
<1>2. CASE PostConfig(c)
  <2>1. PICK q \in Requests, h \in Hashes :
          conn' = [conn EXCEPT ![c] = [kind |-> "config", hash |-> h, pairs |-> q, pos |-> 0, nv |-> NvInit]]
    BY <1>2 DEF PostConfig
  <2> DEFINE r == [kind |-> "config", hash |-> h, pairs |-> q, pos |-> 0, nv |-> NvInit]
  <2>2. IsConfig(r) /\ "pairs" \in DOMAIN r /\ r.hash \in Hashes /\ r.pairs = q /\ r.pos = 0 /\ r.nv = NvInit
    <3>1. IsNv(NvInit)
      BY DEF IsNv, NvInit
    <3> QED
      BY <3>1 DEF IsConfig
  <2> HIDE DEF r
  <2>3. PICK off : Starts(q, Len(q), off, Body[q])
    BY BodyStarts
  <2>4. 1 \in 1 .. Len(q) /\ q[1] \in Pairs /\ 0 \in 0 .. (Len(param(q[1])) - 1)
    <3>1. Len(q) \in Nat \ {0}
      BY RequestPairs
    <3>2. 1 \in 1 .. Len(q)
      BY <3>1
    <3> QED
      BY <3>2, RequestPairs
  <2>5. IsPlace(r, off, 1, 0)
    <3>1. off[1] + 0 = 0
      BY <2>3 DEF Starts
    <3> QED
      BY <2>2, <2>3, <2>4, <3>1 DEF IsPlace
  <2>6. HasRead(NvInit, q[1], 0)
    <3>1. q[1].name \in Texts
      BY <2>4 DEF Pairs
    <3> QED
      BY <3>1, CodedNone DEF HasRead, NvInit, Texts
  <2>7. ConfigType(r)
    BY <2>2, <2>5, <2>6 DEF ConfigType, Reads
  <2> QED
    BY <1>1, <2>1, <2>7, OneTyped DEF AdminTypes, RequestType, r
<1>3. CASE PostUpdate(c)
  <2>1. PICK i \in Images, h \in Hashes :
          conn' = [conn EXCEPT ![c] = [kind |-> "upload", hash |-> h, image |-> i, pos |-> 0, error |-> "",
                                       alone |-> FALSE, since |-> 0]]
    BY <1>3 DEF PostUpdate
  <2> DEFINE r == [kind |-> "upload", hash |-> h, image |-> i, pos |-> 0, error |-> "",
                   alone |-> FALSE, since |-> 0]
  <2>2. 0 \in 0 .. Pieces /\ 0 \in 0 .. LockMin
    BY AdministrationAssumption
  <2>3. UploadType(r)
    BY <2>2 DEF UploadType, HasUploadFields
  <2> HIDE DEF r
  <2> QED
    BY <1>1, <2>1, <2>3, OneTyped DEF AdminTypes, RequestType, r
<1>4. CASE Disconnect(c)
  BY <1>1, <1>4, OneTyped DEF AdminTypes, RequestType, Disconnect
<1> QED
  BY <1>2, <1>3, <1>4

(* Time passes: the age of a hash does not matter for the place. *)
LEMMA OlderIs == ASSUME NEW m \in Nat, NEW n \in 0 .. m PROVE older(n, m) \in 0 .. m
BY DEF older

LEMMA AgedTyped ==
  ASSUME NEW r, RequestType(r)
  PROVE  RequestType(aged(r))
<1>1. Windows \in Nat /\ LockMin \in Nat
  BY ConfigAssumption, AdministrationAssumption
<1>2. ASSUME NEW h \in Hashes PROVE [h EXCEPT !.age = older(@, Windows)] \in Hashes
  <2>1. older(h.age, Windows) \in 0 .. Windows
    BY <1>1, OlderIs DEF Hashes
  <2> QED
    BY <2>1 DEF Hashes
<1>3. CASE r = Idle
  BY <1>3 DEF aged, Idle, RequestType
<1>4. CASE ConfigType(r)
  <2>1. IsConfig(r) /\ r.hash \in Hashes /\ "pairs" \in DOMAIN r
    BY <1>4 DEF ConfigType
  <2> DEFINE h == [r.hash EXCEPT !.age = older(@, Windows)]
  <2>2. PICK g : g = h
    OBVIOUS
  <2>3. PICK s : s = [r EXCEPT !.hash = g]
    OBVIOUS
  <2>4. aged(r) = r \/ aged(r) = s
    BY <2>1, <2>2, <2>3 DEF aged, IsConfig
  <2>5. /\ s.pairs = r.pairs /\ s.pos = r.pos /\ s.nv = r.nv /\ s.hash = g /\ s.kind = r.kind
        /\ DOMAIN s = DOMAIN r /\ g \in Hashes
    BY <1>2, <2>1, <2>2, <2>3 DEF IsConfig
  <2>6. ASSUME NEW off, NEW k, NEW j, Reads(r, off, k, j) PROVE Reads(s, off, k, j)
    BY <2>5, <2>6 DEF Reads, IsPlace
  <2>7. ConfigType(s)
    BY <1>4, <2>5, <2>6 DEF ConfigType, IsConfig
  <2> QED
    BY <1>4, <2>4, <2>7 DEF RequestType
<1>5. CASE UploadType(r)
  <2>1. HasUploadFields(r) /\ r.hash \in Hashes /\ r.since \in 0 .. LockMin /\ "image" \in DOMAIN r
    BY <1>5 DEF UploadType
  <2>2. PICK g : g = [r.hash EXCEPT !.age = older(@, Windows)]
    OBVIOUS
  <2>3. PICK n : n = (IF r.alone THEN older(r.since, LockMin) ELSE r.since)
    OBVIOUS
  <2>4. g \in Hashes /\ n \in 0 .. LockMin /\ n \in Nat
    BY <1>1, <1>2, <2>1, <2>2, <2>3, OlderIs
  <2>5. aged(r) = IF r.pos = 0 THEN [r EXCEPT !.hash = g] ELSE [r EXCEPT !.since = n]
    BY <2>1, <2>2, <2>3 DEF aged, HasUploadFields
  <2>6. UploadType([r EXCEPT !.hash = g]) /\ UploadType([r EXCEPT !.since = n])
    BY <1>5, <2>4 DEF UploadType, HasUploadFields
  <2> QED
    BY <2>5, <2>6 DEF RequestType
<1> QED
  BY <1>3, <1>4, <1>5 DEF RequestType

LEMMA TypesNext == ASSUME AdminTypes, [Next]_vars PROVE AdminTypes'
<1>1. NoUpdate \in Nat /\ NoUpdate \in 0 .. NoUpdate
  BY AdministrationAssumption DEF NoUpdate
<1>2. ASSUME NEW c \in Conns, WebTask(c) PROVE AdminTypes'
  <2>1. CASE handleConfigRequestData(c)
    BY <2>1, ConfigTypes, ConfigOtherTypes DEF AdminTypes
  <2> QED
    BY <1>2, <2>1, PostTypes, UploadTypes DEF WebTask
<1>3. CASE MainLoop
  <2>1. UNCHANGED <<memory, conn, update>> /\ restart' \in BOOLEAN
    BY <1>3 DEF MainLoop, ResetRequest, ResetConfigRequest, FactoryResetRequest
  <2>2. DOMAIN prefs' \subseteq Items /\ wiped' \in BOOLEAN
    <3>1. DOMAIN Empty = {}
      BY DEF Empty
    <3> QED
      BY <1>3, <3>1 DEF MainLoop, ResetRequest, ResetConfigRequest, FactoryResetRequest, reset, flash,
                       AdminTypes, OtherTypes
  <2> QED
    BY <2>1, <2>2 DEF AdminTypes, OtherTypes, update, ConnTypes
<1>4. CASE Restart \/ PowerLoss
  <2>1. Start
    BY <1>4 DEF Restart, PowerLoss
  <2>2. ConnTypes'
    BY <2>1 DEF Start, ConnTypes, RequestType
  <2> QED
    BY <1>1, <2>1, <2>2 DEF Start, AdminTypes, OtherTypes, loadConfig, IsSession
<1>5. CASE Tick
  <2>1. conn' = [c \in Conns |-> aged(conn[c])] /\ updateRunning' = older(updateRunning, NoUpdate)
        /\ UNCHANGED <<memory, flash, restart, session, image>>
    BY <1>5 DEF Tick
  <2>2. ConnTypes'
    BY <2>1, AgedTyped DEF AdminTypes, ConnTypes
  <2>3. updateRunning' \in 0 .. NoUpdate
    BY <1>1, <2>1, OlderIs DEF AdminTypes, OtherTypes
  <2> QED
    BY <2>1, <2>2, <2>3 DEF AdminTypes, OtherTypes, flash
<1>6. CASE UNCHANGED vars
  BY <1>6 DEF AdminTypes, ConnTypes, OtherTypes, vars
<1> QED
  BY <1>2, <1>3, <1>4, <1>5, <1>6 DEF Next

LEMMA TypesAtStart == ASSUME Init PROVE AdminTypes
<1>1. NoUpdate \in 0 .. NoUpdate
  BY AdministrationAssumption DEF NoUpdate
<1>2. DOMAIN prefs \subseteq Items
  BY AdministrationAssumption DEF Init
<1> QED
  BY <1>1, <1>2 DEF Init, AdminTypes, ConnTypes, RequestType, OtherTypes, loadConfig, IsSession, IsImage

LEMMA TypesAreOK == ASSUME AdminTypes PROVE TypeOK
<1>1. ASSUME NEW c \in Conns, ConfigType(conn[c])
      PROVE  /\ Receiving(c) /\ conn[c].hash \in Hashes /\ conn[c].pairs \in Requests
             /\ conn[c].pos \in 0 .. Len(Body[conn[c].pairs]) - 1
  <2>1. PICK r : r = conn[c]
    OBVIOUS
  <2>2. IsConfig(r) /\ r.hash \in Hashes /\ \E off, k, j : Reads(r, off, k, j)
    BY <1>1, <2>1 DEF ConfigType
  <2>3. PICK off, k, j : Reads(r, off, k, j)
    BY <2>2
  <2>4. IsPlace(r, off, k, j)
    BY <2>3 DEF Reads
  <2>5. r.pairs \in Requests
    BY <2>4 DEF IsPlace
  <2>6. r.pos \in 0 .. (Len(Body[r.pairs]) - 1)
    BY <2>4, PlaceIs
  <2>7. r.kind = "config"
    BY <2>2 DEF IsConfig
  <2> QED
    BY <2>1, <2>2, <2>5, <2>6, <2>7 DEF Receiving
<1>2. ASSUME NEW c \in Conns, UploadType(conn[c])
      PROVE  /\ Sending(c) /\ conn[c].hash \in Hashes /\ conn[c].image \in Images
             /\ conn[c].pos \in 0 .. Pieces /\ conn[c].since \in 0 .. LockMin
  BY <1>2 DEF UploadType, HasUploadFields, Sending
<1> QED
  BY <1>1, <1>2 DEF AdminTypes, ConnTypes, RequestType, OtherTypes, IsSession, IsImage, TypeOK

(* Names, places and counters keep their bounds, whatever the clients send *)
(* and in whatever pieces: only items have keys (updateValue), the parser  *)
(* stays inside the body, a session holds chunks of the images, and the age*)
(* of the lock is counted to its end (handleConfigRequestData, GwUpdate).  *)
THEOREM AdministrationTypes == Spec => []TypeOK
<1>1. Init => AdminTypes
  BY TypesAtStart
<1>2. AdminTypes /\ [Next]_vars => AdminTypes'
  BY TypesNext
<1>3. AdminTypes => TypeOK
  BY TypesAreOK
<1> QED
  BY <1>1, <1>2, <1>3, PTL DEF Spec

LEMMA StoredNext ==
  ASSUME AdminTypes, Fitting, StoredWhole, [Next]_vars
  PROVE  StoredWhole'
<1>1. ASSUME prefs' = prefs PROVE StoredWhole'
  BY <1>1 DEF StoredWhole
<1>2. ASSUME NEW i \in Items, NEW v \in Asked(i), prefs' = putString(prefs, i, v) PROVE StoredWhole'
  BY <1>2 DEF StoredWhole, putString
<1>3. ASSUME prefs' = Empty PROVE StoredWhole'
  <2>1. DOMAIN Empty = {}
    BY DEF Empty
  <2> QED
    BY <1>3, <2>1 DEF StoredWhole
<1>4. ASSUME NEW c \in Conns, WebTask(c) PROVE StoredWhole'
  <2>1. CASE StoreValue(c)
    BY <1>1, <1>2, <2>1, StoredIsAsked DEF AdminTypes
  <2>2. CASE ~StoreValue(c)
    <3>1. prefs' = prefs
      BY <1>4, <2>2 DEF WebTask, PostConfig, PostUpdate, Disconnect, handleConfigRequestData, IgnoreData,
                       ParseSymbol, CheckHash, updateHandler, UploadStart, UploadChunk, UploadFinish, flash
    <3> QED
      BY <1>1, <3>1
  <2> QED
    BY <2>1, <2>2
<1>5. CASE MainLoop
  BY <1>1, <1>3, <1>5 DEF MainLoop, ResetRequest, ResetConfigRequest, FactoryResetRequest, reset, flash
<1>6. CASE Restart \/ PowerLoss \/ Tick \/ UNCHANGED vars
  BY <1>1, <1>6 DEF Restart, PowerLoss, Start, Tick, flash, vars
<1> QED
  BY <1>4, <1>5, <1>6 DEF Next

(* Whatever the chunks, the order of the connections and the moment one of *)
(* them breaks: what setConfig stores for an item is a value that a client *)
(* asked for, whole and under its own name, if names and values fit into   *)
(* the buffers of the parser (a longer value loses its beginning).         *)
THEOREM ValuesStoredWhole == ASSUME Fitting PROVE Spec => []StoredWhole
<1>1. Init => AdminTypes /\ StoredWhole
  BY TypesAtStart DEF Init, StoredWhole
<1>2. AdminTypes /\ StoredWhole /\ [Next]_vars => (AdminTypes /\ StoredWhole)'
  BY TypesNext, StoredNext
<1> QED
  BY <1>1, <1>2, PTL DEF Spec
=============================================================================
