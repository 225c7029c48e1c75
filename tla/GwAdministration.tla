-------------------------- MODULE GwAdministration --------------------------
(***************************************************************************)
(* What changes the gateway for its next start: setConfig, reset and       *)
(* resetConfig (src/main.cpp), the upload of a firmware                    *)
(* (lib/gwupdate/GwUpdate.cpp), the reset button, and the restart.         *)
(*                                                                         *)
(* The web task gets the data of several connections in pieces, in any     *)
(* order; a connection may break.  setConfig parses its body symbol by     *)
(* symbol and keeps its place in the request: a call with a longer chunk   *)
(* is a run of the steps below.  The main loop runs reset and resetConfig  *)
(* between any two of them, and the device may lose its power.  Time is    *)
(* counted in windows of 8 seconds, the unit of the salt.                  *)
(*                                                                         *)
(* Bound: while a setConfig is received no upload begins, and the other    *)
(* way round.  The two share the password and the restart only.            *)
(***************************************************************************)
EXTENDS GwConfigHandler, SequencesExt

CONSTANTS
  Conns,           (* connections of the web server                        *)
  Requests,        (* the bodies a client may send: pairs of name and value*)
  Passwords,       (* the passwords that clients try                       *)
  HashName,        (* the name of the first parameter                      *)
  MaxName,         (* length of the buffer for a name: 32                  *)
  MaxValue,        (* and of that for a value: 511                         *)
  Images, Pieces,  (* firmware files, and the chunks each of them has      *)
  Factory,         (* the firmware that was there first                    *)
  Earlier,         (* what earlier starts may have stored                  *)
  LockMin, LockMax (* after so many windows the 60 s of updateRunning may, *)
                   (* and must, be over: 7 and 8                           *)

ASSUME AdministrationAssumption ==
  /\ MaxName \in Nat \ {0} /\ MaxValue \in Nat \ {0} /\ Pieces \in Nat \ {0}
  /\ LockMin \in Nat \ {0} /\ LockMax \in Nat /\ LockMin <= LockMax
  /\ \A q \in Requests : q # <<>> /\ q \in Seq([name : Seq(STRING), value : Seq(STRING)])
  /\ \A p \in Earlier : DOMAIN p \subseteq Items

VARIABLES
  memory,          (* the configuration the gateway works with             *)
  prefs,           (* the stored one                                       *)
  wiped,           (* the NVS partition was erased under the library       *)
  restart,         (* a restart is pending                                 *)
  conn,            (* the requests in progress                             *)
  updateRunning,   (* windows since it was set, NoUpdate when it is over   *)
  session,         (* chunks in the spare partition, or Closed             *)
  image            (* the firmware to start next                           *)

vars == <<memory, prefs, wiped, restart, conn, updateRunning, session, image>>
flash == <<prefs, wiped>>
update == <<updateRunning, session, image>>

NoUpdate == LockMax + 1
Closed == <<<<Factory, 0>>>>
Idle == [kind |-> "idle"]
Hashes == [age : 0 .. Windows, pass : Passwords]

-----------------------------------------------------------------------------
(* The body of setConfig: name=value&...name=value& with encodeURIComponent *)
(* for each name and value, and back.                                       *)
encoded(s) == IF s = "&" THEN "%26" ELSE IF s = "=" THEN "%3D" ELSE s
urlDecode(text) ==
  [k \in DOMAIN text |-> IF text[k] = "%26" THEN "&" ELSE IF text[k] = "%3D" THEN "=" ELSE text[k]]
encodeURIComponent(text) == [k \in DOMAIN text |-> encoded(text[k])]

param(p) == encodeURIComponent(p.name) \o <<"=">> \o encodeURIComponent(p.value) \o <<"&">>
bodyOf(pairs) == FlattenSeq([k \in DOMAIN pairs |-> param(pairs[k])])
Body == [q \in Requests |-> bodyOf(q)]

NvInit == [notFirst |-> FALSE, hashChecked |-> FALSE, parsingValue |-> FALSE,
           name |-> Empty, value |-> Empty]

(* Faulty variant: what an earlier chunk has brought is forgotten. *)
appendLost(text, s, max) == <<s>>

(* A buffer that is full is started again. *)
append(text, s, max) == IF Len(text) >= max THEN <<s>> ELSE Append(text, s)
close(text, max) == IF Len(text) >= max THEN Empty ELSE text

(* The place in the request after one symbol. *)
parsed(nv, s) ==
  IF ~nv.parsingValue
  THEN IF s = "=" THEN [nv EXCEPT !.name = close(nv.name, MaxName), !.parsingValue = TRUE]
                  ELSE [nv EXCEPT !.name = append(nv.name, s, MaxName)]
  ELSE [nv EXCEPT !.value = IF s = "&" THEN close(nv.value, MaxValue)
                                       ELSE append(nv.value, s, MaxValue)]

(* The next pair, of a request whose hash was right, or not. *)
nextPair(ok) == [NvInit EXCEPT !.notFirst = TRUE, !.hashChecked = ok]

-----------------------------------------------------------------------------
Init ==
  /\ prefs \in Earlier
  /\ memory = loadConfig(prefs)
  /\ wiped = FALSE /\ restart = FALSE
  /\ conn = [c \in Conns |-> Idle]
  /\ updateRunning = NoUpdate /\ session = Closed /\ image = Factory

(* A write to the preferences; after the erase it may be lost. *)
store(i, v) ==
  /\ prefs' \in {putString(prefs, i, v)} \cup (IF wiped THEN {prefs} ELSE {})
  /\ UNCHANGED wiped
keep == UNCHANGED flash

Receiving(c) == conn[c].kind = "config"
Sending(c) == conn[c].kind = "upload"

PostConfig(c) ==
  /\ conn[c] = Idle
  /\ updateRunning = NoUpdate /\ session = Closed   (* bound: not both kinds *)
  /\ \E q \in Requests, h \in Hashes :
       conn' = [conn EXCEPT ![c] = [kind |-> "config", hash |-> h, pairs |-> q, pos |-> 0, nv |-> NvInit]]
  /\ UNCHANGED <<memory, flash, restart, update>>

(* What handleConfigRequestData does with the next symbol of the body. *)
symbol(r) == Body[r.pairs][r.pos + 1]
isLast(r) == r.pos + 1 = Len(Body[r.pairs])
valueDone(r, nv) == nv.parsingValue /\ (symbol(r) = "&" \/ isLast(r))
ignored(nv) == nv.notFirst /\ ~nv.hashChecked
advance(c, nv) ==
  conn' = [conn EXCEPT ![c] = IF isLast(conn[c]) THEN Idle ELSE [conn[c] EXCEPT !.pos = @ + 1, !.nv = nv]]

(* The rest of a request without a valid hash. *)
IgnoreData(c) ==
  /\ Receiving(c) /\ ignored(conn[c].nv)
  /\ advance(c, conn[c].nv)
  /\ UNCHANGED <<memory, flash, restart, update>>

(* A symbol inside a name or a value. *)
ParseSymbol(c) ==
  /\ Receiving(c) /\ ~ignored(conn[c].nv)
  /\ LET nv == parsed(conn[c].nv, symbol(conn[c]))
     IN /\ ~valueDone(conn[c], nv)
        /\ advance(c, nv)
        /\ restart' = (restart \/ (isLast(conn[c]) /\ nv.hashChecked))
  /\ UNCHANGED <<memory, flash, update>>

(* Faulty variant: it is enough that a hash is there. *)
hashGiven(r, nv) == urlDecode(nv.value) = <<"H">>
hashOk(r, nv) == urlDecode(nv.value) = <<"H">> /\ checkPass(memory, r.hash)

(* The first pair must be the hash. *)
CheckHash(c) ==
  /\ Receiving(c) /\ ~conn[c].nv.notFirst
  /\ LET nv == parsed(conn[c].nv, symbol(conn[c]))
         ok == nv.name = HashName /\ hashOk(conn[c], nv)
     IN /\ valueDone(conn[c], nv)
        /\ advance(c, nextPair(ok))
        /\ restart' = (restart \/ (isLast(conn[c]) /\ ok))
  /\ UNCHANGED <<memory, flash, update>>

(* Each other pair is stored at once; at the end of the body the answer is *)
(* OK and a restart is started.                                            *)
StoreValue(c) ==
  /\ Receiving(c) /\ conn[c].nv.notFirst /\ ~ignored(conn[c].nv)
  /\ LET nv == parsed(conn[c].nv, symbol(conn[c]))
         i == urlDecode(nv.name)
         v == urlDecode(nv.value)
     IN /\ valueDone(conn[c], nv)
        /\ IF updates(memory, i, v) THEN store(i, v) ELSE keep
        /\ advance(c, nextPair(TRUE))
        /\ restart' = (restart \/ isLast(conn[c]))
  /\ UNCHANGED <<memory, update>>

handleConfigRequestData(c) ==
  IgnoreData(c) \/ ParseSymbol(c) \/ CheckHash(c) \/ StoreValue(c)

-----------------------------------------------------------------------------
(* The upload of a firmware: a handler for each chunk, then one for the    *)
(* whole request.  alone and since tell of an upload whether another was   *)
(* in progress when it began, and when that was.                           *)

PostUpdate(c) ==
  /\ conn[c] = Idle
  /\ \A d \in Conns : ~Receiving(d)
  /\ \E i \in Images, h \in Hashes :
       conn' = [conn EXCEPT ![c] = [kind |-> "upload", hash |-> h, image |-> i, pos |-> 0, error |-> "",
                                    alone |-> FALSE, since |-> 0]]
  /\ UNCHANGED <<memory, flash, restart, update>>

InUpload(c) == Sending(c) /\ conn[c].pos > 0 /\ conn[c].error # "other"
Alone(c) == \A d \in Conns \ {c} : ~InUpload(d)

(* updateRunning + 60000 >= millis(), which ends between two windows. *)
otherUpdate == {updateRunning < LockMin, updateRunning <= LockMax}

(* Update, the library: write fails when no session is open, end accepts   *)
(* only a whole image; begin, write and end may also fail because of the   *)
(* flash.  Every failure aborts the session.                               *)
isWhole(chunks) == \E i \in Images : chunks = [k \in 1 .. Pieces |-> <<i, k>>]

fail(c, r) ==
  /\ conn' = [conn EXCEPT ![c] = [r EXCEPT !.pos = @ + 1, !.error = "failed"]]
  /\ session' = Closed /\ UNCHANGED image

(* The chunk goes to the session, which is ended with the last one.        *)
write(c, r, chunks) ==
  LET done == Append(chunks, <<r.image, r.pos + 1>>)
  IN \/ fail(c, r)
     \/ /\ chunks # Closed
        /\ r.pos + 1 = Pieces => isWhole(done)
        /\ conn' = [conn EXCEPT ![c] = [r EXCEPT !.pos = @ + 1]]
        /\ session' = IF r.pos + 1 = Pieces THEN Closed ELSE done
        /\ image' = IF r.pos + 1 = Pieces THEN r.image ELSE image

skip(c, r) ==
  conn' = [conn EXCEPT ![c] = [r EXCEPT !.pos = @ + 1]] /\ UNCHANGED <<session, image>>

(* Faulty variant: the time is taken before the test. *)
lockTimeAlways(other) == 0
lockTime(other) == IF other THEN updateRunning ELSE 0

(* The first chunk: one upload at a time, then the password, then begin.   *)
UploadStart(c) ==
  /\ Sending(c) /\ conn[c].pos = 0
  /\ \E other \in otherUpdate :
       LET error == IF other THEN "other" ELSE IF checkPass(memory, conn[c].hash) THEN "" ELSE "failed"
           r == [conn[c] EXCEPT !.error = error, !.alone = error = "" /\ Alone(c)]
       IN /\ updateRunning' = lockTime(other)
          /\ IF error = "" THEN fail(c, r) \/ write(c, r, Empty) ELSE skip(c, r)
  /\ UNCHANGED <<memory, flash, restart>>

UploadChunk(c) ==
  /\ Sending(c) /\ conn[c].pos \in 1 .. Pieces - 1
  /\ IF conn[c].error = "" THEN write(c, conn[c], session) ELSE skip(c, conn[c])
  /\ UNCHANGED <<memory, flash, restart, updateRunning>>

(* Faulty variant: every upload that ends gives the lock back. *)
unlockedAlways(r) == NoUpdate

(* The answer: an upload gives the lock back, unless it was refused        *)
(* because of another.                                                     *)
unlocked(r) == IF r.error = "other" THEN updateRunning ELSE NoUpdate

UploadFinish(c) ==
  /\ Sending(c) /\ conn[c].pos = Pieces
  /\ updateRunning' = unlocked(conn[c])
  /\ restart' = (restart \/ conn[c].error = "")
  /\ conn' = [conn EXCEPT ![c] = Idle]
  /\ UNCHANGED <<memory, flash, session, image>>

updateHandler(c) == UploadStart(c) \/ UploadChunk(c) \/ UploadFinish(c)

-----------------------------------------------------------------------------
(* A connection breaks; what it has changed remains.                       *)
Disconnect(c) ==
  /\ conn[c] # Idle
  /\ conn' = [conn EXCEPT ![c] = Idle]
  /\ UNCHANGED <<memory, flash, restart, update>>

(* The main loop performs a reset, or a resetConfig. *)
ResetRequest ==
  /\ \E h \in Hashes : checkPass(memory, h)
  /\ restart' = TRUE
  /\ UNCHANGED <<memory, flash, conn, update>>

(* reset wipes the partition.  That the erase fails, and the defaults are  *)
(* stored instead, is left out.                                            *)
reset == prefs' = Empty /\ wiped' = TRUE

ResetConfigRequest ==
  /\ \E h \in Hashes : checkPass(memory, h)
  /\ reset /\ restart' = TRUE
  /\ UNCHANGED <<memory, conn, update>>

(* The button does the same and needs no password. *)
FactoryResetRequest ==
  /\ reset /\ restart' = TRUE
  /\ UNCHANGED <<memory, conn, update>>

(* The restart, by the task that waits for it or for want of power. *)
Start ==
  /\ memory' = loadConfig(prefs)
  /\ wiped' = FALSE /\ restart' = FALSE
  /\ conn' = [c \in Conns |-> Idle]
  /\ updateRunning' = NoUpdate /\ session' = Closed
  /\ UNCHANGED <<prefs, image>>
Restart == restart /\ Start
PowerLoss == ~restart /\ Start

(* A window passes.  A pending restart comes within 0.8 s, before that.    *)
(* The age of a hash no longer counts once it has been checked.            *)
older(n, max) == IF n < max THEN n + 1 ELSE max
aged(r) ==
  CASE r.kind = "config" ->
         IF r.nv.notFirst THEN r ELSE [r EXCEPT !.hash.age = older(@, Windows)]
    [] r.kind = "upload" ->
         IF r.pos = 0 THEN [r EXCEPT !.hash.age = older(@, Windows)]
         ELSE [r EXCEPT !.since = IF r.alone THEN older(@, LockMin) ELSE @]
    [] OTHER -> r

Tick ==
  /\ ~restart
  /\ conn' = [c \in Conns |-> aged(conn[c])]
  /\ updateRunning' = older(updateRunning, NoUpdate)
  /\ UNCHANGED <<memory, flash, restart, session, image>>

MainLoop == ResetRequest \/ ResetConfigRequest \/ FactoryResetRequest
WebTask(c) ==
  PostConfig(c) \/ handleConfigRequestData(c) \/ PostUpdate(c) \/ updateHandler(c) \/ Disconnect(c)

Next == (\E c \in Conns : WebTask(c)) \/ MainLoop \/ Restart \/ PowerLoss \/ Tick

Spec == Init /\ [][Next]_vars

(* Time goes on, and the task that restarts the device runs. *)
FairSpec == Spec /\ WF_vars(Tick) /\ WF_vars(Restart)

-----------------------------------------------------------------------------
(* The state has its type: only items have keys (updateValue refuses other *)
(* names), and counters stay in their bounds.                              *)
TypeOK ==
  /\ DOMAIN memory = Items /\ DOMAIN prefs \subseteq Items
  /\ wiped \in BOOLEAN /\ restart \in BOOLEAN
  /\ DOMAIN conn = Conns
  /\ \A c \in Conns :
       \/ conn[c] = Idle
       \/ /\ Receiving(c) /\ conn[c].hash \in Hashes /\ conn[c].pairs \in Requests
          /\ conn[c].pos \in 0 .. Len(Body[conn[c].pairs]) - 1
       \/ /\ Sending(c) /\ conn[c].hash \in Hashes /\ conn[c].image \in Images
          /\ conn[c].pos \in 0 .. Pieces /\ conn[c].since \in 0 .. LockMin
  /\ updateRunning \in 0 .. NoUpdate
  /\ session = Closed \/ session \in Seq(Images \X (1 .. Pieces))
  /\ image \in Images \cup {Factory}

(* Whatever the chunks, the order of the connections and the moment one of *)
(* them breaks: a stored value is a whole value that some request gave to  *)
(* this item, or was there before.                                         *)
Asked(i) ==
  UNION {{q[k].value : k \in {k \in DOMAIN q : q[k].name = i}} : q \in Requests}
StoredWhole ==
  \A i \in DOMAIN prefs :
    prefs[i] \in {Default[i]} \cup Asked(i) \cup {p[i] : p \in {p \in Earlier : i \in DOMAIN p}}

(* A request changes the stored values or the firmware, or starts a        *)
(* restart, only if it had a hash of the password in use and of a salt     *)
(* that was not too old when it was checked, however long ago that is.     *)
Trusted(c) == checkPass(memory, conn[c].hash)
OnlyWithPassword ==
  [][\A c \in Conns :
       conn'[c] # conn[c] /\ (prefs' # prefs \/ image' # image \/ (restart' /\ ~restart))
         => Trusted(c)]_vars

(* An upload that was alone when it began is not disturbed for the time of *)
(* updateRunning: until then only its own chunks change the session.       *)
Protected(c) ==
  /\ Sending(c) /\ conn[c].pos > 0 /\ conn[c].error = ""
  /\ conn[c].alone /\ conn[c].since < LockMin
UploadNotDisturbed ==
  [][\A c \in Conns : Protected(c) /\ session' # session => conn'[c] # conn[c]]_vars

(* The lock of an upload that broke, or was refused, does not stay: again  *)
(* and again there is a time when another upload may begin.                *)
UploadPossible == []<>(updateRunning >= LockMin)

-----------------------------------------------------------------------------
(* What the documents say, and the code does not do.                       *)

(* "To store your changes you will be asked for an admin password": when   *)
(* the answer of setConfig is OK, the next start uses the values it has    *)
(* sent (no password is sent empty; no reset came between).                *)
Answered(c) ==
  Receiving(c) /\ isLast(conn[c]) /\ conn'[c] = Idle /\ restart' /\ conn[c].nv.hashChecked
SavedIsUsed ==
  [][\A c \in Conns : Answered(c) /\ ~restart /\ StoreValue(c) =>
       \A k \in DOMAIN conn[c].pairs :
         LET p == conn[c].pairs[k]
         IN p.name \in Items \ (Secrets \cup DOMAIN Fixed) => loadConfig(prefs')[p.name] = p.value]_vars
=============================================================================
