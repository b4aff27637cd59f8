--------------------------- MODULE JoiningProofs ---------------------------
(***************************************************************************)
(* Theorems about sharing and joining a folder, for any directories,       *)
(* offers, attempts and faults.                                            *)
(***************************************************************************)
EXTENDS Joining, FiniteSetTheorems, TLAPS

-----------------------------------------------------------------------------
(* The inductive invariant: what holds however appends meet. *)

Devices == {Owner[p] : p \in Places} \union {"none"}
OfferIds == Offers \union {0}

DirType == [dot : BOOLEAN, conf : SUBSET Devices, poly : BOOLEAN, settings : BOOLEAN]
TmpType == [there : BOOLEAN, who : SUBSET Devices]
WriterType ==
  [pc : {"idle", "read", "open", "write", "rename", "done"}, place : Places \union {"none"},
   who : Devices, seen : SUBSET Devices, fd : {"none", "tmp", "config", "gone"}, ok : BOOLEAN]
OfferType == [made : BOOLEAN, record : BOOLEAN, expired : BOOLEAN]
ServerType == [pc : {"off", "accept", "wait", "append"}, conn : Joiners \union {"none"},
               callback : BOOLEAN, stop : BOOLEAN]
ShareType == {Idle} \union [pc : {"record", "clear", "payload"}, offer : Offers, kind : Kinds]
FilesType == [offer : OfferIds, resp : [offer : OfferIds, device : Devices],
              grant : [there : BOOLEAN, offer : OfferIds, device : Devices]]
PollType == [pc : {"idle", "append", "truncate", "write"}, offer : OfferIds, device : Devices]

Seeking == {"discover", "connected", "offered", "responded", "await"}
Adopting == {"mkdir", "config", "flush", "settings", "record", "append"}
JoinType == [pc : {"idle", "failed", "done"} \union Seeking \union Adopting,
             offer : OfferIds, kind : {"none", "session", "network", "file"}]

Shape ==
  /\ dir \in [Places -> DirType] /\ tmp \in [Places -> TmpType]
  /\ writer \in [Tasks -> WriterType] /\ overlapped \in BOOLEAN
  /\ making \in {"mkdir", "config", "settings", "flush", "ready"}
  /\ offer \in [Offers -> OfferType] /\ server \in [Offers -> ServerType]
  /\ share \in ShareType /\ files \in FilesType /\ poll \in PollType
  /\ join \in [Joiners -> JoinType] /\ ignored \in BOOLEAN /\ hit \subseteq Joiners
  /\ granted \in [Offers -> SUBSET Devices]

\* An offer is made once, and its server grants the key once.
OfferOK(of, sv, devices) ==
  /\ sv.pc # "off" => of.made
  /\ sv.pc \in {"wait", "append"} => sv.conn \in Joiners
  /\ devices # {} => sv.pc = "off" /\ of.made
  /\ devices = {} \/ \E d \in Devices : devices = {d}

UsedUp == \A o \in Offers : OfferOK(offer[o], server[o], granted[o])

\* Nothing is shared before ferry init is done.
Prepared ==
  making # "ready" =>
    /\ ~dir[Home].poly
    /\ share.pc = "idle" /\ poll.pc = "idle"
    /\ \A o \in Offers : ~offer[o].made /\ ~offer[o].record

\* How far the directory d of joiner j has been adopted in attempt r.  There is no
\* .ferry where nothing has been adopted, except where an attempt was cut off.
AttemptOK(j, r, d, cut) ==
  /\ r.pc \in {"idle", "mkdir"} \union Seeking => ~d.dot
  /\ r.pc = "failed" /\ j \notin cut => ~d.dot
  /\ r.pc = "await" => r.offer # 0
  /\ r.kind = "session" => j \in Local
  /\ r.pc \in {"config", "flush", "settings", "record", "append", "done"} => d.dot
  /\ r.pc \in {"settings", "record", "append", "done"} => d.poly
  /\ r.pc \in {"record", "append", "done"} => d.settings

Attempts == \A j \in Joiners : AttemptOK(j, join[j], dir[j], hit)

\* The folder a task writes to, and what keeps it busy.
Where(t) == IF t \in Joiners THEN t ELSE Home
Busy(t) == IF t \in Joiners THEN join[t].pc = "append"
           ELSE IF t = Poller THEN poll.pc = "append" ELSE server[t].pc = "append"

Employed == \A t \in Tasks : /\ writer[t].pc # "idle" => Busy(t)
                             /\ Writing(t) => writer[t].place = Where(t)

-----------------------------------------------------------------------------
(* What holds while no two appends have met on the shared folder. *)

\* One append at a time on a folder.
Exclusive ==
  \A s, t \in Tasks : s # t /\ Writing(s) /\ Writing(t) => Where(s) # Where(t)

\* The append w still has the list it read, and config.tmp to itself.
WriterOK(w, conf, f) ==
  /\ w.pc \in {"open", "write", "rename"} => w.seen = conf
  /\ w.pc = "write" => w.fd = "tmp" /\ f.there /\ f.who = {}
  /\ w.pc = "rename" => f.there /\ f.who = w.seen \union {w.who}

Untorn == \A t \in Tasks : WriterOK(writer[t], dir[Where(t)].conf, tmp[Where(t)])

\* The device a task wants to list, and that it is listed when the task is done.
Wanted(t) == IF t \in Joiners THEN Owner[Home]
             ELSE IF t = Poller THEN poll.device ELSE Owner[server[t].conn]

Lists ==
  \A t \in Tasks :
    /\ Writing(t) => writer[t].who = Wanted(t)
    /\ writer[t].pc = "done" /\ writer[t].ok => Wanted(t) \in dir[Where(t)].conf

\* ferry init.
HomeMade ==
  /\ making # "mkdir" => dir[Home].dot
  /\ making \in {"mkdir", "config"} => dir[Home].conf = {}
  /\ making \in {"settings", "flush", "ready"} => OwnKey(Home)
  /\ making \in {"flush", "ready"} => dir[Home].settings
  /\ making = "ready" => dir[Home].poly

\* The sharing side lists a device before it writes the grant for it.
GrantsListed ==
  /\ poll.pc \in {"truncate", "write"} => poll.device \in dir[Home].conf
  /\ files.grant.offer # 0 => files.grant.device \in dir[Home].conf

\* A joiner that has the key is listed, unless a server ignored that it could not
\* list it, and has the key and the sharing device in its own config.
KeysOK(j, r, d, home, ign) ==
  /\ r.pc \in {"flush", "settings", "record", "append", "done"} => Owner[j] \in d.conf
  /\ r.pc = "done" => Owner[Home] \in d.conf
  /\ ~ign /\ r.pc \in Adopting \union {"done"} => Owner[j] \in home.conf

KeysHeld == \A j \in Joiners : KeysOK(j, join[j], dir[j], dir[Home], ignored)

Finite == \A p \in Places : IsFiniteSet(dir[p].conf)

Rest == UsedUp /\ Prepared /\ Attempts
Writers == Exclusive /\ Untorn /\ Lists
RestQuiet == HomeMade /\ GrantsListed /\ KeysHeld /\ Finite

Inv == /\ Shape /\ Rest /\ Employed
       /\ ~overlapped => Writers /\ RestQuiet

-----------------------------------------------------------------------------
(* What a step may change without disturbing the invariant. *)

\* The tasks, and the folders they write to.
LEMMA TasksAre ==
  /\ Home \in Places /\ Joiners \subseteq Places /\ Joiners \subseteq Tasks /\ Offers \subseteq Tasks
  /\ Poller \in Tasks /\ Home \notin Joiners /\ Poller \notin Joiners
  /\ \A t \in Tasks : Where(t) \in Places
  /\ \A o \in Offers : Where(o) = Home /\ o \notin Joiners /\ o # Poller
  /\ \A j \in Joiners : Where(j) = j
  /\ Where(Poller) = Home
  /\ \A p \in Places : Owner[p] \in Devices
  /\ "none" \in Devices
BY JoiningAssumption DEF Where, Devices

\* A step of the sharing side or of an attempt, the folders being as before.
LEMMA RestKept ==
  ASSUME Shape, Rest, UNCHANGED <<dir, making>>,
         hit \subseteq hit',
         making # "ready" => share'.pc = "idle" /\ poll'.pc = "idle",
         \A o \in Offers :
           \/ offer'[o] = offer[o] /\ server'[o] = server[o] /\ granted'[o] = granted[o]
           \/ /\ OfferOK(offer'[o], server'[o], granted'[o])
              /\ making # "ready" => ~offer'[o].made /\ ~offer'[o].record,
         \A j \in Joiners : join'[j] = join[j] \/ AttemptOK(j, join'[j], dir[j], hit')
  PROVE  Rest'
<1>1. UsedUp'
  BY DEF Rest, UsedUp
<1>2. Prepared'
  BY DEF Rest, Prepared
<1>3. Attempts'
  BY DEF Rest, Attempts, AttemptOK
<1> QED
  BY <1>1, <1>2, <1>3 DEF Rest

\* The same for what the configs list.
LEMMA RestQuietKept ==
  ASSUME RestQuiet, UNCHANGED <<dir, making>>, ignored => ignored',
         poll'.pc \in {"truncate", "write"} => poll'.device \in dir[Home].conf,
         files'.grant.offer # 0 => files'.grant.device \in dir[Home].conf,
         \A j \in Joiners :
           join'[j] = join[j] \/ KeysOK(j, join'[j], dir[j], dir[Home], ignored')
  PROVE  RestQuiet'
<1>1. HomeMade'
  BY DEF RestQuiet, HomeMade, OwnKey
<1>2. GrantsListed'
  BY DEF GrantsListed
<1>3. KeysHeld'
  BY DEF RestQuiet, KeysHeld, KeysOK
<1>4. Finite'
  BY DEF RestQuiet, Finite
<1> QED
  BY <1>1, <1>2, <1>3, <1>4 DEF RestQuiet

\* No task does anything.
LEMMA WritersKept ==
  ASSUME Employed, ~overlapped => Writers, UNCHANGED <<dir, tmp, writer, overlapped>>,
         \A t \in Tasks : writer[t].pc # "idle" => Busy(t)' /\ Wanted(t)' = Wanted(t)
  PROVE  Employed' /\ (~overlapped' => Writers')
<1>1. Employed'
  BY DEF Employed, Writing
<1>2. ASSUME ~overlapped PROVE Writers'
  BY <1>2 DEF Writers, Exclusive, Untorn, Lists, Writing
<1> QED
  BY <1>1, <1>2

\* What keeps a task busy goes on.
GoesOn ==
  /\ poll.pc = "append" => poll'.pc = "append" /\ poll'.device = poll.device
  /\ \A o \in Offers : server[o].pc = "append" =>
       server'[o].pc = "append" /\ server'[o].conn = server[o].conn
  /\ \A j \in Joiners : join[j].pc = "append" => join'[j].pc = "append"

\* When every actor goes on with what it does, each task still has its actor
\* and the device it was asked to append.
LEMMA StillBusy ==
  ASSUME Employed, GoesOn
  PROVE  \A t \in Tasks : writer[t].pc # "idle" => Busy(t)' /\ Wanted(t)' = Wanted(t)
BY JoiningAssumption DEF Employed, GoesOn, Busy, Wanted

\* A step that touches neither a folder nor a task.
LEMMA StepKept ==
  ASSUME Inv, Shape', UNCHANGED <<dir, tmp, writer, overlapped, making, granted, ignored, hit>>,
         GoesOn, making # "ready" => share'.pc = "idle" /\ poll'.pc = "idle",
         \A o \in Offers :
           \/ offer'[o] = offer[o] /\ server'[o] = server[o]
           \/ /\ OfferOK(offer'[o], server'[o], granted[o])
              /\ making # "ready" => ~offer'[o].made /\ ~offer'[o].record,
         ~overlapped /\ poll'.pc \in {"truncate", "write"} => poll'.device \in dir[Home].conf,
         ~overlapped /\ files'.grant.offer # 0 => files'.grant.device \in dir[Home].conf,
         \A j \in Joiners :
           \/ join'[j] = join[j]
           \/ /\ AttemptOK(j, join'[j], dir[j], hit)
              /\ ~overlapped => KeysOK(j, join'[j], dir[j], dir[Home], ignored)
  PROVE  Inv'
<1>1. Rest'
  BY RestKept DEF Inv
<1>2. Employed' /\ (~overlapped' => Writers')
  BY WritersKept, StillBusy DEF Inv
<1>3. ASSUME ~overlapped PROVE RestQuiet'
  BY <1>3, RestQuietKept DEF Inv
<1> QED
  BY <1>1, <1>2, <1>3 DEF Inv

-----------------------------------------------------------------------------
(* Making an offer. *)

\* A folder that opens is one that ferry init is done with.
LEMMA ReadyIfOpen ==
  ASSUME Inv, Openable(Home)
  PROVE  making = "ready"
BY DEF Inv, Rest, Prepared, Openable, StoreOpens

\* The sharing device has its own key.
LEMMA HomeListed ==
  ASSUME Inv, ~overlapped, making = "ready"
  PROVE  Owner[Home] \in dir[Home].conf /\ Openable(Home)
BY DEF Inv, RestQuiet, HomeMade, OwnKey, Openable, StoreOpens

\* What the other steps leave alone.
LEMMA Standing ==
  ASSUME Inv
  PROVE  /\ Shape /\ UsedUp /\ Prepared /\ Attempts /\ Employed
         /\ ~overlapped /\ poll.pc \in {"truncate", "write"} => poll.device \in dir[Home].conf
         /\ ~overlapped /\ files.grant.offer # 0 => files.grant.device \in dir[Home].conf
         /\ ~overlapped => KeysHeld
BY DEF Inv, Rest, RestQuiet, GrantsListed

\* create_offer: the server starts, or does not.
LEMMA CreateOfferKeeps ==
  ASSUME Inv, NEW o \in Offers, NEW kind \in Kinds, CreateOffer(o, kind)
  PROVE  Inv'
<1>1. UNCHANGED <<dir, tmp, writer, overlapped, making, granted, ignored, hit, files, poll, join>>
        /\ ~offer[o].made
  BY DEF CreateOffer, envVars
<1>2. making = "ready"
  BY ReadyIfOpen DEF CreateOffer
<1> DEFINE of == [offer[o] EXCEPT !.made = TRUE]
           sh == [pc |-> "record", offer |-> o, kind |-> kind]
<1> DEFINE up == [server[o] EXCEPT !.pc = "accept"]
<1>0. PICK sv \in {up, server[o]} : server' = [server EXCEPT ![o] = sv]
  BY DEF CreateOffer, Inv, Shape
<1>3. offer[o] \in OfferType /\ server[o] \in ServerType
  BY DEF Inv, Shape
<1>4. of \in OfferType /\ of.made /\ sv \in ServerType /\ sh \in ShareType
  BY <1>3 DEF OfferType, ServerType, ShareType
<1>5. offer' = [offer EXCEPT ![o] = of] /\ server' = [server EXCEPT ![o] = sv] /\ share' = sh
  BY <1>0 DEF CreateOffer
<1>11. sv = server[o] \/ sv.pc = "accept"
  BY <1>3 DEF ServerType
<1> HIDE DEF of, up, sh
<1>6. Shape'
  BY <1>1, <1>4, <1>5 DEF Inv, Shape
<1>7. server[o].pc = "off" /\ granted[o] = {}
  BY <1>1, Standing DEF UsedUp, OfferOK
<1>8. OfferOK(of, sv, granted[o])
  BY <1>4, <1>7, <1>11 DEF OfferOK
<1>9. /\ offer'[o] = of /\ server'[o] = sv
      /\ \A k \in Offers : k # o => offer'[k] = offer[k] /\ server'[k] = server[k]
  BY <1>5 DEF Inv, Shape
<1>10. GoesOn
  BY <1>1, <1>7, <1>9 DEF GoesOn
<1> QED
  BY <1>1, <1>2, <1>6, <1>8, <1>9, <1>10, StepKept, Standing

\* The record is put into the map.
LEMMA InsertRecordKeeps ==
  ASSUME Inv, InsertRecord
  PROVE  Inv'
<1>1. UNCHANGED <<dir, tmp, writer, overlapped, making, granted, ignored, hit, server, files, poll, join>>
        /\ share.pc = "record"
  BY DEF InsertRecord, envVars
<1>2. making = "ready"
  BY <1>1, Standing DEF Prepared
<1>3. PICK o \in Offers, k \in Kinds : share = [pc |-> "record", offer |-> o, kind |-> k]
  <2>1. share \in ShareType /\ share # Idle
    BY <1>1 DEF Inv, Shape, Idle
  <2> QED BY <1>1, <2>1 DEF ShareType
<1>4. share' \in ShareType
  <2>1. [share EXCEPT !.pc = "clear"] \in ShareType /\ [share EXCEPT !.pc = "payload"] \in ShareType
    BY <1>3 DEF ShareType
  <2>2. CASE k = "code"
    BY <1>3, <2>2 DEF InsertRecord, ShareType
  <2>3. CASE k = "ui"
    BY <1>3, <2>1, <2>3 DEF InsertRecord
  <2>4. CASE k = "cli"
    BY <1>3, <2>1, <2>4 DEF InsertRecord
  <2> QED BY <2>2, <2>3, <2>4 DEF Kinds
<1> DEFINE of == [offer[o] EXCEPT !.record = TRUE]
<1>5. offer[o] \in OfferType
  BY DEF Inv, Shape
<1>6. of \in OfferType /\ of.made = offer[o].made
  BY <1>5 DEF OfferType
<1>7. offer' = [offer EXCEPT ![o] = of]
  BY <1>3 DEF InsertRecord
<1> HIDE DEF of
<1>8. Shape'
  BY <1>1, <1>4, <1>6, <1>7 DEF Inv, Shape
<1>9. offer'[o] = of /\ \A n \in Offers : n # o => offer'[n] = offer[n]
  BY <1>7 DEF Inv, Shape
<1>10. OfferOK(of, server[o], granted[o])
  BY <1>6, Standing DEF UsedUp, OfferOK
<1>11. GoesOn
  BY <1>1 DEF GoesOn
<1> QED
  BY <1>1, <1>2, <1>8, <1>9, <1>10, <1>11, StepKept, Standing

\* The files beside the folder's config.
LEMMA OfferFilesKeep ==
  ASSUME Inv, ClearAnswers \/ WritePayload
  PROVE  Inv'
<1>1. /\ UNCHANGED <<dir, tmp, writer, overlapped, making, granted, ignored, hit, offer, server, poll, join>>
      /\ share.pc # "idle"
  BY DEF ClearAnswers, WritePayload, envVars
<1>2. making = "ready"
  BY <1>1, Standing DEF Prepared
<1>3. share \in [pc : {"record", "clear", "payload"}, offer : Offers, kind : Kinds]
  <2>1. share \in ShareType /\ share # Idle
    BY <1>1 DEF Inv, Shape, Idle
  <2> QED BY <2>1 DEF ShareType
<1>4. files \in FilesType
  BY DEF Inv, Shape
<1>5. /\ share' \in ShareType /\ files' \in FilesType
      /\ files'.grant = files.grant \/ files'.grant = Absent
  <2>1. CASE ClearAnswers
    <3>1. share' = [share EXCEPT !.pc = "payload"]
            /\ files' = [files EXCEPT !.resp = Nothing, !.grant = Absent]
      BY <2>1 DEF ClearAnswers
    <3>2. share' \in ShareType
      BY <1>3, <3>1 DEF ShareType
    <3>3. files' \in FilesType /\ files'.grant = Absent
      BY <1>4, <3>1, TasksAre DEF FilesType, Nothing, Absent, OfferIds
    <3> QED BY <3>2, <3>3
  <2>2. CASE WritePayload
    <3>1. share' = Idle /\ files' = [files EXCEPT !.offer = share.offer]
      BY <2>2 DEF WritePayload
    <3>2. share.offer \in OfferIds
      BY <1>3 DEF OfferIds
    <3>3. files' \in FilesType /\ files'.grant = files.grant
      BY <1>4, <3>1, <3>2 DEF FilesType
    <3> QED BY <3>1, <3>3 DEF ShareType
  <2> QED BY <2>1, <2>2
<1>6. Shape'
  BY <1>1, <1>5 DEF Inv, Shape
<1>7. GoesOn
  BY <1>1 DEF GoesOn
<1>8. ~overlapped /\ files'.grant.offer # 0 => files'.grant.device \in dir[Home].conf
  BY <1>5, Standing DEF Absent
<1> QED
  BY <1>1, <1>2, <1>6, <1>7, <1>8, StepKept, Standing

\* A day passes.
LEMMA ExpireKeeps ==
  ASSUME Inv, NEW o \in Offers, Expire(o)
  PROVE  Inv'
<1>1. UNCHANGED <<dir, tmp, writer, overlapped, making, granted, ignored, hit, server, share, files, poll, join>>
        /\ offer[o].made
  BY DEF Expire
<1> DEFINE of == [offer[o] EXCEPT !.expired = TRUE]
<1>5. offer[o] \in OfferType
  BY DEF Inv, Shape
<1>6. of \in OfferType /\ of.made = offer[o].made
  BY <1>5 DEF OfferType
<1>7. offer' = [offer EXCEPT ![o] = of]
  BY DEF Expire
<1> HIDE DEF of
<1>8. Shape'
  BY <1>1, <1>6, <1>7 DEF Inv, Shape
<1>9. offer'[o] = of /\ \A n \in Offers : n # o => offer'[n] = offer[n]
  BY <1>7 DEF Inv, Shape
<1>10. OfferOK(of, server[o], granted[o]) /\ making = "ready"
  BY <1>1, <1>6, Standing DEF UsedUp, OfferOK, Prepared
<1>11. GoesOn
  BY <1>1 DEF GoesOn
<1> QED
  BY <1>1, <1>8, <1>9, <1>10, <1>11, StepKept, Standing

\* The poller writes the grant of the device it has listed.
LEMMA PollGrantKeeps ==
  ASSUME Inv, PollGrant
  PROVE  Inv'
<1>1. UNCHANGED <<dir, tmp, writer, overlapped, making, granted, ignored, hit, offer, server, share, join>>
  BY DEF PollGrant, envVars
<1>2. poll \in PollType /\ files \in FilesType
  BY DEF Inv, Shape
<1>3. poll.pc \in {"truncate", "write"}
  BY DEF PollGrant
<1>4. making = "ready"
  BY <1>3, Standing DEF Prepared
<1>5. CASE /\ poll.pc = "truncate"
           /\ files' = [files EXCEPT !.grant = [Absent EXCEPT !.there = TRUE]]
           /\ poll' = [poll EXCEPT !.pc = "write"]
  <2>1. poll' \in PollType /\ poll'.pc = "write" /\ poll'.device = poll.device
    BY <1>2, <1>5 DEF PollType
  <2>2. files' \in FilesType /\ files'.grant.offer = 0
    BY <1>2, <1>5, TasksAre DEF FilesType, Absent, OfferIds
  <2>3. Shape'
    BY <1>1, <2>1, <2>2 DEF Inv, Shape
  <2>4. GoesOn
    BY <1>1, <1>3 DEF GoesOn
  <2> QED BY <1>1, <1>3, <1>4, <2>1, <2>2, <2>3, <2>4, StepKept, Standing
<1>6. CASE /\ poll.pc = "write"
           /\ files' = [files EXCEPT !.grant = [there |-> TRUE, offer |-> poll.offer,
                                                device |-> poll.device]]
           /\ poll' = [pc |-> "idle", offer |-> 0, device |-> "none"]
  <2>1. poll' \in PollType /\ poll'.pc = "idle"
    BY <1>6, TasksAre DEF PollType, OfferIds
  <2>2. files' \in FilesType /\ files'.grant.device = poll.device
    BY <1>2, <1>6 DEF FilesType, PollType
  <2>3. Shape'
    BY <1>1, <2>1, <2>2 DEF Inv, Shape
  <2>4. GoesOn
    BY <1>1, <1>3 DEF GoesOn
  <2> QED BY <1>1, <1>3, <1>4, <2>1, <2>2, <2>3, <2>4, StepKept, Standing
<1> QED
  BY <1>5, <1>6 DEF PollGrant

-----------------------------------------------------------------------------
(* The pairing server and the attempts to join. *)

\* The server goes on without starting the callback.
LEMMA ServerMoves ==
  ASSUME Inv, NEW o \in Offers, NEW sv \in ServerType, server' = [server EXCEPT ![o] = sv],
         server[o].pc \in {"accept", "wait"}, sv.pc # "append",
         sv.pc = "wait" => sv.conn \in Joiners,
         UNCHANGED <<dir, tmp, writer, overlapped, making, granted, ignored, hit, offer, share, files, poll>>,
         join' \in [Joiners -> JoinType],
         \A j \in Joiners :
           \/ join'[j] = join[j]
           \/ /\ join[j].pc # "append" /\ AttemptOK(j, join'[j], dir[j], hit)
              /\ ~overlapped => KeysOK(j, join'[j], dir[j], dir[Home], ignored)
  PROVE  Inv'
<1>1. server'[o] = sv /\ \A k \in Offers : k # o => server'[k] = server[k]
  BY DEF Inv, Shape
<1>2. Shape'
  BY DEF Inv, Shape
<1>3. granted[o] = {} /\ offer[o].made /\ making = "ready"
  BY Standing DEF UsedUp, OfferOK, Prepared
<1>4. OfferOK(offer[o], sv, granted[o])
  BY <1>3 DEF OfferOK
<1>5. GoesOn
  BY <1>1 DEF GoesOn
<1> QED
  BY <1>1, <1>2, <1>3, <1>4, <1>5, StepKept, Standing

\* The pairing server stops, or drops a joiner that waits.
LEMMA ServerStepsKeep ==
  ASSUME Inv, NEW o \in Offers, ServerEnds(o) \/ ServerGivesUp(o)
  PROVE  Inv'
<1>1. /\ UNCHANGED <<dir, tmp, writer, overlapped, making, granted, ignored, hit, offer, share, files, poll, join>>
      /\ server[o].pc \in {"accept", "wait"}
  BY DEF ServerEnds, ServerGivesUp, envVars
<1>2. server[o] \in ServerType /\ join \in [Joiners -> JoinType]
  BY DEF Inv, Shape
<1>3. PICK sv \in ServerType : server' = [server EXCEPT ![o] = sv] /\ sv.pc \in {"off", "accept"}
  <2>1. CASE ServerEnds(o)
    <3>1. server' = [server EXCEPT ![o] = Off]
      BY <2>1 DEF ServerEnds, ServerOff
    <3>2. Off \in ServerType /\ Off.pc = "off"
      BY DEF Off, ServerType
    <3> QED BY <3>1, <3>2
  <2>2. CASE ServerGivesUp(o)
    <3> DEFINE n == [server[o] EXCEPT !.pc = "accept", !.conn = "none"]
    <3>1. server' = [server EXCEPT ![o] = n]
      BY <2>2 DEF ServerGivesUp, Serving, Inv, Shape
    <3>2. n \in ServerType /\ n.pc = "accept"
      BY <1>2 DEF ServerType
    <3> HIDE DEF n
    <3> QED BY <3>1, <3>2
  <2> QED BY <2>1, <2>2
<1> QED
  BY <1>1, <1>2, <1>3, ServerMoves

\* The fields of an attempt that goes on.
LEMMA NextPc ==
  ASSUME Inv, NEW j \in Joiners, NEW s \in Seeking \union Adopting
  PROVE  LET r == [join[j] EXCEPT !.pc = s]
         IN  r \in JoinType /\ r.pc = s /\ r.offer = join[j].offer /\ r.kind = join[j].kind
<1>1. join[j] \in JoinType
  BY DEF Inv, Shape
<1> QED
  BY <1>1 DEF JoinType

\* The pairing server takes a connected joiner and waits for its response.
LEMMA ServerAcceptKeeps ==
  ASSUME Inv, NEW o \in Offers, NEW j \in Joiners, ServerAccept(o, j)
  PROVE  Inv'
<1>1. /\ UNCHANGED <<dir, tmp, writer, overlapped, making, granted, ignored, hit, offer, share, files, poll>>
      /\ server[o].pc = "accept" /\ join[j].pc = "connected"
  BY DEF ServerAccept, envVars
<1>2. server[o] \in ServerType /\ join \in [Joiners -> JoinType]
  BY DEF Inv, Shape
<1> DEFINE n == [server[o] EXCEPT !.pc = "wait", !.conn = j]
           r == [join[j] EXCEPT !.pc = "offered"]
<1>3. server' = [server EXCEPT ![o] = n] /\ join' = [join EXCEPT ![j] = r]
  BY DEF ServerAccept, Serving, Inv, Shape
<1>4. n \in ServerType /\ n.pc = "wait" /\ n.conn = j
  BY <1>2 DEF ServerType
<1>5. r \in JoinType /\ r.pc = "offered" /\ r.offer = join[j].offer /\ r.kind = join[j].kind
  BY NextPc DEF Seeking
<1> HIDE DEF n, r
<1>6. AttemptOK(j, r, dir[j], hit)
  BY <1>1, <1>5, Standing DEF Attempts, AttemptOK, Seeking
<1>7. KeysOK(j, r, dir[j], dir[Home], ignored)
  BY <1>5 DEF KeysOK, Adopting
<1>8. join' \in [Joiners -> JoinType] /\ join'[j] = r /\ \A i \in Joiners : i # j => join'[i] = join[i]
  BY <1>2, <1>3, <1>5
<1> QED
  BY <1>1, <1>3, <1>4, <1>6, <1>7, <1>8, ServerMoves

\* An attempt goes on; what it leaves of an offer that is used up or expired.
LEMMA JoinMoves ==
  ASSUME Inv, NEW j \in Joiners, NEW r \in JoinType, join' = [join EXCEPT ![j] = r],
         join[j].pc # "append", AttemptOK(j, r, dir[j], hit),
         ~overlapped => KeysOK(j, r, dir[j], dir[Home], ignored),
         UNCHANGED <<dir, tmp, writer, overlapped, making, granted, ignored, hit, share, poll>>,
         files' \in FilesType, files'.grant = files.grant,
         \/ UNCHANGED <<offer, server>>
         \/ \E o \in OfferIds : /\ offer' = [offer EXCEPT ![o].record = FALSE]
                                /\ server' = [server EXCEPT ![o].stop = TRUE]
  PROVE  Inv'
<1>1. join' \in [Joiners -> JoinType] /\ join'[j] = r /\ \A i \in Joiners : i # j => join'[i] = join[i]
  BY DEF Inv, Shape
<1>2. /\ offer' \in [Offers -> OfferType] /\ server' \in [Offers -> ServerType]
      /\ \A k \in Offers : /\ offer'[k].made = offer[k].made /\ (offer'[k].record => offer[k].record)
                           /\ server'[k].pc = server[k].pc /\ server'[k].conn = server[k].conn
  <2>0. offer \in [Offers -> OfferType] /\ server \in [Offers -> ServerType]
    BY DEF Inv, Shape
  <2>1. CASE UNCHANGED <<offer, server>>
    BY <2>0, <2>1
  <2>2. ASSUME NEW o \in OfferIds, offer' = [offer EXCEPT ![o].record = FALSE],
               server' = [server EXCEPT ![o].stop = TRUE], NEW k \in Offers
        PROVE  /\ offer'[k] \in OfferType /\ server'[k] \in ServerType
               /\ offer'[k].made = offer[k].made /\ (offer'[k].record => offer[k].record)
               /\ server'[k].pc = server[k].pc /\ server'[k].conn = server[k].conn
    <3>1. offer[k] \in OfferType /\ server[k] \in ServerType
      BY <2>0
    <3>2. offer'[k] = [offer[k] EXCEPT !.record = FALSE] \/ offer'[k] = offer[k]
      BY <2>0, <2>2
    <3>3. server'[k] = [server[k] EXCEPT !.stop = TRUE] \/ server'[k] = server[k]
      BY <2>0, <2>2
    <3>4. /\ offer'[k] \in OfferType
          /\ offer'[k].made = offer[k].made /\ (offer'[k].record => offer[k].record)
      BY <3>1, <3>2 DEF OfferType
    <3>5. server'[k] \in ServerType /\ server'[k].pc = server[k].pc /\ server'[k].conn = server[k].conn
      BY <3>1, <3>3 DEF ServerType
    <3> QED BY <3>4, <3>5
  <2>3. CASE \E o \in OfferIds : /\ offer' = [offer EXCEPT ![o].record = FALSE]
                                 /\ server' = [server EXCEPT ![o].stop = TRUE]
    <3>1. PICK o \in OfferIds : /\ offer' = [offer EXCEPT ![o].record = FALSE]
                                /\ server' = [server EXCEPT ![o].stop = TRUE]
      BY <2>3
    <3>2. offer' = [k \in Offers |-> offer'[k]] /\ server' = [k \in Offers |-> server'[k]]
      BY <2>0, <3>1
    <3> QED BY <2>2, <3>1, <3>2
  <2> QED BY <2>1, <2>3
<1>3. Shape'
  BY <1>1, <1>2 DEF Inv, Shape
<1>4. \A o \in Offers : /\ OfferOK(offer'[o], server'[o], granted[o])
                        /\ making # "ready" => ~offer'[o].made /\ ~offer'[o].record
  BY <1>2, Standing DEF UsedUp, OfferOK, Prepared
<1>5. GoesOn
  BY <1>1, <1>2 DEF GoesOn
<1>6. making # "ready" => share'.pc = "idle" /\ poll'.pc = "idle"
  BY Standing DEF Prepared
<1> QED
  BY <1>1, <1>3, <1>4, <1>5, <1>6, StepKept, Standing

\* An attempt that fails.
LEMMA FailedOK ==
  ASSUME NEW j \in Joiners, NEW d, ~d.dot \/ j \in hit
  PROVE  /\ Failed \in JoinType /\ AttemptOK(j, Failed, d, hit)
         /\ \A home, ign : KeysOK(j, Failed, d, home, ign)
<1>1. Failed.pc = "failed" /\ Failed.kind = "none" /\ Failed \in JoinType
  BY DEF Failed, JoinType, OfferIds
<1> HIDE DEF Failed
<1>2. AttemptOK(j, Failed, d, hit)
  BY <1>1 DEF AttemptOK, Seeking
<1>3. \A home, ign : KeysOK(j, Failed, d, home, ign)
  BY <1>1 DEF KeysOK, Adopting
<1> QED BY <1>1, <1>2, <1>3

\* An attempt that may start finds no .ferry, unless an earlier one was cut off.
LEMMA FreeToTry ==
  ASSUME Inv, NEW j \in Joiners, join[j].pc \in {"idle", "failed"} \union Seeking
  PROVE  ~dir[j].dot \/ j \in hit
BY Standing DEF Attempts, AttemptOK

\* The start of an attempt that has yet to be given the key.
LEMMA SeekingOK ==
  ASSUME NEW j \in Joiners, NEW r \in JoinType, r.pc \in Seeking, r.pc = "await" => r.offer # 0,
         r.kind # "session", NEW d, ~d.dot
  PROVE  AttemptOK(j, r, d, hit) /\ \A home, ign : KeysOK(j, r, d, home, ign)
<1>1. AttemptOK(j, r, d, hit)
  BY DEF AttemptOK, Seeking
<1>2. \A home, ign : KeysOK(j, r, d, home, ign)
  BY DEF KeysOK, Adopting, Seeking
<1> QED BY <1>1, <1>2

\* What an attempt leaves alone while it fails or seeks.
LEMMA AttemptFails ==
  ASSUME Inv, NEW j \in Joiners, join[j].pc \in {"idle", "failed"} \union Seeking,
         join' = [join EXCEPT ![j] = Failed],
         UNCHANGED <<dir, tmp, writer, overlapped, making, granted, ignored, hit, share, poll, files>>,
         \/ UNCHANGED <<offer, server>>
         \/ \E o \in OfferIds : /\ offer' = [offer EXCEPT ![o].record = FALSE]
                                /\ server' = [server EXCEPT ![o].stop = TRUE]
  PROVE  Inv'
<1>1. /\ Failed \in JoinType /\ AttemptOK(j, Failed, dir[j], hit)
      /\ KeysOK(j, Failed, dir[j], dir[Home], ignored)
  BY FreeToTry, FailedOK
<1>2. files' \in FilesType /\ files'.grant = files.grant
  BY DEF Inv, Shape
<1>3. join[j].pc # "append"
  BY DEF Seeking
<1> HIDE DEF Failed
<1> QED BY <1>1, <1>2, <1>3, JoinMoves

\* The same for one that starts to look for the offer.
LEMMA AttemptSeeks ==
  ASSUME Inv, NEW j \in Joiners, join[j].pc \in {"idle", "failed"}, ~dir[j].dot,
         NEW r \in JoinType, r.pc \in Seeking, r.pc = "await" => r.offer # 0, r.kind # "session",
         join' = [join EXCEPT ![j] = r], files' \in FilesType, files'.grant = files.grant,
         UNCHANGED <<dir, tmp, writer, overlapped, making, granted, ignored, hit, share, poll, offer, server>>
  PROVE  Inv'
BY SeekingOK, JoinMoves

\* accept_code with a code of this process: both ends are one device.
LEMMA AcceptSessionKeeps ==
  ASSUME Inv, NEW o \in Offers, NEW j \in Joiners, AcceptSession(j, o)
  PROVE  Inv'
<1>1. /\ UNCHANGED <<dir, tmp, writer, overlapped, making, granted, ignored, hit, share, files, poll>>
      /\ join[j].pc \in {"idle", "failed"} /\ j \in Local /\ offer[o].record
  BY DEF AcceptSession, envVars, Free, InMap
<1>2. o \in OfferIds
  BY DEF OfferIds
<1>3. CASE offer[o].expired
  <2>1. join' = [join EXCEPT ![j] = Failed]
    BY <1>3 DEF AcceptSession, Ends
  <2>2. /\ offer' = [offer EXCEPT ![o].record = FALSE]
        /\ server' = [server EXCEPT ![o].stop = TRUE]
    BY <1>3 DEF AcceptSession
  <2> QED BY <1>1, <1>2, <2>1, <2>2, AttemptFails
<1>4. CASE ~offer[o].expired /\ dir[j].dot
  <2>1. join' = [join EXCEPT ![j] = Failed] /\ UNCHANGED <<offer, server>>
    BY <1>4 DEF AcceptSession, Attempt
  <2> QED BY <1>1, <2>1, AttemptFails
<1>5. CASE ~offer[o].expired /\ ~dir[j].dot
  <2> DEFINE r == [pc |-> "mkdir", offer |-> o, kind |-> "session"]
  <2>1. join' = [join EXCEPT ![j] = r] /\ UNCHANGED <<offer, server>>
    BY <1>5 DEF AcceptSession, Attempt
  <2>2. r \in JoinType /\ r.pc = "mkdir" /\ r.kind = "session"
    BY <1>2 DEF JoinType, Adopting
  <2> HIDE DEF r
  <2>3. AttemptOK(j, r, dir[j], hit)
    BY <1>1, <1>5, <2>2 DEF AttemptOK
  <2>4. making = "ready" /\ Owner[j] = Owner[Home]
    BY <1>1, Standing, JoiningAssumption DEF Prepared
  <2>5. ~overlapped => KeysOK(j, r, dir[j], dir[Home], ignored)
    BY <2>2, <2>4, HomeListed DEF KeysOK
  <2>6. files' \in FilesType /\ files'.grant = files.grant
    BY <1>1 DEF Inv, Shape
  <2> QED BY <1>1, <2>1, <2>2, <2>3, <2>5, <2>6, JoinMoves
<1> QED
  BY <1>3, <1>4, <1>5

\* accept_code with another code.
LEMMA AcceptCodeKeeps ==
  ASSUME Inv, NEW o \in Offers, NEW j \in Joiners, AcceptCode(j, o)
  PROVE  Inv'
<1>1. /\ UNCHANGED <<dir, tmp, writer, overlapped, making, granted, ignored, hit, share, files, poll,
                     offer, server>>
      /\ join[j].pc \in {"idle", "failed"}
  BY DEF AcceptCode, envVars, Free
<1>2. CASE dir[j].dot
  <2>1. join' = [join EXCEPT ![j] = Failed]
    BY <1>2 DEF AcceptCode, Attempt
  <2> QED BY <1>1, <2>1, AttemptFails
<1>3. CASE ~dir[j].dot
  <2> DEFINE r == [pc |-> "discover", offer |-> o, kind |-> "network"]
  <2>1. join' = [join EXCEPT ![j] = r]
    BY <1>3 DEF AcceptCode, Attempt
  <2>2. r \in JoinType /\ r.pc = "discover" /\ r.kind = "network"
    BY DEF JoinType, Seeking, OfferIds
  <2> HIDE DEF r
  <2>3. files' \in FilesType /\ files'.grant = files.grant /\ r.pc \in Seeking
    BY <1>1, <2>2 DEF Inv, Shape, Seeking
  <2> QED BY <1>1, <1>3, <2>1, <2>2, <2>3, AttemptSeeks
<1> QED
  BY <1>2, <1>3

\* accept_payload: the response is written beside the offer file.
LEMMA AcceptPayloadKeeps ==
  ASSUME Inv, NEW j \in Joiners, AcceptPayload(j)
  PROVE  Inv'
<1>1. /\ UNCHANGED <<dir, tmp, writer, overlapped, making, granted, ignored, hit, share, poll,
                     offer, server>>
      /\ join[j].pc \in {"idle", "failed"} /\ files.offer # 0
  BY DEF AcceptPayload, envVars, Free
<1>2. PICK o \in OfferIds : o = files.offer
  BY DEF Inv, Shape, FilesType
<1> DEFINE ok == ~dir[j].dot /\ ~offer[o].expired
<1>3. CASE ~ok
  <2>1. join' = [join EXCEPT ![j] = Failed] /\ files' = files
    BY <1>2, <1>3 DEF AcceptPayload, Attempt
  <2> QED BY <1>1, <2>1, AttemptFails
<1>4. CASE ok
  <2> DEFINE r == [pc |-> "await", offer |-> o, kind |-> "file"]
             p == [offer |-> o, device |-> Owner[j]]
  <2>1. join' = [join EXCEPT ![j] = r] /\ files' = [files EXCEPT !.resp = p]
    BY <1>2, <1>4 DEF AcceptPayload, Attempt
  <2>2. r \in JoinType /\ r.pc = "await" /\ r.kind = "file" /\ r.offer = o
    BY DEF JoinType, Seeking
  <2>3. p \in [offer : OfferIds, device : Devices]
    BY TasksAre
  <2> HIDE DEF r, p
  <2>4. files' \in FilesType /\ files'.grant = files.grant
    BY <2>1, <2>3 DEF Inv, Shape, FilesType
  <2>5. r.pc \in Seeking
    BY <2>2 DEF Seeking
  <2> QED BY <1>1, <1>2, <1>4, <2>1, <2>2, <2>4, <2>5, AttemptSeeks
<1> QED
  BY <1>3, <1>4

\* The client finds the server, and answers the offer it is sent.
LEMMA ClientKeeps ==
  ASSUME Inv, NEW j \in Joiners, Discover(j) \/ Respond(j)
  PROVE  Inv'
<1>1. /\ UNCHANGED <<dir, tmp, writer, overlapped, making, granted, ignored, hit, share, poll,
                     offer, server, files>>
      /\ join[j].pc \in {"discover", "offered"}
  BY DEF Discover, Respond, envVars
<1>2. PICK s \in {"connected", "responded"} : join' = [join EXCEPT ![j].pc = s]
  BY DEF Discover, Respond, At
<1> DEFINE r == [join[j] EXCEPT !.pc = s]
<1>3. join' = [join EXCEPT ![j] = r]
  BY <1>2
<1>4. r \in JoinType /\ r.pc = s /\ r.offer = join[j].offer /\ r.kind = join[j].kind
  BY <1>2, NextPc DEF Seeking
<1> HIDE DEF r
<1>5. AttemptOK(j, r, dir[j], hit)
  BY <1>1, <1>2, <1>4, Standing DEF Attempts, AttemptOK, Seeking
<1>6. KeysOK(j, r, dir[j], dir[Home], ignored)
  BY <1>2, <1>4 DEF KeysOK, Adopting
<1>7. files' \in FilesType /\ files'.grant = files.grant
  BY <1>1 DEF Inv, Shape
<1> QED
  BY <1>1, <1>3, <1>4, <1>5, <1>6, <1>7, JoinMoves

\* It is not answered in time.
LEMMA GiveUpKeeps ==
  ASSUME Inv, NEW j \in Joiners, GiveUp(j)
  PROVE  Inv'
<1>1. /\ UNCHANGED <<dir, tmp, writer, overlapped, making, granted, ignored, hit, share, poll,
                     offer, server, files>>
      /\ join[j].pc \in Seeking
  BY DEF GiveUp, envVars, Seeking
<1>2. join' = [join EXCEPT ![j] = Failed]
  BY DEF GiveUp, Ends
<1> QED
  BY <1>1, <1>2, AttemptFails

\* The grant file: the sharing side listed the device before it wrote it.
LEMMA ReadGrantKeeps ==
  ASSUME Inv, NEW j \in Joiners, ReadGrant(j)
  PROVE  Inv'
<1>1. /\ UNCHANGED <<dir, tmp, writer, overlapped, making, granted, ignored, hit, share, poll,
                     offer, server, files>>
      /\ join[j].pc = "await" /\ join[j].pc \in Seeking
  BY DEF ReadGrant, envVars, Seeking
<1>2. CASE ~ForUs(j)
  <2>1. join' = [join EXCEPT ![j] = Failed]
    BY <1>2 DEF ReadGrant, Attempt
  <2> QED BY <1>1, <2>1, AttemptFails
<1>3. CASE ForUs(j)
  <2>1. PICK o \in OfferIds : o = join[j].offer
    BY DEF Inv, Shape, JoinType
  <2> DEFINE r == [pc |-> "mkdir", offer |-> o, kind |-> "file"]
  <2>2. join' = [join EXCEPT ![j] = r]
    BY <1>3, <2>1 DEF ReadGrant, Attempt
  <2>3. r \in JoinType /\ r.pc = "mkdir" /\ r.kind = "file"
    BY DEF JoinType, Adopting
  <2> HIDE DEF r
  <2>4. ~dir[j].dot /\ o # 0
    BY <1>1, <2>1, Standing DEF Attempts, AttemptOK, Seeking
  <2>5. AttemptOK(j, r, dir[j], hit)
    BY <2>3, <2>4 DEF AttemptOK
  <2>6. ~overlapped => Owner[j] \in dir[Home].conf
    BY <1>3, <2>1, <2>4, Standing DEF ForUs, SealedUnder, WrappedFor
  <2>7. ~overlapped => KeysOK(j, r, dir[j], dir[Home], ignored)
    BY <2>3, <2>6 DEF KeysOK
  <2>8. files' \in FilesType /\ files'.grant = files.grant
    BY <1>1 DEF Inv, Shape
  <2> QED BY <1>1, <2>2, <2>3, <2>5, <2>7, <2>8, JoinMoves
<1> QED
  BY <1>2, <1>3

\* join_via_session: both ends are this device, so both are listed.
LEMMA SessionJoinedKeeps ==
  ASSUME Inv, NEW j \in Joiners, SessionJoined(j)
  PROVE  Inv'
<1>1. /\ UNCHANGED <<dir, tmp, writer, overlapped, making, granted, ignored, hit, share, poll, files>>
      /\ join[j].pc = "record" /\ join[j].kind = "session"
  BY DEF SessionJoined, envVars
<1>2. PICK o \in OfferIds : o = join[j].offer
  BY DEF Inv, Shape, JoinType
<1> DEFINE r == [Failed EXCEPT !.pc = "done"]
<1>3. /\ join' = [join EXCEPT ![j] = r] /\ offer' = [offer EXCEPT ![o].record = FALSE]
      /\ server' = [server EXCEPT ![o].stop = TRUE]
  BY <1>2 DEF SessionJoined, Ends
<1>4. r \in JoinType /\ r.pc = "done" /\ r.kind = "none"
  BY DEF Failed, JoinType, OfferIds
<1> HIDE DEF r
<1>5. AttemptOK(j, r, dir[j], hit)
  BY <1>1, <1>4, Standing DEF Attempts, AttemptOK, Seeking
<1>6. j \in Local /\ Owner[j] = Owner[Home]
  BY <1>1, Standing, JoiningAssumption DEF Attempts, AttemptOK
<1>7. ~overlapped => KeysOK(j, r, dir[j], dir[Home], ignored)
  BY <1>1, <1>4, <1>6, Standing DEF KeysHeld, KeysOK, Adopting
<1>8. files' \in FilesType /\ files'.grant = files.grant
  BY <1>1 DEF Inv, Shape
<1> QED
  BY <1>1, <1>2, <1>3, <1>4, <1>5, <1>7, <1>8, JoinMoves

-----------------------------------------------------------------------------
(* The steps that start an append, and the ones that end it. *)

\* What keeps the tasks other than t busy goes on.
OthersGoOn(t) ==
  /\ t # Poller /\ poll.pc = "append" => poll'.pc = "append" /\ poll'.device = poll.device
  /\ \A o \in Offers : o # t /\ server[o].pc = "append" =>
       server'[o].pc = "append" /\ server'[o].conn = server[o].conn
  /\ \A j \in Joiners : j # t /\ join[j].pc = "append" => join'[j].pc = "append"

\* The same for the tasks of all actors but one.
LEMMA OthersBusy ==
  ASSUME Employed, NEW t \in Tasks, OthersGoOn(t)
  PROVE  \A s \in Tasks : s # t /\ writer[s].pc # "idle" => Busy(s)' /\ Wanted(s)' = Wanted(s)
BY JoiningAssumption DEF Employed, OthersGoOn, Busy, Wanted

Active == {"read", "open", "write", "rename"}

\* One task moves on, the folders being as before.
LEMMA WriterMoves ==
  ASSUME Inv, NEW t \in Tasks, NEW w \in WriterType, writer' = [writer EXCEPT ![t] = w],
         UNCHANGED <<dir, tmp>>, overlapped => overlapped', OthersGoOn(t),
         w.pc # "idle" => Busy(t)', w.pc \in Active => w.place = Where(t),
         ~overlapped' => /\ WriterOK(w, dir[Where(t)].conf, tmp[Where(t)])
                         /\ w.pc \in Active => w.who = Wanted(t)'
                         /\ w.pc = "done" /\ w.ok => Wanted(t)' \in dir[Where(t)].conf
                         /\ \/ w.pc \notin Active \/ Writing(t)
                            \/ \A s \in Tasks : s # t /\ Writing(s) => Where(s) # Where(t)
  PROVE  Employed' /\ (~overlapped' => Writers')
<1>1. writer'[t] = w /\ \A s \in Tasks : s # t => writer'[s] = writer[s]
  BY DEF Inv, Shape
<1>2. \A s \in Tasks : s # t /\ writer[s].pc # "idle" => Busy(s)' /\ Wanted(s)' = Wanted(s)
  BY OthersBusy DEF Inv
<1>3. \A s \in Tasks : s # t => (Writing(s)' <=> Writing(s))
  BY <1>1 DEF Writing
<1>4. Writing(t)' <=> w.pc \in Active
  BY <1>1 DEF Writing, Active
<1>5. Employed'
  <2>1. ASSUME NEW s \in Tasks
        PROVE  /\ writer'[s].pc # "idle" => Busy(s)'
               /\ Writing(s)' => writer'[s].place = Where(s)
    <3>1. CASE s = t
      BY <1>1, <1>4, <3>1
    <3>2. CASE s # t
      BY <1>1, <1>2, <1>3, <3>2 DEF Inv, Employed
    <3> QED BY <3>1, <3>2
  <2> QED BY <2>1 DEF Employed, Where
<1>6. ASSUME ~overlapped' PROVE Writers'
  <2>0. Writers
    BY <1>6 DEF Inv
  <2>1. ASSUME NEW s \in Tasks, NEW u \in Tasks, s # u, Writing(s)', Writing(u)'
        PROVE  Where(s) # Where(u)
    <3>1. CASE s # t /\ u # t
      BY <1>3, <2>0, <2>1, <3>1 DEF Writers, Exclusive
    <3>2. CASE s = t
      BY <1>3, <1>4, <1>6, <2>0, <2>1, <3>2 DEF Writers, Exclusive
    <3>3. CASE u = t
      BY <1>3, <1>4, <1>6, <2>0, <2>1, <3>3 DEF Writers, Exclusive
    <3> QED BY <3>1, <3>2, <3>3
  <2>2. Exclusive'
    BY <2>1 DEF Exclusive, Where
  <2>3. ASSUME NEW s \in Tasks
        PROVE  /\ WriterOK(writer'[s], dir[Where(s)].conf, tmp[Where(s)])
               /\ Writing(s)' => writer'[s].who = Wanted(s)'
               /\ writer'[s].pc = "done" /\ writer'[s].ok => Wanted(s)' \in dir[Where(s)].conf
    <3>1. CASE s = t
      BY <1>1, <1>4, <1>6, <3>1
    <3>2. CASE s # t
      <4>1. Writing(s) => writer[s].pc # "idle"
        BY DEF Writing
      <4> QED BY <1>1, <1>2, <1>3, <2>0, <3>2, <4>1 DEF Writers, Untorn, Lists
    <3> QED BY <3>1, <3>2
  <2>4. Untorn'
    BY <2>3 DEF Untorn, Where
  <2>5. Lists'
    BY <2>3 DEF Lists, Where
  <2> QED BY <2>2, <2>4, <2>5 DEF Writers
<1> QED
  BY <1>5, <1>6

\* append_wrap_entry_for is called for a task that has nothing to do.
LEMMA BeginKeeps ==
  ASSUME Inv, NEW t \in Tasks, NEW device \in Devices, Begin(t, Where(t), device),
         UNCHANGED <<dir, tmp>>, ~Busy(t), Busy(t)', Wanted(t)' = device, OthersGoOn(t)
  PROVE  /\ writer' \in [Tasks -> WriterType] /\ overlapped' \in BOOLEAN
         /\ overlapped => overlapped'
         /\ Employed' /\ (~overlapped' => Writers')
<1> DEFINE w == [Asleep EXCEPT !.pc = "read", !.place = Where(t), !.who = device]
<1>1. Where(t) \in Places
  BY TasksAre
<1>2. w \in WriterType /\ w.pc = "read" /\ w.place = Where(t) /\ w.who = device
  BY <1>1 DEF Asleep, WriterType
<1>3. /\ writer' = [writer EXCEPT ![t] = w]
      /\ overlapped' = (overlapped \/ \E s \in Tasks \ {t} : Writing(s) /\ writer[s].place = Where(t))
  BY DEF Begin
<1> HIDE DEF w
<1>4. overlapped' \in BOOLEAN /\ (overlapped => overlapped')
  BY <1>3
<1>5. writer' \in [Tasks -> WriterType]
  BY <1>2, <1>3 DEF Inv, Shape
<1>6. ~overlapped' => \A s \in Tasks : s # t /\ Writing(s) => Where(s) # Where(t)
  BY <1>3 DEF Inv, Employed
<1>7. WriterOK(w, dir[Where(t)].conf, tmp[Where(t)])
  BY <1>2 DEF WriterOK
<1>8. Employed' /\ (~overlapped' => Writers')
  BY <1>2, <1>3, <1>4, <1>6, <1>7, WriterMoves
<1> QED
  BY <1>4, <1>5, <1>8

\* A task is done with.
LEMMA SleepKeeps ==
  ASSUME Inv, NEW t \in Tasks, writer' = [writer EXCEPT ![t] = Asleep],
         UNCHANGED <<dir, tmp, overlapped>>, OthersGoOn(t)
  PROVE  writer' \in [Tasks -> WriterType] /\ Employed' /\ (~overlapped' => Writers')
<1>1. Asleep \in WriterType /\ Asleep.pc = "idle"
  BY TasksAre DEF Asleep, WriterType
<1> HIDE DEF Asleep
<1>2. WriterOK(Asleep, dir[Where(t)].conf, tmp[Where(t)]) /\ Asleep.pc \notin Active
  BY <1>1 DEF WriterOK, Active
<1>3. writer' \in [Tasks -> WriterType]
  BY <1>1 DEF Inv, Shape
<1> QED
  BY <1>1, <1>2, <1>3, WriterMoves

\* A step of a task that touches no folder.
LEMMA TaskStepKept ==
  ASSUME Inv, Shape', UNCHANGED <<dir, making>>, hit \subseteq hit',
         Employed', ~overlapped' => Writers', overlapped => overlapped', ignored => ignored',
         making # "ready" => share'.pc = "idle" /\ poll'.pc = "idle",
         \A o \in Offers :
           \/ offer'[o] = offer[o] /\ server'[o] = server[o] /\ granted'[o] = granted[o]
           \/ /\ OfferOK(offer'[o], server'[o], granted'[o])
              /\ making # "ready" => ~offer'[o].made /\ ~offer'[o].record,
         ~overlapped /\ poll'.pc \in {"truncate", "write"} => poll'.device \in dir[Home].conf,
         files' = files,
         \A j \in Joiners :
           \/ join'[j] = join[j]
           \/ /\ AttemptOK(j, join'[j], dir[j], hit')
              /\ ~overlapped => KeysOK(j, join'[j], dir[j], dir[Home], ignored')
  PROVE  Inv'
<1>1. Rest'
  BY RestKept DEF Inv
<1>2. ASSUME ~overlapped' PROVE RestQuiet'
  <2>1. ~overlapped
    BY <1>2
  <2> QED BY <2>1, Standing, RestQuietKept DEF Inv
<1> QED
  BY <1>1, <1>2 DEF Inv

\* poll_offer_at finds a response.
LEMMA PollOfferKeeps ==
  ASSUME Inv, PollOffer
  PROVE  Inv'
<1>1. /\ UNCHANGED <<dir, tmp, making, granted, ignored, hit, offer, server, share, files, join>>
      /\ poll.pc = "idle" /\ Begin(Poller, Home, files.resp.device)
  BY DEF PollOffer
<1>2. making = "ready"
  BY ReadyIfOpen DEF PollOffer, StatusPolls
<1>3. PICK device \in Devices : device = files.resp.device
  BY DEF Inv, Shape, FilesType
<1>4. poll' \in PollType /\ poll'.pc = "append" /\ poll'.device = device
  <2>1. files.offer \in OfferIds
    BY DEF Inv, Shape, FilesType
  <2>2. poll' = [pc |-> "append", offer |-> files.offer, device |-> device]
    BY <1>3 DEF PollOffer
  <2> QED BY <2>1, <2>2 DEF PollType
<1>5. ~Busy(Poller) /\ Busy(Poller)' /\ Wanted(Poller)' = device
  BY <1>1, <1>4, TasksAre DEF Busy, Wanted
<1>6. OthersGoOn(Poller)
  BY <1>1 DEF OthersGoOn
<1>7. Poller \in Tasks /\ Begin(Poller, Where(Poller), device)
  BY <1>1, <1>3, TasksAre
<1>8. /\ writer' \in [Tasks -> WriterType] /\ overlapped' \in BOOLEAN
      /\ overlapped => overlapped'
      /\ Employed' /\ (~overlapped' => Writers')
  BY <1>1, <1>5, <1>6, <1>7, BeginKeeps
<1>9. Shape'
  BY <1>1, <1>4, <1>8 DEF Inv, Shape
<1> QED
  BY <1>1, <1>2, <1>4, <1>8, <1>9, TaskStepKept, Standing

\* The device is listed, or it is not and there is no grant.
LEMMA PollAppendedKeeps ==
  ASSUME Inv, PollAppended
  PROVE  Inv'
<1>1. /\ UNCHANGED <<dir, tmp, overlapped, making, granted, ignored, hit, offer, server, share, files, join>>
      /\ poll.pc = "append" /\ writer[Poller].pc = "done"
      /\ writer' = [writer EXCEPT ![Poller] = Asleep]
  BY DEF PollAppended
<1>2. making = "ready"
  BY <1>1, Standing DEF Prepared
<1>3. PICK s \in {"truncate", "idle"} :
        poll' = [poll EXCEPT !.pc = s] /\ (s = "truncate" => writer[Poller].ok)
  BY DEF PollAppended
<1>4. poll' \in PollType /\ poll'.pc = s /\ poll'.device = poll.device
  BY <1>3 DEF Inv, Shape, PollType
<1>5. OthersGoOn(Poller)
  BY <1>1 DEF OthersGoOn
<1>6. writer' \in [Tasks -> WriterType] /\ Employed' /\ (~overlapped' => Writers')
  BY <1>1, <1>5, TasksAre, SleepKeeps
<1>7. Shape'
  BY <1>1, <1>4, <1>6 DEF Inv, Shape
<1>8. Wanted(Poller) = poll.device /\ Where(Poller) = Home
  BY TasksAre DEF Wanted
<1>9. ~overlapped /\ poll'.pc \in {"truncate", "write"} => poll'.device \in dir[Home].conf
  BY <1>1, <1>3, <1>4, <1>8, TasksAre DEF Inv, Writers, Lists
<1>10. making # "ready" => share'.pc = "idle" /\ poll'.pc = "idle"
  BY <1>2
<1> QED
  BY <1>1, <1>6, <1>7, <1>9, <1>10, TaskStepKept

\* The callback of the pairing server runs, or the response is refused.
LEMMA ServerResponseKeeps ==
  ASSUME Inv, NEW o \in Offers, ServerResponse(o)
  PROVE  Inv'
<1>1. /\ UNCHANGED <<dir, tmp, making, granted, ignored, hit, offer, share, files, poll, join>>
      /\ server[o].pc = "wait"
  BY DEF ServerResponse
<1>2. server[o] \in ServerType /\ join \in [Joiners -> JoinType]
  BY DEF Inv, Shape
<1>3. PICK j \in Joiners : j = server[o].conn
  BY <1>1, Standing DEF UsedUp, OfferOK
<1>4. CASE /\ Begin(o, Home, Owner[j])
           /\ server' = [server EXCEPT ![o].pc = "append", ![o].callback = FALSE]
  <2> DEFINE n == [server[o] EXCEPT !.pc = "append", !.callback = FALSE]
  <2>1. server' = [server EXCEPT ![o] = n]
    BY <1>4 DEF Inv, Shape
  <2>2. n \in ServerType /\ n.pc = "append" /\ n.conn = j
    BY <1>2, <1>3 DEF ServerType
  <2> HIDE DEF n
  <2>3. server'[o] = n /\ \A k \in Offers : k # o => server'[k] = server[k]
    BY <2>1 DEF Inv, Shape
  <2>4. ~Busy(o) /\ Busy(o)' /\ Wanted(o)' = Owner[j]
    BY <1>1, <2>2, <2>3, TasksAre DEF Busy, Wanted
  <2>5. OthersGoOn(o)
    BY <1>1, <2>3 DEF OthersGoOn
  <2>6. o \in Tasks /\ Begin(o, Where(o), Owner[j]) /\ Owner[j] \in Devices
    BY <1>4, TasksAre
  <2>7. /\ writer' \in [Tasks -> WriterType] /\ overlapped' \in BOOLEAN
        /\ overlapped => overlapped'
        /\ Employed' /\ (~overlapped' => Writers')
    BY <1>1, <2>4, <2>5, <2>6, BeginKeeps
  <2>8. Shape'
    BY <1>1, <2>1, <2>2, <2>7 DEF Inv, Shape
  <2>9. granted[o] = {} /\ offer[o].made /\ making = "ready"
    BY <1>1, Standing DEF UsedUp, OfferOK, Prepared
  <2>10. OfferOK(offer[o], n, granted[o])
    BY <2>2, <2>9 DEF OfferOK
  <2> QED BY <1>1, <2>3, <2>7, <2>8, <2>9, <2>10, TaskStepKept, Standing
<1>5. CASE UNCHANGED <<writer, overlapped>> /\ \E b \in {server[o].callback, FALSE} :
              server' = [server EXCEPT ![o].pc = "accept", ![o].conn = "none", ![o].callback = b]
  <2>1. PICK b \in BOOLEAN :
          server' = [server EXCEPT ![o].pc = "accept", ![o].conn = "none", ![o].callback = b]
    BY <1>2, <1>5 DEF ServerType
  <2> DEFINE n == [server[o] EXCEPT !.pc = "accept", !.conn = "none", !.callback = b]
  <2>2. server' = [server EXCEPT ![o] = n]
    BY <2>1 DEF Inv, Shape
  <2>3. n \in ServerType /\ n.pc = "accept"
    BY <1>2 DEF ServerType
  <2> HIDE DEF n
  <2> QED BY <1>1, <1>2, <1>5, <2>2, <2>3, ServerMoves
<1>6. ASSUME Serving(o, "accept", "none")
      PROVE  server' = [server EXCEPT ![o].pc = "accept", ![o].conn = "none",
                                      ![o].callback = server[o].callback]
  <2> DEFINE n == [server[o] EXCEPT !.pc = "accept", !.conn = "none"]
             m == [server[o] EXCEPT !.pc = "accept", !.conn = "none", !.callback = server[o].callback]
  <2>1. n = m
    BY <1>2 DEF ServerType
  <2>2. server' = [server EXCEPT ![o] = n]
    BY <1>6 DEF Serving, Inv, Shape
  <2>3. [server EXCEPT ![o].pc = "accept", ![o].conn = "none", ![o].callback = server[o].callback]
          = [server EXCEPT ![o] = m]
    BY DEF Inv, Shape
  <2> QED BY <2>1, <2>2, <2>3
<1>7. \/ /\ Begin(o, Home, Owner[j])
         /\ server' = [server EXCEPT ![o].pc = "append", ![o].callback = FALSE]
      \/ /\ server' = [server EXCEPT ![o].pc = "accept", ![o].conn = "none", ![o].callback = FALSE]
         /\ UNCHANGED <<writer, overlapped>>
      \/ Serving(o, "accept", "none") /\ UNCHANGED <<writer, overlapped>>
  BY <1>3 DEF ServerResponse
<1> QED
  BY <1>4, <1>5, <1>6, <1>7

\* The key is granted to the device that answered, and the code is used up.
LEMMA ServerGrantKeeps ==
  ASSUME Inv, NEW o \in Offers, ServerGrant(o)
  PROVE  Inv'
<1>1. /\ UNCHANGED <<dir, tmp, overlapped, making, hit, share, files, poll>>
      /\ server[o].pc = "append" /\ writer[o].pc = "done"
      /\ ignored' = (ignored \/ ~writer[o].ok)
      /\ writer' = [writer EXCEPT ![o] = Asleep]
      /\ offer' = [offer EXCEPT ![o].record = FALSE]
      /\ server' = [server EXCEPT ![o] = Off]
  BY DEF ServerGrant, ServerOff
<1>2. PICK j \in Joiners : j = server[o].conn
  BY <1>1, Standing DEF UsedUp, OfferOK
<1>3. granted[o] = {} /\ offer[o].made /\ making = "ready"
  BY <1>1, Standing DEF UsedUp, OfferOK, Prepared
<1>4. /\ granted' \in [Offers -> SUBSET Devices] /\ granted'[o] = {Owner[j]}
      /\ \A k \in Offers : k # o => granted'[k] = granted[k]
  <2>1. granted' = [granted EXCEPT ![o] = granted[o] \union {Owner[j]}]
    BY <1>2 DEF ServerGrant
  <2> QED BY <1>3, <2>1, TasksAre DEF Inv, Shape
<1>5. /\ offer' \in [Offers -> OfferType] /\ offer'[o].made
      /\ \A k \in Offers : k # o => offer'[k] = offer[k]
  <2> DEFINE of == [offer[o] EXCEPT !.record = FALSE]
  <2>1. offer' = [offer EXCEPT ![o] = of]
    BY <1>1
  <2>2. of \in OfferType /\ of.made = offer[o].made
    BY DEF Inv, Shape, OfferType
  <2> HIDE DEF of
  <2> QED BY <1>3, <2>1, <2>2 DEF Inv, Shape
<1>6. /\ server' \in [Offers -> ServerType] /\ server'[o].pc = "off"
      /\ \A k \in Offers : k # o => server'[k] = server[k]
  <2>1. Off \in ServerType /\ Off.pc = "off"
    BY DEF Off, ServerType
  <2> HIDE DEF Off
  <2> QED BY <1>1, <2>1 DEF Inv, Shape
<1>7. OfferOK(offer'[o], server'[o], granted'[o])
  BY <1>4, <1>5, <1>6, TasksAre DEF OfferOK
<1>8. Wanted(o) = Owner[j] /\ Where(o) = Home
  BY <1>2, TasksAre DEF Wanted
<1>9. ~overlapped /\ ~ignored' => Owner[j] \in dir[Home].conf
  BY <1>1, <1>8, TasksAre DEF Inv, Writers, Lists
<1>10. /\ join' \in [Joiners -> JoinType]
       /\ \A i \in Joiners : join[i].pc = "append" => join'[i] = join[i]
       /\ \A i \in Joiners :
            \/ join'[i] = join[i]
            \/ /\ AttemptOK(i, join'[i], dir[i], hit)
               /\ ~overlapped => KeysOK(i, join'[i], dir[i], dir[Home], ignored')
  <2>0. join \in [Joiners -> JoinType]
    BY DEF Inv, Shape
  <2>1. CASE ~(join[j].pc = "responded" /\ join[j].offer = o)
    <3>1. join' = join
      BY <1>2, <2>1 DEF ServerGrant, GrantTo
    <3> QED BY <2>0, <3>1
  <2>2. CASE join[j].pc = "responded" /\ join[j].offer = o
    <3> DEFINE r == [join[j] EXCEPT !.pc = "mkdir"]
    <3>1. join' = [join EXCEPT ![j] = r]
      BY <1>2, <2>2 DEF ServerGrant, GrantTo
    <3>2. r \in JoinType /\ r.pc = "mkdir" /\ r.kind = join[j].kind
      BY NextPc DEF Adopting
    <3> HIDE DEF r
    <3>3. AttemptOK(j, r, dir[j], hit)
      BY <2>2, <3>2, Standing DEF Attempts, AttemptOK, Seeking
    <3>4. ~overlapped => KeysOK(j, r, dir[j], dir[Home], ignored')
      BY <1>9, <3>2 DEF KeysOK
    <3> QED BY <2>0, <2>2, <3>1, <3>2, <3>3, <3>4
  <2> QED BY <2>1, <2>2
<1>11. OthersGoOn(o)
  BY <1>1, <1>6, <1>10 DEF OthersGoOn
<1>12. writer' \in [Tasks -> WriterType] /\ Employed' /\ (~overlapped' => Writers')
  BY <1>1, <1>11, TasksAre, SleepKeeps
<1>13. ignored' \in BOOLEAN /\ (ignored => ignored')
  BY <1>1
<1>14. Shape'
  BY <1>1, <1>4, <1>5, <1>6, <1>10, <1>12, <1>13 DEF Inv, Shape
<1>15. hit' = hit /\ hit \subseteq hit'
  BY <1>1
<1> QED
  BY <1>1, <1>3, <1>4, <1>5, <1>6, <1>7, <1>10, <1>12, <1>13, <1>14, <1>15, TaskStepKept, Standing

\* adopt_and_record starts to list the sharing device.
LEMMA RecordKeeps ==
  ASSUME Inv, NEW j \in Joiners, Record(j)
  PROVE  Inv'
<1>1. /\ UNCHANGED <<dir, tmp, making, granted, ignored, hit, offer, server, share, files, poll>>
      /\ join[j].pc = "record" /\ Begin(j, j, Owner[Home])
  BY DEF Record
<1> DEFINE r == [join[j] EXCEPT !.pc = "append"]
<1>2. join' = [join EXCEPT ![j] = r]
  BY DEF Record, At
<1>3. r \in JoinType /\ r.pc = "append" /\ r.kind = join[j].kind
  BY NextPc DEF Adopting
<1> HIDE DEF r
<1>4. join' \in [Joiners -> JoinType] /\ join'[j] = r /\ \A i \in Joiners : i # j => join'[i] = join[i]
  BY <1>2, <1>3 DEF Inv, Shape
<1>5. AttemptOK(j, r, dir[j], hit)
  BY <1>1, <1>3, Standing DEF Attempts, AttemptOK, Seeking
<1>6. ~overlapped => KeysOK(j, r, dir[j], dir[Home], ignored)
  BY <1>1, <1>3, Standing DEF KeysHeld, KeysOK, Adopting
<1>7. ~Busy(j) /\ Busy(j)' /\ Wanted(j)' = Owner[Home]
  BY <1>1, <1>3, <1>4 DEF Busy, Wanted
<1>8. OthersGoOn(j)
  BY <1>1, <1>4 DEF OthersGoOn
<1>9. j \in Tasks /\ Begin(j, Where(j), Owner[Home]) /\ Owner[Home] \in Devices
  BY <1>1, TasksAre
<1>10. /\ writer' \in [Tasks -> WriterType] /\ overlapped' \in BOOLEAN
       /\ overlapped => overlapped'
       /\ Employed' /\ (~overlapped' => Writers')
  BY <1>1, <1>7, <1>8, <1>9, BeginKeeps
<1>11. Shape'
  BY <1>1, <1>4, <1>10 DEF Inv, Shape
<1>12. making # "ready" => share'.pc = "idle" /\ poll'.pc = "idle"
  BY <1>1, Standing DEF Prepared
<1> QED
  BY <1>1, <1>4, <1>5, <1>6, <1>10, <1>11, <1>12, TaskStepKept, Standing

\* The join is done when it is listed.
LEMMA RecordedKeeps ==
  ASSUME Inv, NEW j \in Joiners, Recorded(j)
  PROVE  Inv'
<1>1. /\ UNCHANGED <<dir, tmp, overlapped, making, granted, ignored, offer, server, share, files, poll>>
      /\ join[j].pc = "append" /\ writer[j].pc = "done"
      /\ writer' = [writer EXCEPT ![j] = Asleep]
      /\ hit' = IF writer[j].ok THEN hit ELSE hit \union {j}
  BY DEF Recorded
<1>2. PICK r \in JoinType : /\ join' = [join EXCEPT ![j] = r]
                            /\ AttemptOK(j, r, dir[j], hit')
                            /\ ~overlapped => KeysOK(j, r, dir[j], dir[Home], ignored)
  <2>1. CASE writer[j].ok
    <3> DEFINE r == [Failed EXCEPT !.pc = "done"]
    <3>1. join' = [join EXCEPT ![j] = r] /\ hit' = hit
      BY <1>1, <2>1 DEF Recorded, Ends
    <3>2. r \in JoinType /\ r.pc = "done" /\ r.kind = "none"
      BY DEF Failed, JoinType, OfferIds
    <3> HIDE DEF r
    <3>3. AttemptOK(j, r, dir[j], hit')
      BY <1>1, <3>1, <3>2, Standing DEF Attempts, AttemptOK, Seeking
    <3>4. ~overlapped => Owner[Home] \in dir[j].conf
      BY <1>1, <2>1, TasksAre DEF Inv, Writers, Lists, Wanted
    <3>5. ~overlapped => KeysOK(j, r, dir[j], dir[Home], ignored)
      BY <1>1, <3>2, <3>4, Standing DEF KeysHeld, KeysOK, Adopting
    <3> QED BY <3>1, <3>2, <3>3, <3>5
  <2>2. CASE ~writer[j].ok
    <3>1. join' = [join EXCEPT ![j] = Failed] /\ j \in hit'
      BY <1>1, <2>2 DEF Recorded, Ends
    <3>2. Failed \in JoinType /\ Failed.pc = "failed" /\ Failed.kind = "none"
      BY DEF Failed, JoinType, OfferIds
    <3> HIDE DEF Failed
    <3>3. AttemptOK(j, Failed, dir[j], hit')
      BY <3>1, <3>2 DEF AttemptOK, Seeking
    <3>4. KeysOK(j, Failed, dir[j], dir[Home], ignored)
      BY <3>2 DEF KeysOK, Adopting
    <3> QED BY <3>1, <3>2, <3>3, <3>4
  <2> QED BY <2>1, <2>2
<1>3. join' \in [Joiners -> JoinType] /\ join'[j] = r /\ \A i \in Joiners : i # j => join'[i] = join[i]
  BY <1>2 DEF Inv, Shape
<1>4. OthersGoOn(j)
  BY <1>1, <1>3 DEF OthersGoOn
<1>5. writer' \in [Tasks -> WriterType] /\ Employed' /\ (~overlapped' => Writers')
  BY <1>1, <1>4, TasksAre, SleepKeeps
<1>6. hit \subseteq hit' /\ hit' \subseteq Joiners
  BY <1>1 DEF Inv, Shape
<1>7. Shape'
  BY <1>1, <1>3, <1>5, <1>6 DEF Inv, Shape
<1>8. making # "ready" => share'.pc = "idle" /\ poll'.pc = "idle"
  BY <1>1, Standing DEF Prepared
<1> QED
  BY <1>1, <1>2, <1>3, <1>5, <1>6, <1>7, <1>8, TaskStepKept, Standing

-----------------------------------------------------------------------------
(* Crashes. *)

\* The sharing process dies.
LEMMA HostCrashKeeps ==
  ASSUME Inv, HostCrash
  PROVE  Inv'
<1>1. /\ UNCHANGED <<dir, tmp, overlapped, making, files, granted, ignored>>
      /\ making = "ready" /\ share' = Idle
      /\ offer' = [o \in Offers |-> [offer[o] EXCEPT !.record = FALSE]]
      /\ server' = [o \in Offers |-> Off]
      /\ poll' = [pc |-> "idle", offer |-> 0, device |-> "none"]
      /\ writer' = [t \in Tasks |-> IF t \in Joiners \ Local THEN writer[t] ELSE Asleep]
      /\ join' = Broken
      /\ hit' = hit \union {j \in Joiners : Broken[j] # join[j] /\ dir[j].dot}
  BY DEF HostCrash
<1>2. Asleep \in WriterType /\ Asleep.pc = "idle"
  BY TasksAre DEF Asleep, WriterType
<1>3. Off \in ServerType /\ Off.pc = "off"
  BY DEF Off, ServerType
<1>4. Failed \in JoinType /\ Failed.pc = "failed" /\ Failed.kind = "none"
  BY DEF Failed, JoinType, OfferIds
<1>5. poll' \in PollType /\ poll'.pc = "idle"
  BY <1>1, TasksAre DEF PollType, OfferIds
<1>6. \A o \in Offers : offer'[o] \in OfferType /\ offer'[o].made = offer[o].made
  <2>1. ASSUME NEW o \in Offers PROVE offer'[o] \in OfferType /\ offer'[o].made = offer[o].made
    <3>1. offer[o] \in OfferType /\ offer'[o] = [offer[o] EXCEPT !.record = FALSE]
      BY <1>1 DEF Inv, Shape
    <3> QED BY <3>1 DEF OfferType
  <2> QED BY <2>1
<1> HIDE DEF Asleep, Off, Failed
<1>7. \A j \in Joiners : \/ join'[j] = join[j]
                         \/ join'[j] = Failed /\ j \in Local /\ (dir[j].dot => j \in hit')
  <2>1. ASSUME NEW j \in Joiners
        PROVE  join'[j] = join[j] \/ (join'[j] = Failed /\ j \in Local /\ (dir[j].dot => j \in hit'))
    <3>1. join'[j] = Broken[j]
      BY <1>1
    <3>2. Broken[j] = IF j \in Local /\ join[j].pc \notin {"idle", "done", "failed"}
                      THEN Failed ELSE join[j]
      BY DEF Broken
    <3> HIDE DEF Broken
    <3>3. Broken[j] # join[j] /\ dir[j].dot => j \in hit'
      BY <1>1
    <3> QED BY <3>1, <3>2, <3>3
  <2> QED BY <2>1
<1>8. join' \in [Joiners -> JoinType]
  <2>1. join' = [j \in Joiners |-> join'[j]]
    BY <1>1 DEF Broken
  <2> QED BY <1>4, <1>7, <2>1 DEF Inv, Shape
<1>9. /\ writer' \in [Tasks -> WriterType] /\ offer' \in [Offers -> OfferType]
      /\ server' \in [Offers -> ServerType] /\ share' \in ShareType
  BY <1>1, <1>2, <1>3, <1>6 DEF Inv, Shape, ShareType
<1>10. hit \subseteq hit' /\ hit' \subseteq Joiners
  BY <1>1 DEF Inv, Shape
<1>11. Shape'
  BY <1>1, <1>5, <1>8, <1>9, <1>10 DEF Inv, Shape
<1>12. \A t \in Tasks : \/ t \in Joiners \ Local /\ writer'[t] = writer[t] /\ join'[t] = join[t]
                        \/ writer'[t] = Asleep
  BY <1>1, <1>7
<1>13. Employed'
  BY <1>2, <1>12 DEF Inv, Employed, Busy, Writing, Where
<1>14. ASSUME ~overlapped' PROVE Writers'
  <2>1. Writers
    BY <1>1, <1>14 DEF Inv
  <2>2. \A s \in Tasks : Writing(s)' => Writing(s)
    BY <1>2, <1>12 DEF Writing
  <2>3. Exclusive'
    BY <2>1, <2>2 DEF Writers, Exclusive, Where
  <2>4. \A s \in Tasks : WriterOK(Asleep, dir[Where(s)].conf, tmp[Where(s)])
    BY <1>2 DEF WriterOK
  <2>5. Untorn'
    BY <1>1, <1>12, <2>1, <2>4 DEF Writers, Untorn, Where
  <2>6. Lists'
    BY <1>1, <1>2, <1>12, <2>1 DEF Writers, Lists, Writing, Wanted, Where
  <2> QED BY <2>3, <2>5, <2>6 DEF Writers
<1>15. \A o \in Offers : OfferOK(offer'[o], server'[o], granted'[o])
  <2>1. \A o \in Offers : server'[o].pc = "off"
    BY <1>1, <1>3
  <2> QED BY <1>1, <1>6, <2>1, Standing DEF UsedUp, OfferOK
<1>16. ASSUME NEW j \in Joiners, join'[j] = Failed, dir[j].dot => j \in hit'
       PROVE  /\ AttemptOK(j, join'[j], dir[j], hit')
              /\ KeysOK(j, join'[j], dir[j], dir[Home], ignored')
  <2>1. AttemptOK(j, Failed, dir[j], hit')
    BY <1>4, <1>16 DEF AttemptOK, Seeking
  <2>2. KeysOK(j, Failed, dir[j], dir[Home], ignored')
    BY <1>4 DEF KeysOK, Adopting
  <2> QED BY <1>16, <2>1, <2>2
<1>17. \A j \in Joiners : \/ join'[j] = join[j]
                          \/ /\ AttemptOK(j, join'[j], dir[j], hit')
                             /\ KeysOK(j, join'[j], dir[j], dir[Home], ignored')
  BY <1>7, <1>16
<1> QED
  BY <1>1, <1>5, <1>10, <1>11, <1>13, <1>14, <1>15, <1>17, TaskStepKept, Standing

\* A joiner in a process of its own dies.
LEMMA JoinerCrashKeeps ==
  ASSUME Inv, NEW j \in Joiners, JoinerCrash(j)
  PROVE  Inv'
<1>1. /\ UNCHANGED <<dir, tmp, overlapped, making, granted, ignored, offer, server, share, files, poll>>
      /\ writer' = [writer EXCEPT ![j] = Asleep]
      /\ join' = [join EXCEPT ![j] = Failed]
      /\ hit' = Cut(j)
  BY DEF JoinerCrash, Ends
<1>2. Failed \in JoinType /\ Failed.pc = "failed" /\ Failed.kind = "none"
  BY DEF Failed, JoinType, OfferIds
<1> HIDE DEF Failed
<1>3. join' \in [Joiners -> JoinType] /\ join'[j] = Failed /\ \A i \in Joiners : i # j => join'[i] = join[i]
  BY <1>1, <1>2 DEF Inv, Shape
<1>4. OthersGoOn(j)
  BY <1>1, <1>3 DEF OthersGoOn
<1>5. writer' \in [Tasks -> WriterType] /\ Employed' /\ (~overlapped' => Writers')
  BY <1>1, <1>4, TasksAre, SleepKeeps
<1>6. hit \subseteq hit' /\ hit' \subseteq Joiners /\ (dir[j].dot => j \in hit')
  BY <1>1 DEF Inv, Shape, Cut
<1>7. Shape'
  BY <1>1, <1>3, <1>5, <1>6 DEF Inv, Shape
<1>8. making # "ready" => share'.pc = "idle" /\ poll'.pc = "idle"
  BY <1>1, Standing DEF Prepared
<1>9. AttemptOK(j, Failed, dir[j], hit')
  BY <1>2, <1>6 DEF AttemptOK, Seeking
<1>10. KeysOK(j, Failed, dir[j], dir[Home], ignored)
  BY <1>2 DEF KeysOK, Adopting
<1> QED
  BY <1>1, <1>3, <1>5, <1>6, <1>7, <1>8, <1>9, <1>10, TaskStepKept, Standing

\* An error ends an attempt while it adopts.
LEMMA AdoptFailsKeeps ==
  ASSUME Inv, NEW j \in Joiners, AdoptFails(j)
  PROVE  Inv'
<1>1. /\ UNCHANGED <<dir, tmp, writer, overlapped, making, granted, ignored, offer, server, share, files, poll>>
      /\ join' = [join EXCEPT ![j] = Failed] /\ join[j].pc # "append"
      /\ hit' = hit \/ hit' = hit \union {j}
      /\ dir[j].dot => j \in hit'
  BY DEF AdoptFails, Ends, Cut
<1>2. Failed \in JoinType /\ Failed.pc = "failed" /\ Failed.kind = "none"
  BY DEF Failed, JoinType, OfferIds
<1> HIDE DEF Failed
<1>3. join' \in [Joiners -> JoinType] /\ join'[j] = Failed /\ \A i \in Joiners : i # j => join'[i] = join[i]
  BY <1>1, <1>2 DEF Inv, Shape
<1>4. hit \subseteq hit' /\ hit' \subseteq Joiners
  BY <1>1 DEF Inv, Shape
<1>5. Shape'
  BY <1>1, <1>3, <1>4 DEF Inv, Shape
<1>6. GoesOn
  BY <1>1, <1>2, <1>3 DEF GoesOn
<1>10. Employed' /\ (~overlapped' => Writers')
  BY <1>1, <1>6, WritersKept, StillBusy DEF Inv
<1>7. making # "ready" => share'.pc = "idle" /\ poll'.pc = "idle"
  BY <1>1, Standing DEF Prepared
<1>8. AttemptOK(j, Failed, dir[j], hit')
  BY <1>1, <1>2 DEF AttemptOK, Seeking
<1>9. KeysOK(j, Failed, dir[j], dir[Home], ignored)
  BY <1>2 DEF KeysOK, Adopting
<1> QED
  BY <1>1, <1>3, <1>4, <1>5, <1>7, <1>8, <1>9, <1>10, TaskStepKept, Standing

-----------------------------------------------------------------------------
(* append_wrap_entry_for. *)

\* A step of an append: what it may do when no other has met it.
LEMMA AppendKept ==
  ASSUME Inv, NEW t \in Tasks, Writing(t), Shape', UNCHANGED joinVars, overlapped' = overlapped,
         \A p \in Places : /\ dir'[p].dot = dir[p].dot /\ dir'[p].poly = dir[p].poly
                           /\ dir'[p].settings = dir[p].settings,
         Writing(t)' => writer'[t].place = writer[t].place,
         \A s \in Tasks : s # t =>
           \/ writer'[s] = writer[s]
           \/ /\ writer'[s].pc = writer[s].pc /\ writer'[s].place = writer[s].place
              /\ writer'[s].ok = writer[s].ok /\ writer[s].place = Where(t),
         ~overlapped =>
           /\ \A p \in Places : p # Where(t) => dir'[p] = dir[p] /\ tmp'[p] = tmp[p]
           /\ dir[Where(t)].conf \subseteq dir'[Where(t)].conf
           /\ IsFiniteSet(dir'[Where(t)].conf)
           /\ WriterOK(writer'[t], dir'[Where(t)].conf, tmp'[Where(t)])
           /\ Writing(t)' => writer'[t].who = writer[t].who
           /\ writer'[t].pc = "done" /\ writer'[t].ok => writer[t].who \in dir'[Where(t)].conf
  PROVE  Inv'
<1>0. /\ UNCHANGED <<making, offer, server, share, files, poll, join, granted, ignored, hit>>
      /\ Where(t) \in Places
  BY TasksAre DEF joinVars
<1>1. \A s \in Tasks : Writing(s)' => Writing(s)
  BY DEF Writing
<1>2. Rest'
  <2>1. UsedUp'
    BY <1>0, Standing DEF UsedUp
  <2>2. Prepared'
    BY <1>0, TasksAre, Standing DEF Prepared
  <2>3. Attempts'
    BY <1>0, TasksAre, Standing DEF Attempts, AttemptOK
  <2> QED BY <2>1, <2>2, <2>3 DEF Rest
<1>3. Employed'
  <2>1. \A s \in Tasks : Busy(s)' <=> Busy(s)
    BY <1>0 DEF Busy
  <2>2. Busy(t)
    BY Standing DEF Employed, Writing
  <2>3. \A s \in Tasks : writer'[s].pc # "idle" => Busy(s)'
    BY <2>1, <2>2, Standing DEF Employed
  <2>4. \A s \in Tasks : Writing(s)' => writer'[s].place = Where(s)
    BY <1>1, Standing DEF Employed
  <2> QED BY <2>3, <2>4 DEF Employed, Where
<1>4. ASSUME ~overlapped' PROVE Writers'
  <2>0. Writers
    BY <1>4 DEF Inv
  <2>1. Exclusive'
    BY <1>1, <2>0 DEF Writers, Exclusive, Where
  <2>2. \A s \in Tasks : Wanted(s)' = Wanted(s)
    BY <1>0 DEF Wanted
  <2>3. ASSUME NEW s \in Tasks, s # t
        PROVE  /\ WriterOK(writer'[s], dir'[Where(s)].conf, tmp'[Where(s)])
               /\ Writing(s)' => writer'[s].who = Wanted(s)'
               /\ writer'[s].pc = "done" /\ writer'[s].ok => Wanted(s)' \in dir'[Where(s)].conf
    <3>1. CASE Writing(s)
      <4>1. Where(s) # Where(t) /\ Where(s) \in Places
        BY <2>0, <2>3, <3>1, TasksAre DEF Writers, Exclusive
      <4>2. writer[s].place # Where(t)
        BY <3>1, <4>1, Standing DEF Employed
      <4>3. writer'[s] = writer[s] /\ writer[s].pc # "done"
        BY <2>3, <3>1, <4>2 DEF Writing
      <4>4. dir'[Where(s)] = dir[Where(s)] /\ tmp'[Where(s)] = tmp[Where(s)]
        BY <1>4, <4>1
      <4> QED BY <2>0, <2>2, <3>1, <4>3, <4>4 DEF Writers, Untorn, Lists
    <3>2. CASE ~Writing(s)
      <4>1. writer'[s].pc \notin {"read", "open", "write", "rename"}
              /\ writer'[s].pc = writer[s].pc /\ writer'[s].ok = writer[s].ok
        BY <2>3, <3>2 DEF Writing
      <4>2. WriterOK(writer'[s], dir'[Where(s)].conf, tmp'[Where(s)])
        BY <4>1 DEF WriterOK
      <4>3. dir[Where(s)].conf \subseteq dir'[Where(s)].conf
        BY <1>4, TasksAre
      <4> QED BY <1>1, <2>0, <2>2, <3>2, <4>1, <4>2, <4>3 DEF Writers, Lists
    <3> QED BY <3>1, <3>2
  <2>4. /\ WriterOK(writer'[t], dir'[Where(t)].conf, tmp'[Where(t)])
        /\ Writing(t)' => writer'[t].who = Wanted(t)'
        /\ writer'[t].pc = "done" /\ writer'[t].ok => Wanted(t)' \in dir'[Where(t)].conf
    BY <1>4, <2>0, <2>2 DEF Writers, Lists
  <2>5. Untorn'
    BY <2>3, <2>4 DEF Untorn, Where
  <2>6. Lists'
    BY <2>3, <2>4 DEF Lists, Where
  <2> QED BY <2>1, <2>5, <2>6 DEF Writers
<1>5. ASSUME ~overlapped' PROVE RestQuiet'
  <2>0. RestQuiet
    BY <1>5 DEF Inv
  <2>1. \A p \in Places : dir[p].conf \subseteq dir'[p].conf /\ IsFiniteSet(dir'[p].conf)
    BY <1>5, <2>0 DEF RestQuiet, Finite
  <2>2. Where(t) = Home => making = "ready"
    <3>1. Busy(t)
      BY Standing DEF Employed, Writing
    <3>2. CASE t \in Joiners
      BY <3>2, TasksAre
    <3>3. CASE t = Poller
      BY <3>1, <3>3, TasksAre, Standing DEF Busy, Prepared
    <3>4. CASE t \in Offers
      BY <3>1, <3>4, TasksAre, Standing DEF Busy, UsedUp, OfferOK, Prepared
    <3> QED BY <3>2, <3>3, <3>4, JoiningAssumption
  <2>3. making \in {"mkdir", "config"} => dir'[Home] = dir[Home]
    BY <1>5, <2>2, TasksAre
  <2>4. HomeMade'
    BY <1>0, <2>0, <2>1, <2>3, TasksAre DEF RestQuiet, HomeMade, OwnKey
  <2>5. GrantsListed'
    BY <1>0, <2>0, <2>1, TasksAre DEF RestQuiet, GrantsListed
  <2>6. KeysHeld'
    BY <1>0, <2>0, <2>1, TasksAre DEF RestQuiet, KeysHeld, KeysOK
  <2>7. Finite'
    BY <2>1 DEF Finite
  <2> QED BY <2>4, <2>5, <2>6, <2>7 DEF RestQuiet
<1> QED
  BY <1>2, <1>3, <1>4, <1>5 DEF Inv

\* The record of an append that writes, and where.
LEMMA Writes ==
  ASSUME Inv, NEW t \in Tasks, Writing(t)
  PROVE  /\ writer[t] \in WriterType /\ writer[t].place = Where(t) /\ Where(t) \in Places
         /\ dir[Where(t)] \in DirType /\ tmp[Where(t)] \in TmpType
         /\ ~overlapped => IsFiniteSet(dir[Where(t)].conf)
                           /\ WriterOK(writer[t], dir[Where(t)].conf, tmp[Where(t)])
<1>1. /\ writer[t] \in WriterType /\ writer[t].place = Where(t) /\ Where(t) \in Places
      /\ dir[Where(t)] \in DirType /\ tmp[Where(t)] \in TmpType
  BY TasksAre, Standing DEF Employed, Shape
<1>2. ~overlapped => IsFiniteSet(dir[Where(t)].conf)
  BY <1>1 DEF Inv, RestQuiet, Finite
<1>3. ~overlapped => WriterOK(writer[t], dir[Where(t)].conf, tmp[Where(t)])
  BY DEF Inv, Writers, Untorn
<1> QED BY <1>1, <1>2, <1>3

\* Only the task moves on: no file is touched.
LEMMA TaskAppends ==
  ASSUME Inv, NEW t \in Tasks, Writing(t), NEW w \in WriterType,
         writer' = [writer EXCEPT ![t] = w], UNCHANGED joinVars, UNCHANGED <<dir, tmp, overlapped>>,
         w.pc \in Active => w.place = writer[t].place /\ w.who = writer[t].who,
         w.pc = "done" /\ w.ok => writer[t].who \in dir[Where(t)].conf,
         ~overlapped => WriterOK(w, dir[Where(t)].conf, tmp[Where(t)])
  PROVE  Inv'
<1>1. writer'[t] = w /\ \A s \in Tasks : s # t => writer'[s] = writer[s]
  BY DEF Inv, Shape
<1>2. Shape'
  BY DEF Inv, Shape, joinVars
<1>3. Writing(t)' => w.pc \in Active
  BY <1>1 DEF Writing, Active
<1>4. ~overlapped => IsFiniteSet(dir[Where(t)].conf)
  BY Writes
<1> QED
  BY <1>1, <1>2, <1>3, <1>4, AppendKept

\* The record of a task that is done.
LEMMA FinishedIs ==
  ASSUME NEW ok \in BOOLEAN
  PROVE  LET w == [Asleep EXCEPT !.pc = "done", !.ok = ok]
         IN  /\ w \in WriterType /\ w.pc = "done" /\ w.ok = ok /\ w.pc \notin Active
             /\ \A c, f : WriterOK(w, c, f)
<1> DEFINE w == [Asleep EXCEPT !.pc = "done", !.ok = ok]
<1>1. w \in WriterType /\ w.pc = "done" /\ w.ok = ok
  BY TasksAre DEF Asleep, WriterType
<1> HIDE DEF w
<1>2. w.pc \notin Active /\ \A c, f : WriterOK(w, c, f)
  BY <1>1 DEF WriterOK, Active
<1> QED BY <1>1, <1>2 DEF w

\* An append ends without writing.
LEMMA FinishKeeps ==
  ASSUME Inv, NEW t \in Tasks, Writing(t), NEW ok \in BOOLEAN, Finish(t, ok), UNCHANGED joinVars,
         UNCHANGED <<dir, tmp, overlapped>>, ok => writer[t].who \in dir[Where(t)].conf
  PROVE  Inv'
<1> DEFINE w == [Asleep EXCEPT !.pc = "done", !.ok = ok]
<1>1. writer' = [writer EXCEPT ![t] = w]
  BY DEF Finish
<1>2. /\ w \in WriterType /\ w.pc = "done" /\ w.ok = ok /\ w.pc \notin Active
      /\ \A c, f : WriterOK(w, c, f)
  BY FinishedIs
<1> HIDE DEF w
<1> QED
  BY <1>1, <1>2, TaskAppends

\* The config is read.
LEMMA AppendReadKeeps ==
  ASSUME Inv, NEW t \in Tasks, AppendRead(t), UNCHANGED joinVars
  PROVE  Inv'
<1>1. Writing(t) /\ writer[t].pc = "read" /\ UNCHANGED <<dir, tmp, overlapped>>
  BY DEF AppendRead, Writing
<1>2. writer[t] \in WriterType /\ writer[t].place = Where(t) /\ dir[Where(t)] \in DirType
  BY <1>1, Writes
<1> DEFINE c == dir[Where(t)].conf
<1>3. CASE Finish(t, FALSE)
  BY <1>1, <1>3, FinishKeeps
<1>4. CASE writer[t].who \in c /\ Finish(t, TRUE)
  BY <1>1, <1>4, FinishKeeps
<1>5. CASE writer' = [writer EXCEPT ![t].pc = "open", ![t].seen = c]
  <2> DEFINE w == [writer[t] EXCEPT !.pc = "open", !.seen = c]
  <2>1. writer' = [writer EXCEPT ![t] = w]
    BY <1>5 DEF Inv, Shape
  <2>2. c \in SUBSET Devices
    BY <1>2 DEF DirType
  <2> HIDE DEF c
  <2>3. w \in WriterType /\ w.pc = "open" /\ w.place = writer[t].place /\ w.who = writer[t].who /\ w.seen = c
    BY <1>2, <2>2 DEF WriterType
  <2> HIDE DEF w
  <2>4. WriterOK(w, c, tmp[Where(t)])
    BY <2>3 DEF WriterOK
  <2> QED BY <1>1, <2>1, <2>3, <2>4, TaskAppends DEF c
<1> QED
  BY <1>2, <1>3, <1>4, <1>5 DEF AppendRead

\* config.tmp is created or truncated.
LEMMA AppendOpenKeeps ==
  ASSUME Inv, NEW t \in Tasks, AppendOpen(t), UNCHANGED joinVars
  PROVE  Inv'
<1>1. Writing(t) /\ writer[t].pc = "open" /\ UNCHANGED <<dir, overlapped>>
  BY DEF AppendOpen, Writing
<1>2. /\ writer[t] \in WriterType /\ writer[t].place = Where(t) /\ Where(t) \in Places
      /\ ~overlapped => /\ IsFiniteSet(dir[Where(t)].conf)
                        /\ WriterOK(writer[t], dir[Where(t)].conf, tmp[Where(t)])
  BY <1>1, Writes
<1> DEFINE w == [writer[t] EXCEPT !.pc = "write", !.fd = "tmp"]
           f == [there |-> TRUE, who |-> {}]
<1>3. writer' = [writer EXCEPT ![t] = w] /\ tmp' = [tmp EXCEPT ![Where(t)] = f]
  BY <1>2 DEF AppendOpen, Inv, Shape
<1>4. /\ w \in WriterType /\ w.pc = "write" /\ w.place = writer[t].place /\ w.who = writer[t].who
      /\ w.seen = writer[t].seen /\ w.fd = "tmp"
  BY <1>2 DEF WriterType
<1>5. f \in TmpType /\ f.there /\ f.who = {}
  BY DEF TmpType
<1> HIDE DEF w, f
<1>6. writer'[t] = w /\ \A s \in Tasks : s # t => writer'[s] = writer[s]
  BY <1>3 DEF Inv, Shape
<1>7. tmp'[Where(t)] = f /\ \A p \in Places : p # Where(t) => tmp'[p] = tmp[p]
  BY <1>2, <1>3 DEF Inv, Shape
<1>8. Shape'
  BY <1>1, <1>3, <1>4, <1>5 DEF Inv, Shape, joinVars
<1>9. ~overlapped => WriterOK(w, dir[Where(t)].conf, f)
  BY <1>1, <1>2, <1>4, <1>5 DEF WriterOK
<1> QED
  BY <1>1, <1>2, <1>4, <1>6, <1>7, <1>8, <1>9, AppendKept

\* What Over leaves of two lists, and of an empty file.
LEMMA OverIs ==
  /\ \A old, new \in SUBSET Devices : Over(old, new) \in SUBSET Devices
  /\ \A new \in SUBSET Devices : IsFiniteSet(new) => Over({}, new) = new
<1>1. \A new : IsFiniteSet(new) => ~(Cardinality({}) > Cardinality(new))
  BY FS_EmptySet, FS_CardinalityType
<1> QED BY <1>1 DEF Over

\* The longer list is written to the file that was opened.
LEMMA AppendWriteKeeps ==
  ASSUME Inv, NEW t \in Tasks, AppendWrite(t), UNCHANGED joinVars
  PROVE  Inv'
<1>1. Writing(t) /\ writer[t].pc = "write" /\ UNCHANGED overlapped
  BY DEF AppendWrite, Writing
<1>2. /\ writer[t] \in WriterType /\ writer[t].place = Where(t) /\ Where(t) \in Places
      /\ dir[Where(t)] \in DirType /\ tmp[Where(t)] \in TmpType
      /\ ~overlapped => /\ IsFiniteSet(dir[Where(t)].conf)
                        /\ WriterOK(writer[t], dir[Where(t)].conf, tmp[Where(t)])
  BY <1>1, Writes
<1> DEFINE w == [writer[t] EXCEPT !.pc = "rename"]
           list == writer[t].seen \union {writer[t].who}
           f == [tmp[Where(t)] EXCEPT !.who = Over(tmp[Where(t)].who, list)]
           d == [dir[Where(t)] EXCEPT !.conf = Over(dir[Where(t)].conf, list)]
<1>3. list \in SUBSET Devices
  BY <1>2 DEF WriterType
<1>4. /\ writer' = [writer EXCEPT ![t] = w]
      /\ tmp' = IF writer[t].fd = "tmp" THEN [tmp EXCEPT ![Where(t)] = f] ELSE tmp
      /\ dir' = IF writer[t].fd = "config" THEN [dir EXCEPT ![Where(t)] = d] ELSE dir
  BY <1>2 DEF AppendWrite, Inv, Shape
<1>5. /\ w \in WriterType /\ w.pc = "rename" /\ w.place = writer[t].place /\ w.who = writer[t].who
      /\ w.seen = writer[t].seen
  BY <1>2 DEF WriterType
<1>6. /\ f \in TmpType /\ f.there = tmp[Where(t)].there /\ f.who = Over(tmp[Where(t)].who, list)
  <2>1. Over(tmp[Where(t)].who, list) \in SUBSET Devices
    BY <1>2, <1>3, OverIs DEF TmpType
  <2> QED BY <1>2, <2>1 DEF TmpType
<1>7. d \in DirType /\ d.dot = dir[Where(t)].dot /\ d.poly = dir[Where(t)].poly
        /\ d.settings = dir[Where(t)].settings
  <2>1. Over(dir[Where(t)].conf, list) \in SUBSET Devices
    BY <1>2, <1>3, OverIs DEF DirType
  <2> QED BY <1>2, <2>1 DEF DirType
<1>8. ~overlapped => /\ writer[t].fd = "tmp" /\ f.who = list /\ f.there
                     /\ writer[t].seen = dir[Where(t)].conf
  <2>1. SUFFICES ASSUME ~overlapped
                 PROVE  /\ writer[t].fd = "tmp" /\ f.who = list /\ f.there
                        /\ writer[t].seen = dir[Where(t)].conf
    OBVIOUS
  <2>2. /\ writer[t].seen = dir[Where(t)].conf /\ writer[t].fd = "tmp"
        /\ tmp[Where(t)].there /\ tmp[Where(t)].who = {}
    BY <1>1, <1>2, <2>1 DEF WriterOK
  <2>3. IsFiniteSet(list)
    BY <1>2, <2>1, <2>2, FS_AddElement
  <2>4. Over({}, list) = list
    BY <1>3, <2>3, OverIs
  <2> QED BY <1>6, <2>2, <2>4
<1>9. list = w.seen \union {w.who}
  BY <1>5
<1> HIDE DEF w, f, d, list
<1>10. writer'[t] = w /\ \A s \in Tasks : s # t => writer'[s] = writer[s]
  BY <1>4 DEF Inv, Shape
<1>11. Shape'
  <2>1. tmp' \in [Places -> TmpType] /\ dir' \in [Places -> DirType]
    BY <1>4, <1>6, <1>7 DEF Inv, Shape
  <2> QED BY <1>1, <1>4, <1>5, <2>1 DEF Inv, Shape, joinVars
<1>12. \A p \in Places : /\ dir'[p].dot = dir[p].dot /\ dir'[p].poly = dir[p].poly
                         /\ dir'[p].settings = dir[p].settings
  BY <1>2, <1>4, <1>7 DEF Inv, Shape
<1>13. ~overlapped => dir' = dir /\ tmp'[Where(t)] = f /\ \A p \in Places : p # Where(t) => tmp'[p] = tmp[p]
  BY <1>2, <1>4, <1>8 DEF Inv, Shape
<1>14. ~overlapped => WriterOK(w, dir[Where(t)].conf, f)
  BY <1>5, <1>8, <1>9 DEF WriterOK
<1> QED
  BY <1>1, <1>2, <1>5, <1>8, <1>10, <1>11, <1>12, <1>13, <1>14, AppendKept

\* The rename: the config becomes the list that was written.
LEMMA AppendRenameKeeps ==
  ASSUME Inv, NEW t \in Tasks, AppendRename(t), UNCHANGED joinVars
  PROVE  Inv'
<1>1. Writing(t) /\ writer[t].pc = "rename" /\ UNCHANGED overlapped
  BY DEF AppendRename, Writing
<1>2. /\ writer[t] \in WriterType /\ writer[t].place = Where(t) /\ Where(t) \in Places
      /\ dir[Where(t)] \in DirType /\ tmp[Where(t)] \in TmpType
      /\ ~overlapped => /\ IsFiniteSet(dir[Where(t)].conf)
                        /\ WriterOK(writer[t], dir[Where(t)].conf, tmp[Where(t)])
  BY <1>1, Writes
<1>3. CASE ~tmp[Where(t)].there
  <2>1. Finish(t, FALSE) /\ UNCHANGED <<dir, tmp>>
    BY <1>2, <1>3 DEF AppendRename
  <2> QED BY <1>1, <2>1, FinishKeeps
<1>4. CASE tmp[Where(t)].there
  <2> DEFINE w == [Asleep EXCEPT !.pc = "done", !.ok = TRUE]
             d == [dir[Where(t)] EXCEPT !.conf = tmp[Where(t)].who]
  <2>1. /\ dir' = [dir EXCEPT ![Where(t)] = d] /\ tmp' = [tmp EXCEPT ![Where(t)] = NoTmp]
        /\ writer' = AfterRename(t)
    BY <1>2, <1>4 DEF AppendRename
  <2>2. /\ d \in DirType /\ d.dot = dir[Where(t)].dot /\ d.poly = dir[Where(t)].poly
        /\ d.settings = dir[Where(t)].settings /\ d.conf = tmp[Where(t)].who
    BY <1>2 DEF DirType, TmpType
  <2>3. /\ w \in WriterType /\ w.pc = "done" /\ w.pc \notin Active /\ \A c, f : WriterOK(w, c, f)
    BY FinishedIs
  <2>4. NoTmp \in TmpType
    BY DEF NoTmp, TmpType
  <2>5. writer'[t] = w
    BY <2>1 DEF AfterRename
  <2> HIDE DEF w, d, NoTmp
  <2>6. ASSUME NEW s \in Tasks, s # t
        PROVE  /\ writer'[s] \in WriterType
               /\ \/ writer'[s] = writer[s]
                  \/ /\ writer'[s].pc = writer[s].pc /\ writer'[s].place = writer[s].place
                     /\ writer'[s].ok = writer[s].ok /\ writer[s].place = Where(t)
    <3>1. writer[s] \in WriterType
      BY DEF Inv, Shape
    <3>2. \/ writer'[s] = writer[s]
          \/ /\ writer[s].place = Where(t)
             /\ \E x \in {"config", "gone"} : writer'[s] = [writer[s] EXCEPT !.fd = x]
      BY <1>2, <2>1, <2>6 DEF AfterRename
    <3>3. CASE writer'[s] = writer[s]
      BY <3>1, <3>3
    <3>4. ASSUME NEW x \in {"config", "gone"}, writer'[s] = [writer[s] EXCEPT !.fd = x]
          PROVE  /\ writer'[s] \in WriterType /\ writer'[s].pc = writer[s].pc
                 /\ writer'[s].place = writer[s].place /\ writer'[s].ok = writer[s].ok
      BY <3>1, <3>4 DEF WriterType
    <3> QED BY <3>2, <3>3, <3>4
  <2>7. writer' \in [Tasks -> WriterType]
    <3>1. writer' = [s \in Tasks |-> writer'[s]]
      BY <2>1 DEF AfterRename
    <3>2. \A s \in Tasks : writer'[s] \in WriterType
      BY <2>3, <2>5, <2>6
    <3> QED BY <3>1, <3>2
  <2>8. Shape'
    BY <1>1, <2>1, <2>2, <2>4, <2>7 DEF Inv, Shape, joinVars
  <2>9. /\ dir'[Where(t)] = d
        /\ \A p \in Places : p # Where(t) => dir'[p] = dir[p] /\ tmp'[p] = tmp[p]
    BY <1>2, <2>1 DEF Inv, Shape
  <2>10. \A p \in Places : /\ dir'[p].dot = dir[p].dot /\ dir'[p].poly = dir[p].poly
                           /\ dir'[p].settings = dir[p].settings
    BY <2>2, <2>9
  <2>11. ~overlapped => d.conf = dir[Where(t)].conf \union {writer[t].who}
    BY <1>1, <1>2, <2>2 DEF WriterOK
  <2>12. ~overlapped => IsFiniteSet(d.conf)
    BY <1>2, <2>11, FS_AddElement
  <2>13. ~Writing(t)'
    BY <2>3, <2>5 DEF Writing, Active
  <2>14. WriterOK(writer'[t], dir'[Where(t)].conf, tmp'[Where(t)])
    BY <2>3, <2>5
  <2> QED BY <1>1, <2>6, <2>8, <2>9, <2>10, <2>11, <2>12, <2>13, <2>14, AppendKept
<1> QED
  BY <1>3, <1>4

\* The disk is full.
LEMMA AppendFailsKeeps ==
  ASSUME Inv, NEW t \in Tasks, AppendFails(t), UNCHANGED joinVars
  PROVE  Inv'
<1>1. Writing(t) /\ UNCHANGED <<dir, tmp, overlapped>> /\ Finish(t, FALSE)
  BY DEF AppendFails, Writing
<1> QED
  BY <1>1, FinishKeeps

-----------------------------------------------------------------------------
(* Making the folder and adopting it. *)

\* A folder that no append is at work on changes.
LEMMA WritersAway ==
  ASSUME Inv, NEW p \in Places, NEW d \in DirType, dir' = [dir EXCEPT ![p] = d],
         UNCHANGED <<tmp, writer, overlapped>>, GoesOn,
         \A s \in Tasks : writer[s].pc # "idle" => Where(s) # p
  PROVE  Employed' /\ (~overlapped' => Writers')
<1>1. \A s \in Tasks : writer[s].pc # "idle" => Busy(s)' /\ Wanted(s)' = Wanted(s)
  BY Standing, StillBusy
<1>2. \A q \in Places : q # p => dir'[q] = dir[q]
  BY DEF Inv, Shape
<1>3. Employed'
  BY <1>1, Standing DEF Employed, Writing, Where
<1>4. ASSUME ~overlapped' PROVE Writers'
  <2>0. Writers
    BY <1>4 DEF Inv
  <2>1. Exclusive'
    BY <2>0 DEF Writers, Exclusive, Writing, Where
  <2>2. ASSUME NEW s \in Tasks
        PROVE  WriterOK(writer[s], dir'[Where(s)].conf, tmp[Where(s)])
    <3>1. CASE writer[s].pc = "idle"
      BY <3>1 DEF WriterOK
    <3>2. CASE writer[s].pc # "idle"
      BY <1>2, <2>0, <3>2, TasksAre DEF Writers, Untorn
    <3> QED BY <3>1, <3>2
  <2>3. Untorn'
    BY <2>2 DEF Untorn, Where
  <2>4. \A s \in Tasks : writer[s].pc # "idle" => dir'[Where(s)] = dir[Where(s)]
    BY <1>2, TasksAre
  <2>5. Lists'
    BY <1>1, <2>0, <2>4 DEF Writers, Lists, Writing, Where
  <2> QED BY <2>1, <2>3, <2>5 DEF Writers
<1> QED
  BY <1>3, <1>4

\* Nothing is listed in the folder before ferry init is done.
LEMMA NoneYet ==
  ASSUME Inv, making # "ready"
  PROVE  \A s \in Tasks : writer[s].pc # "idle" => Where(s) # Home
<1>1. SUFFICES ASSUME NEW s \in Tasks, writer[s].pc # "idle", Where(s) = Home PROVE FALSE
  OBVIOUS
<1>2. Busy(s) /\ s \notin Joiners
  BY <1>1, Standing, TasksAre DEF Employed
<1>3. s = Poller => poll.pc = "append"
  BY <1>2 DEF Busy
<1>4. s \in Offers => server[s].pc = "append" /\ offer[s].made
  BY <1>2, TasksAre, Standing DEF Busy, UsedUp, OfferOK
<1> QED
  BY <1>1, <1>2, <1>3, <1>4, JoiningAssumption, Standing DEF Prepared

\* ferry init.
LEMMA InitFolderKeeps ==
  ASSUME Inv, InitFolder
  PROVE  Inv'
<1>1. /\ UNCHANGED <<tmp, writer, overlapped, offer, server, share, files, poll, join, granted, ignored, hit>>
      /\ making # "ready"
  BY DEF InitFolder
<1>2. dir[Home] \in DirType /\ Home \in Places
  BY TasksAre DEF Inv, Shape
<1>3. PICK d \in DirType :
        /\ dir' = [dir EXCEPT ![Home] = d] /\ making' \in {"config", "settings", "flush", "ready"}
        /\ d.poly => making' = "ready"
        /\ ~overlapped =>
             /\ d.dot /\ dir[Home].conf \subseteq d.conf /\ IsFiniteSet(d.conf)
             /\ making' = "config" => d.conf = {}
             /\ making' \in {"settings", "flush", "ready"} => Owner[Home] \in d.conf
             /\ making' \in {"flush", "ready"} => d.settings
             /\ making' = "ready" => d.poly
  <2>0. /\ ~dir[Home].poly
        /\ ~overlapped => HomeMade /\ IsFiniteSet(dir[Home].conf)
    BY <1>1, <1>2, Standing DEF Prepared, Inv, RestQuiet, Finite
  <2>1. CASE making = "mkdir" /\ MakeStore(Home) /\ making' = "config"
    <3> DEFINE d == [dir[Home] EXCEPT !.dot = TRUE]
    <3>1. dir' = [dir EXCEPT ![Home] = d]
      BY <2>1 DEF MakeStore
    <3>2. /\ d \in DirType /\ d.dot /\ d.conf = dir[Home].conf /\ d.poly = dir[Home].poly
          /\ d.settings = dir[Home].settings
      BY <1>2 DEF DirType
    <3> HIDE DEF d
    <3> QED BY <2>0, <2>1, <3>1, <3>2 DEF HomeMade
  <2>2. CASE making = "config" /\ WriteConfig(Home) /\ making' = "settings"
    <3> DEFINE d == [dir[Home] EXCEPT !.conf = {Owner[Home]}]
    <3>1. dir' = [dir EXCEPT ![Home] = d]
      BY <2>2 DEF WriteConfig
    <3>2. /\ d \in DirType /\ d.dot = dir[Home].dot /\ d.conf = {Owner[Home]} /\ d.poly = dir[Home].poly
          /\ d.settings = dir[Home].settings
      BY <1>2, TasksAre DEF DirType
    <3> HIDE DEF d
    <3>3. IsFiniteSet({Owner[Home]})
      BY FS_Singleton
    <3> QED BY <2>0, <2>2, <3>1, <3>2, <3>3 DEF HomeMade
  <2>3. CASE making = "settings" /\ SaveSettings(Home) /\ making' = "flush"
    <3> DEFINE d == [dir[Home] EXCEPT !.settings = TRUE]
    <3>1. dir' = [dir EXCEPT ![Home] = d]
      BY <2>3 DEF SaveSettings
    <3>2. /\ d \in DirType /\ d.dot = dir[Home].dot /\ d.conf = dir[Home].conf /\ d.poly = dir[Home].poly
          /\ d.settings
      BY <1>2 DEF DirType
    <3> HIDE DEF d
    <3> QED BY <2>0, <2>3, <3>1, <3>2 DEF HomeMade, OwnKey
  <2>4. CASE making = "flush" /\ FlushStore(Home) /\ making' = "ready"
    <3> DEFINE d == [dir[Home] EXCEPT !.poly = TRUE]
    <3>1. dir' = [dir EXCEPT ![Home] = d]
      BY <2>4 DEF FlushStore
    <3>2. /\ d \in DirType /\ d.dot = dir[Home].dot /\ d.conf = dir[Home].conf /\ d.poly
          /\ d.settings = dir[Home].settings
      BY <1>2 DEF DirType
    <3> HIDE DEF d
    <3> QED BY <2>0, <2>4, <3>1, <3>2 DEF HomeMade, OwnKey
  <2> QED BY <2>1, <2>2, <2>3, <2>4 DEF InitFolder
<1>4. dir'[Home] = d /\ \A p \in Places : p # Home => dir'[p] = dir[p]
  BY <1>2, <1>3 DEF Inv, Shape
<1>5. Shape'
  BY <1>1, <1>3 DEF Inv, Shape
<1>6. GoesOn
  BY <1>1 DEF GoesOn
<1>7. Employed' /\ (~overlapped' => Writers')
  BY <1>1, <1>2, <1>3, <1>6, NoneYet, WritersAway
<1>8. Rest'
  <2>1. UsedUp'
    BY <1>1, Standing DEF UsedUp
  <2>2. Prepared'
    BY <1>1, <1>3, <1>4, Standing DEF Prepared
  <2>3. Attempts'
    BY <1>1, <1>4, TasksAre, Standing DEF Attempts
  <2> QED BY <2>1, <2>2, <2>3 DEF Rest
<1>9. ASSUME ~overlapped' PROVE RestQuiet'
  <2>0. RestQuiet /\ ~overlapped
    BY <1>1, <1>9 DEF Inv
  <2>1. HomeMade'
    BY <1>3, <1>4, <2>0 DEF HomeMade, OwnKey
  <2>2. GrantsListed'
    BY <1>1, <1>3, <1>4, <2>0 DEF RestQuiet, GrantsListed
  <2>3. KeysHeld'
    BY <1>1, <1>3, <1>4, <2>0, TasksAre DEF RestQuiet, KeysHeld, KeysOK
  <2>4. Finite'
    BY <1>3, <1>4, <2>0 DEF RestQuiet, Finite
  <2> QED BY <2>1, <2>2, <2>3, <2>4 DEF RestQuiet
<1> QED
  BY <1>5, <1>7, <1>8, <1>9 DEF Inv

\* One stage of adopt_folder.
LEMMA AdoptStage ==
  ASSUME Inv, NEW j \in Joiners, NEW d \in DirType, dir' = [dir EXCEPT ![j] = d],
         NEW s \in Adopting, join' = [join EXCEPT ![j].pc = s], join[j].pc # "append",
         join[j].pc \in Adopting, s # "mkdir", d.dot,
         s \in {"settings", "record", "append"} => d.poly,
         s \in {"record", "append"} => d.settings,
         ~overlapped => /\ IsFiniteSet(d.conf)
                        /\ s \in {"flush", "settings", "record", "append"} => Owner[j] \in d.conf,
         UNCHANGED <<tmp, writer, overlapped, making, offer, server, share, files, poll, granted,
                     ignored, hit>>
  PROVE  Inv'
<1> DEFINE r == [join[j] EXCEPT !.pc = s]
<1>1. join' = [join EXCEPT ![j] = r]
  OBVIOUS
<1>2. r \in JoinType /\ r.pc = s /\ r.kind = join[j].kind
  BY NextPc
<1> HIDE DEF r
<1>3. join' \in [Joiners -> JoinType] /\ join'[j] = r /\ \A i \in Joiners : i # j => join'[i] = join[i]
  BY <1>1, <1>2 DEF Inv, Shape
<1>4. dir'[j] = d /\ dir'[Home] = dir[Home] /\ \A p \in Places : p # j => dir'[p] = dir[p]
  BY TasksAre DEF Inv, Shape
<1>5. Shape'
  BY <1>3, TasksAre DEF Inv, Shape
<1>6. GoesOn
  BY <1>3 DEF GoesOn
<1>7. \A t \in Tasks : writer[t].pc # "idle" => Where(t) # j
  BY TasksAre, Standing DEF Employed, Busy, Where
<1>8. Employed' /\ (~overlapped' => Writers')
  BY <1>6, <1>7, TasksAre, WritersAway
<1>9. AttemptOK(j, r, d, hit)
  BY <1>2, Standing DEF Attempts, AttemptOK, Adopting, Seeking
<1>10. Rest'
  <2>1. UsedUp'
    BY Standing DEF UsedUp
  <2>2. Prepared'
    BY <1>4, Standing DEF Prepared
  <2>3. Attempts'
    BY <1>3, <1>4, <1>9, TasksAre, Standing DEF Attempts
  <2> QED BY <2>1, <2>2, <2>3 DEF Rest
<1>11. ASSUME ~overlapped' PROVE RestQuiet'
  <2>0. RestQuiet /\ ~overlapped
    BY <1>11 DEF Inv
  <2>1. HomeMade'
    BY <1>4, <2>0 DEF RestQuiet, HomeMade, OwnKey
  <2>2. GrantsListed'
    BY <1>4, <2>0 DEF RestQuiet, GrantsListed
  <2>3. KeysOK(j, r, d, dir[Home], ignored)
    BY <1>2, <2>0 DEF RestQuiet, KeysHeld, KeysOK, Adopting
  <2>4. KeysHeld'
    BY <1>3, <1>4, <2>0, <2>3, TasksAre DEF RestQuiet, KeysHeld
  <2>5. Finite'
    BY <1>4, <2>0 DEF RestQuiet, Finite
  <2> QED BY <2>1, <2>2, <2>4, <2>5 DEF RestQuiet
<1> QED
  BY <1>5, <1>8, <1>10, <1>11 DEF Inv

\* adopt_folder, stage by stage.
LEMMA AdoptKeeps ==
  ASSUME Inv, NEW j \in Joiners, Adopt(j)
  PROVE  Inv'
<1>1. UNCHANGED <<tmp, writer, overlapped, making, offer, server, share, files, poll, granted,
                  ignored, hit>>
  BY DEF Adopt
<1>2. dir[j] \in DirType /\ AttemptOK(j, join[j], dir[j], hit)
  BY TasksAre, Standing DEF Shape, Attempts
<1>3. ~overlapped => IsFiniteSet(dir[j].conf) /\ KeysOK(j, join[j], dir[j], dir[Home], ignored)
  BY TasksAre DEF Inv, RestQuiet, Finite, KeysHeld
<1>4. {"mkdir", "config", "flush", "settings", "record"} \subseteq Adopting
  BY DEF Adopting
<1>5. CASE join[j].pc = "mkdir" /\ MakeStore(j) /\ At(j, "config")
  <2> DEFINE d == [dir[j] EXCEPT !.dot = TRUE]
  <2>1. dir' = [dir EXCEPT ![j] = d] /\ join' = [join EXCEPT ![j].pc = "config"]
    BY <1>5 DEF MakeStore, At
  <2>2. d \in DirType /\ d.dot /\ d.conf = dir[j].conf
    BY <1>2 DEF DirType
  <2> HIDE DEF d
  <2> QED BY <1>1, <1>3, <1>4, <1>5, <2>1, <2>2, AdoptStage
<1>6. CASE join[j].pc = "config" /\ WriteConfig(j) /\ At(j, "flush")
  <2> DEFINE d == [dir[j] EXCEPT !.conf = {Owner[j]}]
  <2>1. dir' = [dir EXCEPT ![j] = d] /\ join' = [join EXCEPT ![j].pc = "flush"]
    BY <1>6 DEF WriteConfig, At
  <2>2. d \in DirType /\ d.dot = dir[j].dot /\ d.conf = {Owner[j]}
    BY <1>2, TasksAre DEF DirType
  <2> HIDE DEF d
  <2>3. d.dot /\ Owner[j] \in d.conf
    BY <1>2, <1>6, <2>2 DEF AttemptOK
  <2>4. IsFiniteSet(d.conf)
    BY <2>2, FS_Singleton, Zenon
  <2> QED BY <1>1, <1>4, <1>6, <2>1, <2>2, <2>3, <2>4, AdoptStage
<1>7. CASE join[j].pc = "flush" /\ FlushStore(j) /\ At(j, "settings")
  <2> DEFINE d == [dir[j] EXCEPT !.poly = TRUE]
  <2>1. dir' = [dir EXCEPT ![j] = d] /\ join' = [join EXCEPT ![j].pc = "settings"]
    BY <1>7 DEF FlushStore, At
  <2>2. d \in DirType /\ d.dot = dir[j].dot /\ d.conf = dir[j].conf /\ d.poly
    BY <1>2 DEF DirType
  <2> HIDE DEF d
  <2>3. d.dot /\ (~overlapped => Owner[j] \in d.conf)
    BY <1>2, <1>3, <1>7, <2>2 DEF AttemptOK, KeysOK
  <2> QED BY <1>1, <1>3, <1>4, <1>7, <2>1, <2>2, <2>3, AdoptStage
<1>8. CASE join[j].pc = "settings" /\ SaveSettings(j) /\ At(j, "record")
  <2> DEFINE d == [dir[j] EXCEPT !.settings = TRUE]
  <2>1. dir' = [dir EXCEPT ![j] = d] /\ join' = [join EXCEPT ![j].pc = "record"]
    BY <1>8 DEF SaveSettings, At
  <2>2. d \in DirType /\ d.dot = dir[j].dot /\ d.conf = dir[j].conf /\ d.poly = dir[j].poly /\ d.settings
    BY <1>2 DEF DirType
  <2> HIDE DEF d
  <2>3. d.dot /\ d.poly /\ (~overlapped => Owner[j] \in d.conf)
    BY <1>2, <1>3, <1>8, <2>2 DEF AttemptOK, KeysOK
  <2> QED BY <1>1, <1>3, <1>4, <1>8, <2>1, <2>2, <2>3, AdoptStage
<1> QED
  BY <1>5, <1>6, <1>7, <1>8 DEF Adopt

-----------------------------------------------------------------------------
(* The theorems. *)

\* The invariant holds at first.
LEMMA InitInv ==
  ASSUME Init
  PROVE  Inv
<1>1. Empty \in DirType /\ ~Empty.dot /\ Empty.conf = {} /\ ~Empty.poly
  BY DEF Empty, DirType
<1>2. NoTmp \in TmpType
  BY DEF NoTmp, TmpType
<1>3. Asleep \in WriterType /\ Asleep.pc = "idle"
  BY TasksAre DEF Asleep, WriterType
<1>4. Off \in ServerType /\ Off.pc = "off"
  BY DEF Off, ServerType
<1>5. Idle \in JoinType /\ Idle.pc = "idle" /\ Idle.kind = "none"
  BY DEF Idle, JoinType, OfferIds
<1>6. Unmade \in OfferType /\ ~Unmade.made /\ ~Unmade.record
  BY DEF Unmade, OfferType
<1>7. files \in FilesType /\ files.grant.offer = 0
  BY TasksAre DEF Init, FilesType, OfferIds, Nothing, Absent
<1>8. poll \in PollType /\ poll.pc = "idle"
  BY TasksAre DEF Init, PollType, OfferIds
<1>9. /\ dir = [p \in Places |-> Empty] /\ tmp = [p \in Places |-> NoTmp]
      /\ writer = [t \in Tasks |-> Asleep] /\ overlapped = FALSE
      /\ making = "mkdir" /\ offer = [o \in Offers |-> Unmade] /\ server = [o \in Offers |-> Off]
      /\ share = Idle /\ join = [j \in Joiners |-> Idle]
      /\ granted = [o \in Offers |-> {}] /\ ignored = FALSE /\ hit = {}
  BY DEF Init, EnvInit
<1> HIDE DEF Empty, NoTmp, Asleep, Off, Idle, Unmade
<1>10. Shape
  BY <1>1, <1>2, <1>3, <1>4, <1>5, <1>6, <1>7, <1>8, <1>9 DEF Shape, ShareType
<1>11. UsedUp
  BY <1>4, <1>6, <1>9 DEF UsedUp, OfferOK
<1>12. Prepared
  BY <1>1, <1>5, <1>6, <1>8, <1>9, TasksAre DEF Prepared
<1>13. Attempts
  <2>1. \A j \in Joiners : AttemptOK(j, Idle, Empty, {})
    BY <1>1, <1>5 DEF AttemptOK
  <2> QED BY <1>9, <2>1, TasksAre DEF Attempts
<1>14. Employed
  BY <1>3, <1>9 DEF Employed, Writing
<1>15. Writers
  <2>1. \A c, f : WriterOK(Asleep, c, f)
    BY <1>3 DEF WriterOK
  <2>2. Untorn
    BY <1>9, <2>1 DEF Untorn
  <2>3. Exclusive /\ Lists
    BY <1>3, <1>9 DEF Exclusive, Lists, Writing
  <2> QED BY <2>2, <2>3 DEF Writers
<1>16. RestQuiet
  <2>1. HomeMade
    BY <1>1, <1>9, TasksAre DEF HomeMade
  <2>2. GrantsListed
    BY <1>7, <1>8 DEF GrantsListed
  <2>3. \A j \in Joiners : \A d, home, ign : KeysOK(j, Idle, d, home, ign)
    BY <1>5 DEF KeysOK, Adopting
  <2>4. KeysHeld
    BY <1>9, <2>3 DEF KeysHeld
  <2>5. Finite
    BY <1>1, <1>9, FS_EmptySet DEF Finite
  <2> QED BY <2>1, <2>2, <2>4, <2>5 DEF RestQuiet
<1> QED
  BY <1>10, <1>11, <1>12, <1>13, <1>14, <1>15, <1>16 DEF Inv, Rest

\* Every step keeps it.
LEMMA NextInv ==
  ASSUME Inv, [Next]_vars
  PROVE  Inv'
<1>1. CASE InitFolder
  BY <1>1, InitFolderKeeps
<1>2. CASE InsertRecord \/ ClearAnswers \/ WritePayload
  BY <1>2, InsertRecordKeeps, OfferFilesKeep
<1>3. CASE PollOffer \/ PollAppended \/ PollGrant
  BY <1>3, PollOfferKeeps, PollAppendedKeeps, PollGrantKeeps
<1>4. CASE HostCrash
  BY <1>4, HostCrashKeeps
<1>5. ASSUME NEW o \in Offers, OfferStep(o) PROVE Inv'
  <2>1. CASE \E kind \in Kinds : CreateOffer(o, kind)
    BY <2>1, CreateOfferKeeps
  <2>2. CASE Expire(o)
    BY <2>2, ExpireKeeps
  <2>3. CASE ServerEnds(o) \/ ServerGivesUp(o)
    BY <2>3, ServerStepsKeep
  <2>4. CASE ServerResponse(o)
    BY <2>4, ServerResponseKeeps
  <2>5. CASE ServerGrant(o)
    BY <2>5, ServerGrantKeeps
  <2>6. CASE \E j \in Joiners : ServerAccept(o, j) \/ AcceptSession(j, o) \/ AcceptCode(j, o)
    BY <2>6, ServerAcceptKeeps, AcceptSessionKeeps, AcceptCodeKeeps
  <2> QED BY <1>5, <2>1, <2>2, <2>3, <2>4, <2>5, <2>6 DEF OfferStep
<1>6. ASSUME NEW j \in Joiners, JoinStep(j) PROVE Inv'
  <2>1. CASE AcceptPayload(j)
    BY <2>1, AcceptPayloadKeeps
  <2>2. CASE Discover(j) \/ Respond(j)
    BY <2>2, ClientKeeps
  <2>3. CASE GiveUp(j)
    BY <2>3, GiveUpKeeps
  <2>4. CASE ReadGrant(j)
    BY <2>4, ReadGrantKeeps
  <2>5. CASE Adopt(j)
    BY <2>5, AdoptKeeps
  <2>6. CASE Record(j)
    BY <2>6, RecordKeeps
  <2>7. CASE Recorded(j)
    BY <2>7, RecordedKeeps
  <2>8. CASE SessionJoined(j)
    BY <2>8, SessionJoinedKeeps
  <2>9. CASE JoinerCrash(j)
    BY <2>9, JoinerCrashKeeps
  <2>10. CASE AdoptFails(j)
    BY <2>10, AdoptFailsKeeps
  <2> QED BY <1>6, <2>1, <2>2, <2>3, <2>4, <2>5, <2>6, <2>7, <2>8, <2>9, <2>10 DEF JoinStep
<1>7. ASSUME NEW t \in Tasks, AppendStep(t), UNCHANGED joinVars PROVE Inv'
  BY <1>7, AppendReadKeeps, AppendOpenKeeps, AppendWriteKeeps, AppendRenameKeeps, AppendFailsKeeps
     DEF AppendStep
<1>8. CASE UNCHANGED vars
  <2>1. GoesOn
    BY <1>8 DEF vars, GoesOn
  <2>2. Shape'
    BY <1>8 DEF vars, Inv, Shape
  <2> QED BY <1>8, <2>1, <2>2, StepKept, Standing DEF vars, Prepared
<1> QED
  BY <1>1, <1>2, <1>3, <1>4, <1>5, <1>6, <1>7, <1>8 DEF Next

\* Sharing and joining keep the invariant: however offers are made, answered,
\* expire and are polled, wherever a side crashes and a write fails.
THEOREM JoiningInvariance == Spec => []Inv
<1>1. Init => Inv
  BY InitInv
<1>2. Inv /\ [Next]_vars => Inv'
  BY NextInv
<1> QED
  BY <1>1, <1>2, PTL DEF Spec

\* append_wrap_entry_for and adopt_and_record: a join that reports success leaves
\* both devices in both configs and a folder that opens.
THEOREM JoinedAreListed == Spec => []PairedBothWays
<1>1. Inv => PairedBothWays
  <2>1. SUFFICES ASSUME Inv, ~overlapped, ~ignored, NEW j \in Joiners, join[j].pc = "done"
                 PROVE  /\ Openable(j)
                        /\ {Owner[j], Owner[Home]} \subseteq dir[j].conf \intersect dir[Home].conf
    BY DEF PairedBothWays
  <2>2. dir[j].dot /\ dir[j].poly /\ dir[j].settings
    BY <2>1, Standing DEF Attempts, AttemptOK
  <2>3. Owner[j] \in dir[j].conf /\ Owner[Home] \in dir[j].conf /\ Owner[j] \in dir[Home].conf
    BY <2>1, Standing DEF KeysHeld, KeysOK
  <2>4. Owner[Home] \in dir[Home].conf
    <3>1. dir[Home].conf # {} => making \in {"settings", "flush", "ready"}
      BY <2>1 DEF Inv, RestQuiet, HomeMade, Shape
    <3> QED BY <2>1, <2>3, <3>1 DEF Inv, RestQuiet, HomeMade, OwnKey
  <2> QED BY <2>2, <2>3, <2>4 DEF Openable, StoreOpens, OwnKey
<1> QED
  BY <1>1, JoiningInvariance, PTL

\* append_wrap_entry_for: from the moment ferry init is done the sharing device
\* can open its own folder, unless two appends met there.
THEOREM OwnKeyStays == Spec => []OwnKeyKept
<1>1. Inv => OwnKeyKept
  BY HomeListed DEF OwnKeyKept
<1> QED
  BY <1>1, JoiningInvariance, PTL

\* start_pairing_server: a code is used up by the first device it grants the key.
THEOREM CodesUsedUp == Spec => []CodeUsedOnce
<1>1. Inv => CodeUsedOnce
  <2>1. SUFFICES ASSUME Inv, NEW o \in Offers PROVE Cardinality(granted[o]) <= 1
    BY DEF CodeUsedOnce
  <2>2. granted[o] = {} \/ \E d \in Devices : granted[o] = {d}
    BY <2>1, Standing DEF UsedUp, OfferOK
  <2>3. CASE granted[o] = {}
    <3>1. Cardinality({}) = 0
      BY FS_EmptySet
    <3> QED BY <2>3, <3>1
  <2>4. ASSUME NEW d \in Devices, granted[o] = {d} PROVE Cardinality(granted[o]) <= 1
    <3>1. Cardinality({d}) = 1
      BY FS_Singleton, Zenon
    <3> QED BY <2>4, <3>1
  <2> QED BY <2>2, <2>3, <2>4
<1> QED
  BY <1>1, JoiningInvariance, PTL

\* accept_offer: an attempt that fails leaves the directory without a .ferry,
\* unless a crash or an error of the disk cut it off while it adopted the folder.
THEOREM FailedJoinsRetry == Spec => []RetryPossible
<1>1. Inv => RetryPossible
  BY Standing DEF Attempts, AttemptOK, RetryPossible
<1> QED
  BY <1>1, JoiningInvariance, PTL
=============================================================================
