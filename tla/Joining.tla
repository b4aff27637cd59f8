------------------------------ MODULE Joining ------------------------------
(***************************************************************************)
(* Sharing a folder and joining it: PairingRitual                          *)
(* (ferry-folder/src/pairing.rs), the pairing server and its client        *)
(* (ferry-rendezvous), and the commands and dashboard calls that use them. *)
(*                                                                         *)
(* The sharing device makes an offer.  Its pairing server answers one      *)
(* device that knows the code; a joiner in the same process finds the      *)
(* offer in the rendezvous map instead; and the offer may be left as a     *)
(* file that a device answers beside it, which the sharing side notices    *)
(* when it polls.  Whichever way, the joiner adopts the folder under the   *)
(* key it was granted and both sides list each other in their config.      *)
(*                                                                         *)
(* A response is the offer it answers and the device that answers; its MAC *)
(* binds both.  A grant is the offer it is sealed under and the device the *)
(* key in it is wrapped for.                                               *)
(***************************************************************************)
EXTENDS KeyEnvelope

CONSTANTS
    Home,       \* the shared folder
    Joiners,    \* directories to join it in
    Local,      \* the joiners that run in the sharing process
    Offers,     \* offers that may be made, 1, 2, ...
    Poller,     \* the task that polls the offer file
    MaxJoins    \* attempts to join

ASSUME JoiningAssumption ==
    /\ Places = Joiners \union {Home}
    /\ Tasks = Joiners \union Offers \union {Poller}
    /\ Local \subseteq Joiners /\ Offers \subseteq Nat \ {0}
    /\ Home \notin Joiners /\ Joiners \intersect Offers = {} /\ Poller \notin Joiners \union Offers
    /\ \A j \in Local : Owner[j] = Owner[Home]

VARIABLES
    making,    \* ferry init: its place
    offer,     \* offer -> was it made, is it in the rendezvous map, has it expired
    server,    \* offer -> its pairing server
    share,     \* the command that makes an offer
    files,     \* the offer, response and grant files beside the folder's config
    poll,      \* poll_offer_at
    join,      \* joiner -> its attempt
    joins,     \* attempts so far
    granted,   \* history: offer -> the devices its server granted the key
    ignored,   \* history: a server granted the key though it could not list the device
    hit        \* history: joiners cut off by a crash or an error while they adopted

joinVars == <<making, offer, server, share, files, poll, join, joins, granted, ignored, hit>>
vars == <<dir, tmp, writer, faults, overlapped, making, offer, server, share, files, poll,
          join, joins, granted, ignored, hit>>

Nothing == [offer |-> 0, device |-> "none"]
Absent == [there |-> FALSE, offer |-> 0, device |-> "none"]
Off == [pc |-> "off", conn |-> "none", callback |-> TRUE, stop |-> FALSE]
Failed == [pc |-> "failed", offer |-> 0, kind |-> "none"]
Idle == [pc |-> "idle", offer |-> 0, kind |-> "none"]
Unmade == [made |-> FALSE, record |-> FALSE, expired |-> FALSE]

\* the offer's SessionRecord is in the process's rendezvous map
InMap(o) == offer[o].record

Init ==
    /\ EnvInit
    /\ making = "mkdir"
    /\ offer = [o \in Offers |-> Unmade]
    /\ server = [o \in Offers |-> Off]
    /\ share = Idle
    /\ files = [offer |-> 0, resp |-> Nothing, grant |-> Absent]
    /\ poll = [pc |-> "idle", offer |-> 0, device |-> "none"]
    /\ join = [j \in Joiners |-> Idle]
    /\ joins = 0
    /\ granted = [o \in Offers |-> {}] /\ ignored = FALSE /\ hit = {}

(***************************************************************************)
(* ferry init.                                                             *)
(***************************************************************************)
InitFolder ==
    /\ \/ making = "mkdir" /\ MakeStore(Home) /\ making' = "config"
       \/ making = "config" /\ WriteConfig(Home) /\ making' = "settings"
       \/ making = "settings" /\ SaveSettings(Home) /\ making' = "flush"
       \/ making = "flush" /\ FlushStore(Home) /\ making' = "ready"
    /\ UNCHANGED <<tmp, writer, faults, overlapped, offer, server, share, files, poll, join,
                   joins, granted, ignored, hit>>

(***************************************************************************)
(* Making an offer: for ferry share, a code ("code"); from the dashboard,  *)
(* which clears the old answers ("ui"); or ferry pair ("cli").             *)
(***************************************************************************)
Kinds == {"code", "ui", "cli"}

\* create_offer: the server is up before the record is in the map, or could not be
\* started, which is ignored
CreateOffer(o, kind) ==
    /\ share = Idle /\ Openable(Home)
    /\ ~offer[o].made /\ \A k \in Offers : k < o => offer[k].made
    /\ offer' = [offer EXCEPT ![o].made = TRUE]
    /\ \/ server' = [server EXCEPT ![o].pc = "accept"] /\ UNCHANGED faults
       \/ faults < MaxFaults /\ faults' = faults + 1 /\ UNCHANGED server
    /\ share' = [pc |-> "record", offer |-> o, kind |-> kind]
    /\ UNCHANGED <<dir, tmp, writer, overlapped, making, files, poll, join, joins, granted, ignored, hit>>

InsertRecord ==
    /\ share.pc = "record"
    /\ offer' = [offer EXCEPT ![share.offer].record = TRUE]
    /\ share' = CASE share.kind = "code" -> Idle
                  [] share.kind = "ui"   -> [share EXCEPT !.pc = "clear"]
                  [] share.kind = "cli"  -> [share EXCEPT !.pc = "payload"]
    /\ UNCHANGED <<envVars, making, server, files, poll, join, joins, granted, ignored, hit>>

\* share_initiate_blocking: the old response and grant are removed
ClearAnswers ==
    /\ share.pc = "clear"
    /\ files' = [files EXCEPT !.resp = Nothing, !.grant = Absent]
    /\ share' = [share EXCEPT !.pc = "payload"]
    /\ UNCHANGED <<envVars, making, offer, server, poll, join, joins, granted, ignored, hit>>

WritePayload ==
    /\ share.pc = "payload"
    /\ files' = [files EXCEPT !.offer = share.offer]
    /\ share' = Idle
    /\ UNCHANGED <<envVars, making, offer, server, poll, join, joins, granted, ignored, hit>>

\* a day passes
Expire(o) ==
    /\ offer[o].made /\ ~offer[o].expired
    /\ faults < MaxFaults
    /\ faults' = faults + 1
    /\ offer' = [offer EXCEPT ![o].expired = TRUE]
    /\ UNCHANGED <<dir, tmp, writer, overlapped, making, server, share, files, poll, join, joins, granted, ignored, hit>>

(***************************************************************************)
(* poll_offer_at: the dashboard's share status, or PendingOffer::complete. *)
(***************************************************************************)

\* the folder opens, and the offer and a response are there
StatusPolls == Openable(Home) /\ files.offer # 0 /\ files.resp # Nothing

\* a response for this offer is answered, also if it was answered before, when
\* listing the device again changes nothing and the grant is written once more
Granted == [there |-> TRUE, offer |-> files.resp.offer, device |-> files.resp.device]

PollOffer ==
    /\ poll.pc = "idle"
    /\ StatusPolls
    /\ files.resp.offer = files.offer
    /\ poll' = [pc |-> "append", offer |-> files.offer, device |-> files.resp.device]
    /\ Begin(Poller, Home, files.resp.device)
    /\ \/ files.grant # Granted /\ UNCHANGED faults
       \/ files.grant = Granted /\ faults < MaxFaults /\ faults' = faults + 1
    /\ UNCHANGED <<dir, tmp, making, offer, server, share, files, join, joins, granted,
                   ignored, hit>>

\* unless the device could be listed there is no grant
PollAppended ==
    /\ poll.pc = "append" /\ writer[Poller].pc = "done"
    /\ poll' = [poll EXCEPT !.pc = IF writer[Poller].ok THEN "truncate" ELSE "idle"]
    /\ writer' = [writer EXCEPT ![Poller] = Asleep]
    /\ UNCHANGED <<dir, tmp, faults, overlapped, making, offer, server, share, files, join,
                   joins, granted, ignored, hit>>

\* fs::write of the grant
PollGrant ==
    /\ \/ /\ poll.pc = "truncate"
          /\ files' = [files EXCEPT !.grant = [Absent EXCEPT !.there = TRUE]]
          /\ poll' = [poll EXCEPT !.pc = "write"]
       \/ /\ poll.pc = "write"
          /\ files' = [files EXCEPT !.grant = [there |-> TRUE, offer |-> poll.offer,
                                               device |-> poll.device]]
          /\ poll' = [pc |-> "idle", offer |-> 0, device |-> "none"]
    /\ UNCHANGED <<envVars, making, offer, server, share, join, joins, granted, ignored, hit>>

(***************************************************************************)
(* The pairing server: one thread, one connection at a time.               *)
(***************************************************************************)
Answered(o) == LET j == server[o].conn IN join[j].pc = "responded" /\ join[j].offer = o

Serving(o, pc, j) == server' = [server EXCEPT ![o].pc = pc, ![o].conn = j]
ServerOff(o) == server' = [server EXCEPT ![o] = Off]

\* the loop ends when it is told to stop or the offer expires
ServerEnds(o) ==
    /\ server[o].pc = "accept"
    /\ server[o].stop \/ offer[o].expired
    /\ ServerOff(o)
    /\ UNCHANGED <<envVars, making, offer, share, files, poll, join, joins, granted, ignored, hit>>

\* a connection is accepted and sent the offer
ServerAccept(o, j) ==
    /\ server[o].pc = "accept"
    /\ join[j].pc = "connected" /\ join[j].offer = o
    /\ Serving(o, "wait", j)
    /\ join' = [join EXCEPT ![j].pc = "offered"]
    /\ UNCHANGED <<envVars, making, offer, share, files, poll, joins, granted, ignored, hit>>

\* no response comes in ten seconds, or the other end is gone
ServerGivesUp(o) ==
    /\ server[o].pc = "wait" /\ ~Answered(o)
    /\ Serving(o, "accept", "none")
    /\ UNCHANGED <<envVars, making, offer, share, files, poll, join, joins, granted, ignored, hit>>

\* the callback: it runs for one response only
ServerResponse(o) ==
    LET j == server[o].conn IN
    /\ server[o].pc = "wait" /\ Answered(o)
    /\ \/ /\ server[o].callback
          /\ Begin(o, Home, Owner[j])
          /\ server' = [server EXCEPT ![o].pc = "append", ![o].callback = FALSE]
          /\ UNCHANGED faults
       \/ /\ server[o].callback /\ faults < MaxFaults  \* the response arrived damaged
          /\ server' = [server EXCEPT ![o].pc = "accept", ![o].conn = "none",
                                      ![o].callback = FALSE]
          /\ faults' = faults + 1
          /\ UNCHANGED <<writer, overlapped>>
       \/ /\ ~server[o].callback
          /\ Serving(o, "accept", "none")
          /\ UNCHANGED <<writer, overlapped, faults>>
    /\ UNCHANGED <<dir, tmp, making, offer, share, files, poll, join, joins, granted, ignored, hit>>

\* a joiner that is still waiting gets the grant, sealed under the offer it was
\* sent, and opens it
GrantTo(j, o) ==
    IF join[j].pc = "responded" /\ join[j].offer = o
    THEN [join EXCEPT ![j].pc = "mkdir"] ELSE join

KeepServing(o) ==
    LET j == server[o].conn IN
    /\ server[o].pc = "append" /\ writer[o].pc = "done"
    /\ ignored' = (ignored \/ ~writer[o].ok)
    /\ writer' = [writer EXCEPT ![o] = Asleep]
    /\ offer' = [offer EXCEPT ![o].record = FALSE]
    /\ granted' = [granted EXCEPT ![o] = @ \union {Owner[j]}]
    /\ join' = GrantTo(j, o)
    /\ server' = [server EXCEPT ![o].pc = "accept", ![o].conn = "none", ![o].callback = TRUE]
    /\ UNCHANGED <<dir, tmp, faults, overlapped, making, share, files, poll, joins, hit>>

\* the callback returns whether or not the device could be listed; the code is
\* used up and the server stops
ServerGrant(o) ==
    LET j == server[o].conn IN
    /\ server[o].pc = "append" /\ writer[o].pc = "done"
    /\ ignored' = (ignored \/ ~writer[o].ok)
    /\ writer' = [writer EXCEPT ![o] = Asleep]
    /\ offer' = [offer EXCEPT ![o].record = FALSE]
    /\ granted' = [granted EXCEPT ![o] = @ \union {Owner[j]}]
    /\ join' = GrantTo(j, o)
    /\ ServerOff(o)
    /\ UNCHANGED <<dir, tmp, faults, overlapped, making, share, files, poll, joins, hit>>

(***************************************************************************)
(* Joining.                                                                *)
(***************************************************************************)
Free(j) == join[j].pc \in {"idle", "failed"} /\ joins < MaxJoins

At(j, pc) == join' = [join EXCEPT ![j].pc = pc]
Attempt(j, ok, pc, o, kind) ==
    join' = [join EXCEPT ![j] = IF ok THEN [pc |-> pc, offer |-> o, kind |-> kind] ELSE Failed]
Ends(j, ok) ==
    join' = [join EXCEPT ![j] = IF ok THEN [Failed EXCEPT !.pc = "done"] ELSE Failed]

\* accept_code with a code that is in the rendezvous map of this process
AcceptSession(j, o) ==
    /\ Free(j) /\ j \in Local
    /\ InMap(o)
    /\ joins' = joins + 1
    /\ IF offer[o].expired
       THEN /\ offer' = [offer EXCEPT ![o].record = FALSE]
            /\ server' = [server EXCEPT ![o].stop = TRUE]
            /\ Ends(j, FALSE)
       ELSE /\ Attempt(j, ~dir[j].dot, "mkdir", o, "session")
            /\ UNCHANGED <<offer, server>>
    /\ UNCHANGED <<envVars, making, share, files, poll, granted, ignored, hit>>

\* accept_code with any other code: join_via_network
AcceptCode(j, o) ==
    /\ Free(j) /\ offer[o].made
    /\ ~(j \in Local /\ InMap(o))
    /\ joins' = joins + 1
    /\ Attempt(j, ~dir[j].dot, "discover", o, "network")
    /\ UNCHANGED <<envVars, making, offer, server, share, files, poll, granted, ignored, hit>>

\* accept_payload: the response is written beside the offer file
AcceptPayload(j) ==
    /\ Free(j) /\ files.offer # 0
    /\ joins' = joins + 1
    /\ LET o  == files.offer
           ok == ~dir[j].dot /\ ~offer[o].expired
       IN  /\ Attempt(j, ok, "await", o, "file")
           /\ files' = IF ok THEN [files EXCEPT !.resp = [offer |-> o, device |-> Owner[j]]]
                            ELSE files
    /\ UNCHANGED <<envVars, making, offer, server, share, poll, granted, ignored, hit>>

\* client_discover_and_join: a running server answers the probe
Discover(j) ==
    /\ join[j].pc = "discover" /\ server[join[j].offer].pc = "accept"
    /\ At(j, "connected")
    /\ UNCHANGED <<envVars, making, offer, server, share, files, poll, joins, granted, ignored, hit>>

Respond(j) ==
    /\ join[j].pc = "offered"
    /\ At(j, "responded")
    /\ UNCHANGED <<envVars, making, offer, server, share, files, poll, joins, granted, ignored, hit>>

\* no server is found, or nothing is read in time
GiveUp(j) ==
    /\ join[j].pc \in {"discover", "connected", "offered", "responded", "await"}
    /\ Ends(j, FALSE)
    /\ UNCHANGED <<envVars, making, offer, server, share, files, poll, joins, granted, ignored, hit>>

\* open_pair_grant: the grant is sealed under the secret of this offer
SealedUnder(j) == files.grant.offer = join[j].offer

\* unwrap_folder_key: the folder key in it is wrapped for this device
WrappedFor(j) == files.grant.device = Owner[j]

\* open_grant, and the key taken out of what it opens
ForUs(j) == SealedUnder(j) /\ WrappedFor(j)

AdoptThenOpen(j) ==
    /\ join[j].pc = "await" /\ files.grant.there
    /\ dir' = [dir EXCEPT ![j].dot = TRUE]
    /\ Attempt(j, ForUs(j), "config", join[j].offer, "file")
    /\ UNCHANGED <<tmp, writer, faults, overlapped, making, offer, server, share, files, poll,
                   joins, granted, ignored, hit>>

\* PendingAcceptance::complete: the first grant file it can read has to be the
\* one for this offer and this device
ReadGrant(j) ==
    /\ join[j].pc = "await" /\ files.grant.there
    /\ Attempt(j, ForUs(j), "mkdir", join[j].offer, "file")
    /\ UNCHANGED <<envVars, making, offer, server, share, files, poll, joins, granted, ignored, hit>>

\* adopt_folder, and the store made durable before the settings
Adopt(j) ==
    /\ \/ join[j].pc = "mkdir" /\ MakeStore(j) /\ At(j, "config")
       \/ join[j].pc = "config" /\ WriteConfig(j) /\ At(j, "flush")
       \/ join[j].pc = "flush" /\ FlushStore(j) /\ At(j, "settings")
       \/ join[j].pc = "settings" /\ SaveSettings(j) /\ At(j, "record")
    /\ UNCHANGED <<tmp, writer, faults, overlapped, making, offer, server, share, files, poll,
                   joins, granted, ignored, hit>>

Cut(j) == IF dir[j].dot THEN hit \union {j} ELSE hit

\* an error in one of these steps ends the attempt and leaves what was made
AdoptFails(j) ==
    /\ join[j].pc \in {"mkdir", "config", "flush", "settings"}
    /\ faults < MaxFaults
    /\ faults' = faults + 1
    /\ Ends(j, FALSE)
    /\ hit' = Cut(j)
    /\ UNCHANGED <<dir, tmp, writer, overlapped, making, offer, server, share, files, poll,
                   joins, granted, ignored>>

NotRecorded(j) ==
    /\ join[j].pc = "record" /\ join[j].kind # "session"
    /\ Ends(j, TRUE)
    /\ UNCHANGED <<envVars, making, offer, server, share, files, poll, joins, granted, ignored, hit>>

\* adopt_and_record: the sharing device is listed
Record(j) ==
    /\ join[j].pc = "record" /\ join[j].kind # "session"
    /\ Begin(j, j, Owner[Home])
    /\ At(j, "append")
    /\ UNCHANGED <<dir, tmp, faults, making, offer, server, share, files, poll, joins, granted,
                   ignored, hit>>

Recorded(j) ==
    /\ join[j].pc = "append" /\ writer[j].pc = "done"
    /\ Ends(j, writer[j].ok)
    /\ hit' = IF writer[j].ok THEN hit ELSE hit \union {j}
    /\ writer' = [writer EXCEPT ![j] = Asleep]
    /\ UNCHANGED <<dir, tmp, faults, overlapped, making, offer, server, share, files, poll,
                   joins, granted, ignored>>

\* join_via_session: both ends are this device, so both are listed already
SessionJoined(j) ==
    /\ join[j].pc = "record" /\ join[j].kind = "session"
    /\ offer' = [offer EXCEPT ![join[j].offer].record = FALSE]
    /\ server' = [server EXCEPT ![join[j].offer].stop = TRUE]
    /\ Ends(j, TRUE)
    /\ UNCHANGED <<envVars, making, share, files, poll, joins, granted, ignored, hit>>

(***************************************************************************)
(* Crashes.                                                                *)
(***************************************************************************)
Broken == [j \in Joiners |-> IF j \in Local /\ join[j].pc \notin {"idle", "done", "failed"}
                             THEN Failed ELSE join[j]]

\* the sharing process dies with its servers, its map and what it was writing
HostCrash ==
    /\ faults < MaxFaults /\ making = "ready"
    /\ faults' = faults + 1
    /\ offer' = [o \in Offers |-> [offer[o] EXCEPT !.record = FALSE]]
    /\ server' = [o \in Offers |-> Off]
    /\ share' = Idle
    /\ poll' = [pc |-> "idle", offer |-> 0, device |-> "none"]
    /\ writer' = [t \in Tasks |-> IF t \in Joiners \ Local THEN writer[t] ELSE Asleep]
    /\ join' = Broken
    /\ hit' = hit \union {j \in Joiners : Broken[j] # join[j] /\ dir[j].dot}
    /\ UNCHANGED <<dir, tmp, overlapped, making, files, joins, granted, ignored>>

JoinerCrash(j) ==
    /\ faults < MaxFaults /\ j \notin Local
    /\ join[j].pc \notin {"idle", "done", "failed"}
    /\ faults' = faults + 1
    /\ writer' = [writer EXCEPT ![j] = Asleep]
    /\ Ends(j, FALSE)
    /\ hit' = Cut(j)
    /\ UNCHANGED <<dir, tmp, overlapped, making, offer, server, share, files, poll, joins,
                   granted, ignored>>

OfferStep(o) ==
    \/ \E kind \in Kinds : CreateOffer(o, kind)
    \/ Expire(o) \/ ServerEnds(o) \/ ServerGivesUp(o) \/ ServerResponse(o) \/ ServerGrant(o)
    \/ \E j \in Joiners : ServerAccept(o, j) \/ AcceptSession(j, o) \/ AcceptCode(j, o)

JoinStep(j) ==
    \/ AcceptPayload(j) \/ Discover(j) \/ Respond(j) \/ GiveUp(j) \/ ReadGrant(j)
    \/ Adopt(j) \/ AdoptFails(j) \/ Record(j) \/ Recorded(j) \/ SessionJoined(j)
    \/ JoinerCrash(j)

Next ==
    \/ InitFolder \/ InsertRecord \/ ClearAnswers \/ WritePayload
    \/ PollOffer \/ PollAppended \/ PollGrant \/ HostCrash
    \/ \E o \in Offers : OfferStep(o)
    \/ \E j \in Joiners : JoinStep(j)
    \/ \E t \in Tasks : AppendStep(t) /\ UNCHANGED joinVars

Spec == Init /\ [][Next]_vars

-----------------------------------------------------------------------------
\* append_wrap_entry_for and adopt_and_record: a join that reports success leaves
\* both devices in both configs and a folder that opens, whichever way the code
\* or the file travelled, whatever gave up, expired or crashed meanwhile, unless
\* two appends met on the shared folder or its server could not write.
PairedBothWays ==
    ~overlapped /\ ~ignored =>
        \A j \in Joiners : join[j].pc = "done" =>
            /\ Openable(j)
            /\ {Owner[j], Owner[Home]} \subseteq dir[j].conf \intersect dir[Home].conf

\* append_wrap_entry_for: from the moment ferry init is done the sharing device
\* can open its own folder, in every state and after every crash, unless two
\* appends met there.
OwnKeyKept == making = "ready" /\ ~overlapped => Openable(Home)

\* start_pairing_server: a code is used up by the first device it grants the key.
CodeUsedOnce == \A o \in Offers : Cardinality(granted[o]) <= 1

\* accept_offer: an attempt that fails leaves the directory without a .ferry, so
\* that it can be tried again there, unless a crash or an error of the disk cut it
\* off while it adopted the folder.
RetryPossible ==
    \A j \in Joiners : join[j].pc = "failed" /\ j \notin hit => ~dir[j].dot

=============================================================================
