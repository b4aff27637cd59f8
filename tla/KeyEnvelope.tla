---------------------------- MODULE KeyEnvelope ----------------------------
(***************************************************************************)
(* A Ferry folder on disk as far as opening it needs: ferry-folder's       *)
(* folder.rs over the config head of ferry-crypto.  The file .ferry/config *)
(* holds the folder key wrapped for every device that may have it; a       *)
(* device is added by reading it, writing the longer list to config.tmp    *)
(* and renaming that over it.  Nothing excludes two threads or processes   *)
(* from doing this to one folder at a time, and they share config.tmp.     *)
(*                                                                         *)
(* A config file is the set of devices it lists; the empty set stands for  *)
(* one that is missing, empty or does not parse.                           *)
(***************************************************************************)
EXTENDS Naturals, FiniteSets

CONSTANTS
    Places,     \* directories of folders
    Tasks,      \* threads that add a device to a config
    Owner,      \* directory -> the device it is on
    MaxFaults   \* crashes, failed writes, damaged messages, expiries and repeated polls

ASSUME EnvelopeAssumption == MaxFaults \in Nat /\ DOMAIN Owner = Places

VARIABLES
    dir,        \* directory -> .ferry there, its config, the polynomial, settings.json
    tmp,        \* directory -> config.tmp
    writer,     \* task -> its append_wrap_entry_for
    faults,     \* faults so far
    overlapped  \* history: two appends ran on one folder at a time

envVars == <<dir, tmp, writer, faults, overlapped>>

NoTmp == [there |-> FALSE, who |-> {}]
Asleep == [pc |-> "idle", place |-> "none", who |-> "none", seen |-> {}, fd |-> "none",
           ok |-> FALSE]
Empty == [dot |-> FALSE, conf |-> {}, poly |-> FALSE, settings |-> FALSE]

EnvInit ==
    /\ dir = [p \in Places |-> Empty]
    /\ tmp = [p \in Places |-> NoTmp]
    /\ writer = [t \in Tasks |-> Asleep]
    /\ faults = 0 /\ overlapped = FALSE

Writing(t) == writer[t].pc \in {"read", "open", "write", "rename"}

\* unwrap_own_fmk
OwnKey(p) == Owner[p] \in dir[p].conf

\* open_store and find_polynomial: a store, with its polynomial record
StoreOpens(p) == dir[p].dot /\ dir[p].poly

\* open_folder succeeds
Openable(p) == StoreOpens(p) /\ dir[p].settings /\ OwnKey(p)

(***************************************************************************)
(* create_folder and adopt_folder, with what their callers do next.        *)
(***************************************************************************)
\* Store::create
MakeStore(p) == ~dir[p].dot /\ dir' = [dir EXCEPT ![p].dot = TRUE]

\* write_config_file
WriteConfig(p) == dir' = [dir EXCEPT ![p].conf = {Owner[p]}]

\* flush and write_index_snapshot
FlushStore(p) == dir' = [dir EXCEPT ![p].poly = TRUE]

\* save_settings
SaveSettings(p) == dir' = [dir EXCEPT ![p].settings = TRUE]

(***************************************************************************)
(* append_wrap_entry_for.                                                  *)
(***************************************************************************)
Begin(t, p, device) ==
    /\ writer' = [writer EXCEPT ![t] = [Asleep EXCEPT !.pc = "read", !.place = p, !.who = device]]
    /\ overlapped' = (overlapped \/ \E s \in Tasks \ {t} : Writing(s) /\ writer[s].place = p)

Finish(t, ok) == writer' = [writer EXCEPT ![t] = [Asleep EXCEPT !.pc = "done", !.ok = ok]]

AppendRead(t) ==
    LET w == writer[t]
        c == dir[w.place].conf
    IN  /\ w.pc = "read"
        /\ \/ c = {} /\ Finish(t, FALSE)
           \/ w.who \in c /\ Finish(t, TRUE)
           \/ /\ c # {} /\ w.who \notin c
              /\ writer' = [writer EXCEPT ![t].pc = "open", ![t].seen = c]
        /\ UNCHANGED <<dir, tmp, faults, overlapped>>

InPlaceOpen(t) ==
    /\ writer[t].pc = "open"
    /\ dir' = [dir EXCEPT ![writer[t].place].conf = {}]
    /\ tmp' = [tmp EXCEPT ![writer[t].place] = [there |-> TRUE, who |-> {}]]
    /\ writer' = [writer EXCEPT ![t].pc = "write", ![t].fd = "tmp"]
    /\ UNCHANGED <<faults, overlapped>>

\* fs::write: config.tmp is created or truncated
AppendOpen(t) ==
    /\ writer[t].pc = "open"
    /\ tmp' = [tmp EXCEPT ![writer[t].place] = [there |-> TRUE, who |-> {}]]
    /\ writer' = [writer EXCEPT ![t].pc = "write", ![t].fd = "tmp"]
    /\ UNCHANGED <<dir, faults, overlapped>>

\* what a file holds once a list is written over it: a longer one's tail stays
\* and parse_config_head rejects it
Over(old, new) == IF Cardinality(old) > Cardinality(new) THEN {} ELSE new

\* fs::write: into the file it opened, whatever name that has by now
AppendWrite(t) ==
    LET w == writer[t]
        list == w.seen \union {w.who}
    IN  /\ w.pc = "write"
        /\ tmp' = IF w.fd = "tmp" THEN [tmp EXCEPT ![w.place].who = Over(@, list)] ELSE tmp
        /\ dir' = IF w.fd = "config" THEN [dir EXCEPT ![w.place].conf = Over(@, list)] ELSE dir
        /\ writer' = [writer EXCEPT ![t].pc = "rename"]
        /\ UNCHANGED <<faults, overlapped>>

\* the rename takes the file along for every thread that has it open
AfterRename(t) ==
    [s \in Tasks |->
        LET w == writer[s] IN
        IF s = t THEN [Asleep EXCEPT !.pc = "done", !.ok = TRUE]
        ELSE IF w.place # writer[t].place THEN w
        ELSE IF w.fd = "tmp" THEN [w EXCEPT !.fd = "config"]
        ELSE IF w.fd = "config" THEN [w EXCEPT !.fd = "gone"] ELSE w]

AppendRename(t) ==
    LET p == writer[t].place IN
    /\ writer[t].pc = "rename"
    /\ IF tmp[p].there
       THEN /\ dir' = [dir EXCEPT ![p].conf = tmp[p].who]
            /\ tmp' = [tmp EXCEPT ![p] = NoTmp]
            /\ writer' = AfterRename(t)
       ELSE Finish(t, FALSE) /\ UNCHANGED <<dir, tmp>>
    /\ UNCHANGED <<faults, overlapped>>

\* the disk is full
AppendFails(t) ==
    /\ faults < MaxFaults
    /\ writer[t].pc = "write"
    /\ Finish(t, FALSE)
    /\ faults' = faults + 1
    /\ UNCHANGED <<dir, tmp, overlapped>>

AppendStep(t) == AppendRead(t) \/ AppendOpen(t) \/ AppendWrite(t) \/ AppendRename(t)
                 \/ AppendFails(t)
=============================================================================
