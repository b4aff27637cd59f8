------------------------------ MODULE PackStore ------------------------------
(***************************************************************************)
(* The blob store of one folder (ferry-store): threads of one or more      *)
(* processes put blobs, flush, adopt packs delivered by a peer and write   *)
(* index snapshots, each process with a Store of its own over the same     *)
(* directory.                                                              *)
(*                                                                         *)
(* A blob is staged in memory in the open pack of its kind.  A pack that   *)
(* is full or flushed is written under the hash of its bytes, its entries  *)
(* join the location table in memory, and a new numbered index file        *)
(* records them.  When there are many index files the process replaces     *)
(* them by one.  A process that starts knows what the index files name.    *)
(*                                                                         *)
(* The entries of a pack always travel together, so a location table and   *)
(* an index file are sets of packs.  Sizes are left out: an open pack that *)
(* holds something may or may not have room.  No pack is ever deleted.     *)
(***************************************************************************)
EXTENDS Naturals, FiniteSets

CONSTANTS
  Data, Meta,       \* the blobs: chunks; tree nodes, manifests, polynomials
  Proc, Thread,     \* processes that may open the store, and their threads
  ProcOf,           \* the process of a thread
  PeerPack,         \* packs a peer may deliver
  PeerBlobs,        \* the blobs in each of them
  CompactAt,        \* INDEX_COMPACTION_THRESHOLD
  MaxPacks,         \* bound on the packs sealed
  MaxIndex,         \* bound on the number of an index file
  MaxCrashes,       \* bound on the ends of processes
  MaxFails,         \* bound on failing reads and writes
  None              \* no thread

Blob == Data \cup Meta
OwnPack == 1 .. MaxPacks
PackId == OwnPack \cup PeerPack
IndexNo == 1 .. MaxIndex

ASSUME BlobAssumption == Data \cap Meta = {}
ASSUME PackAssumption == PeerPack \cap OwnPack = {}
ASSUME PeerAssumption == PeerBlobs \in [PeerPack -> (SUBSET Blob) \ {{}}]
ASSUME ProcAssumption == ProcOf \in [Thread -> Proc] /\ None \notin Thread
ASSUME BoundAssumption ==
  /\ CompactAt \in Nat /\ MaxPacks \in Nat /\ MaxIndex \in Nat
  /\ MaxCrashes \in Nat /\ MaxFails \in Nat

VARIABLES
  packs,      \* disk: the blobs of each pack file, {} when there is none
  index,      \* disk: the packs named by each index file
  up,         \* per process: the store is open
  staging,    \* Inner.staging: blobs in the open packs
  located,    \* Inner.locations: packs whose entries are known
  nextIndex,  \* next_index, 0 before the first allocation
  seq,        \* index_seq: the thread that holds it
  pc,         \* per thread: the step it is at
  todo,       \* the blob being put, or the blobs of drained packs
  batch,      \* the packs whose entries are being recorded
  num,        \* the number allocated for an index file
  old,        \* the index files a compaction replaces
  asked,      \* history: what the process held when a flush began
  unindexed,  \* history: packs whose index file could not be written
  crashes, fails

disk == <<packs, index>>
mem == <<up, staging, located, nextIndex>>
call == <<pc, todo, batch, num, old>>
history == <<asked, unindexed>>
faults == <<crashes, fails>>
vars == <<disk, mem, seq, call, history, faults>>

-----------------------------------------------------------------------------
BlobsIn(P) == UNION {packs[p] : p \in P}

\* What the index files name, and the blobs found by opening the store.
Indexed == UNION {index[n] : n \in DOMAIN index}
Durable == BlobsIn(Indexed)

\* A thread that puts a blob has not yet been told that the store has it.
Sealing(t) == IF pc[t] = "offer" THEN {} ELSE todo[t]

Recording == {"merge", "append", "write"}
Pending(t) == IF pc[t] \in Recording THEN batch[t] ELSE {}

Own(i) == {t \in Thread : ProcOf[t] = i}
InFlight(i) == UNION {Sealing(t) \cup BlobsIn(Pending(t)) : t \in Own(i)}

\* What process i need not be given again.
Held(i) == staging[i] \cup InFlight(i) \cup BlobsIn(located[i])

\* The test of put_blob: a pack that exists has it, or it is staged.
AlreadyPresent(i, b) == b \in staging[i] \cup BlobsIn(located[i])

Locked == {"write", "count", "snapshot", "rewrite", "delete"}

-----------------------------------------------------------------------------
Init ==
  /\ packs = [p \in PackId |-> {}]
  /\ index = [n \in {} |-> {}]
  /\ up = [i \in Proc |-> FALSE]
  /\ staging = [i \in Proc |-> {}]
  /\ located = [i \in Proc |-> {}]
  /\ nextIndex = [i \in Proc |-> 0]
  /\ seq = [i \in Proc |-> None]
  /\ pc = [t \in Thread |-> "idle"]
  /\ todo = [t \in Thread |-> {}]
  /\ batch = [t \in Thread |-> {}]
  /\ num = [t \in Thread |-> 0]
  /\ old = [t \in Thread |-> {}]
  /\ asked = [t \in Thread |-> {}]
  /\ unindexed = [i \in Proc |-> {}]
  /\ crashes = 0 /\ fails = 0

Ready(t) == up[ProcOf[t]] /\ pc[t] = "idle"

\* Store::open: the location table is the union of the index files.
Open(i) ==
  /\ ~up[i]
  /\ up' = [up EXCEPT ![i] = TRUE]
  /\ located' = [located EXCEPT ![i] = Indexed]
  /\ UNCHANGED <<disk, staging, nextIndex, seq, call, history, faults>>

\* put_blob up to the first unlock, when the blob has still to be staged.
PutCheck(t, b) ==
  /\ Ready(t)
  /\ ~AlreadyPresent(ProcOf[t], b)
  /\ pc' = [pc EXCEPT ![t] = "offer"]
  /\ todo' = [todo EXCEPT ![t] = {b}]
  /\ UNCHANGED <<disk, mem, seq, batch, num, old, history, faults>>

\* StagingPools::offer: the blob joins the open pack of its kind, or replaces
\* it when there is no room, and then the old pack is sealed by this thread.
Room(t) ==
  /\ pc[t] = "offer"
  /\ staging' = [staging EXCEPT ![ProcOf[t]] = @ \cup todo[t]]
  /\ todo' = [todo EXCEPT ![t] = {}]
  /\ pc' = [pc EXCEPT ![t] = "idle"]

OpenPack(t, b) == staging[ProcOf[t]] \cap (IF b \in Meta THEN Meta ELSE Data)

Overflow(t) ==
  /\ pc[t] = "offer"
  /\ \E b \in todo[t] :
       /\ OpenPack(t, b) # {}
       /\ staging' = [staging EXCEPT ![ProcOf[t]] = (@ \ OpenPack(t, b)) \cup {b}]
       /\ todo' = [todo EXCEPT ![t] = OpenPack(t, b)]
       /\ pc' = [pc EXCEPT ![t] = "seal"]

PutOffer(t) ==
  /\ Room(t) \/ Overflow(t)
  /\ UNCHANGED <<disk, up, located, nextIndex, seq, batch, num, old, history, faults>>

\* flush up to the unlock: every open pack is drained.
\* Mutant: the pool of metadata is forgotten.
DrainedData(i) == staging[i] \cap Data

Drained(i) == staging[i]

FlushDrain(t) ==
  LET i == ProcOf[t] IN
  /\ Ready(t)
  /\ todo' = [todo EXCEPT ![t] = Drained(i)]
  /\ staging' = [staging EXCEPT ![i] = {}]
  /\ pc' = [pc EXCEPT ![t] = IF Drained(i) = {} THEN "idle" ELSE "seal"]
  /\ asked' = [asked EXCEPT ![t] = Held(i)]
  /\ UNCHANGED <<disk, up, located, nextIndex, seq, batch, num, old, unindexed, faults>>

\* drain_all lists the data packs before the metadata packs.
NextPack(t) == IF todo[t] \cap Data # {} THEN todo[t] \cap Data ELSE todo[t] \cap Meta

\* The name of a pack is the hash of bytes that begin with a random salt.
FreshPack(p) == packs[p] = {} /\ \A q \in OwnPack : q < p => packs[q] # {}

\* seal_to_disk up to the rename of the pack.
SealWrite(t) ==
  /\ pc[t] = "seal"
  /\ \E p \in OwnPack :
       /\ FreshPack(p)
       /\ packs' = [packs EXCEPT ![p] = NextPack(t)]
       /\ batch' = [batch EXCEPT ![t] = {p}]
  /\ todo' = [todo EXCEPT ![t] = @ \ NextPack(t)]
  /\ pc' = [pc EXCEPT ![t] = "merge"]
  /\ UNCHANGED <<index, mem, seq, num, old, history, faults>>

\* adopt_pack up to the rename; a pack that is there already is not written.
AdoptPack(t, p) ==
  /\ Ready(t)
  /\ packs' = [packs EXCEPT ![p] = PeerBlobs[p]]
  /\ batch' = [batch EXCEPT ![t] = {p}]
  /\ pc' = [pc EXCEPT ![t] = "merge"]
  /\ UNCHANGED <<index, mem, seq, todo, num, old, history, faults>>

\* Both then add the entries to the location table under the lock.
\* Mutant: the table is not told about the pack.
MergeForgotten(t) ==
  /\ pc[t] = "merge"
  /\ pc' = [pc EXCEPT ![t] = "append"]
  /\ UNCHANGED <<disk, mem, seq, todo, batch, num, old, history, faults>>

Merge(t) ==
  /\ pc[t] = "merge"
  /\ located' = [located EXCEPT ![ProcOf[t]] = @ \cup batch[t]]
  /\ pc' = [pc EXCEPT ![t] = "append"]
  /\ UNCHANGED <<disk, up, staging, nextIndex, seq, todo, batch, num, old, history, faults>>

\* write_index_snapshot: the whole table goes into one more index file.
Snapshot(t) ==
  /\ Ready(t)
  /\ batch' = [batch EXCEPT ![t] = located[ProcOf[t]]]
  /\ pc' = [pc EXCEPT ![t] = "append"]
  /\ UNCHANGED <<disk, mem, seq, todo, num, old, history, faults>>

-----------------------------------------------------------------------------
(* Index files.  The number comes from the directory once, then from memory. *)

\* next_index_number: one more than the largest number in the directory.
NextIndexNumber(n) ==
  /\ \A m \in DOMAIN index : m < n
  /\ n = 1 \/ n - 1 \in DOMAIN index

AllocIndexNumber(t, n) ==
  LET i == ProcOf[t] IN
  /\ IF nextIndex[i] = 0 THEN NextIndexNumber(n) ELSE n = nextIndex[i]
  /\ nextIndex' = [nextIndex EXCEPT ![i] = n + 1]
  /\ num' = [num EXCEPT ![t] = n]

\* append_index_file takes index_seq and allocates a number.
Append(t) ==
  /\ pc[t] = "append"
  /\ seq[ProcOf[t]] = None
  /\ seq' = [seq EXCEPT ![ProcOf[t]] = t]
  /\ \E n \in IndexNo : AllocIndexNumber(t, n)
  /\ pc' = [pc EXCEPT ![t] = "write"]
  /\ UNCHANGED <<disk, up, staging, located, todo, batch, old, history, faults>>

\* write_named_atomically: the rename replaces a file of that name.
WriteIndex(t) ==
  index' = [m \in DOMAIN index \cup {num[t]} |->
              IF m = num[t] THEN batch[t] ELSE index[m]]

AppendWrite(t) ==
  /\ pc[t] = "write"
  /\ WriteIndex(t)
  /\ pc' = [pc EXCEPT ![t] = "count"]
  /\ UNCHANGED <<packs, mem, seq, todo, batch, num, old, history, faults>>

\* The call goes on with the next drained pack, or returns.
Finish(t) ==
  /\ seq' = [seq EXCEPT ![ProcOf[t]] = None]
  /\ pc' = [pc EXCEPT ![t] = IF todo[t] = {} THEN "idle" ELSE "seal"]
  /\ batch' = [batch EXCEPT ![t] = {}]
  /\ num' = [num EXCEPT ![t] = 0]
  /\ old' = [old EXCEPT ![t] = {}]

NoCompaction(t) ==
  /\ pc[t] = "count"
  /\ Cardinality(DOMAIN index) < CompactAt
  /\ Finish(t)
  /\ UNCHANGED <<disk, mem, todo, history, faults>>

\* do_compact_index_locked: list the files, read the table, write, delete.
CompactList(t) ==
  /\ pc[t] = "count"
  /\ Cardinality(DOMAIN index) >= CompactAt
  /\ old' = [old EXCEPT ![t] = DOMAIN index]
  /\ pc' = [pc EXCEPT ![t] = "snapshot"]
  /\ UNCHANGED <<disk, mem, seq, todo, batch, num, history, faults>>

\* Mutant: the old files go before the new one is there.
CompactSnapshotDeletes(t) ==
  /\ pc[t] = "snapshot"
  /\ batch' = [batch EXCEPT ![t] = located[ProcOf[t]]]
  /\ \E n \in IndexNo : AllocIndexNumber(t, n)
  /\ index' = [m \in DOMAIN index \ old[t] |-> index[m]]
  /\ pc' = [pc EXCEPT ![t] = "rewrite"]
  /\ UNCHANGED <<packs, up, staging, located, seq, todo, old, history, faults>>

CompactSnapshot(t) ==
  /\ pc[t] = "snapshot"
  /\ batch' = [batch EXCEPT ![t] = located[ProcOf[t]]]
  /\ \E n \in IndexNo : AllocIndexNumber(t, n)
  /\ pc' = [pc EXCEPT ![t] = "rewrite"]
  /\ UNCHANGED <<disk, up, staging, located, seq, todo, old, history, faults>>

CompactWrite(t) ==
  /\ pc[t] = "rewrite"
  /\ WriteIndex(t)
  /\ pc' = [pc EXCEPT ![t] = "delete"]
  /\ UNCHANGED <<packs, mem, seq, todo, batch, num, old, history, faults>>

\* A file that cannot be removed is left behind without an error.
CompactDelete(t) ==
  /\ pc[t] = "delete"
  /\ \E gone \in SUBSET (old[t] \ {num[t]}) :
       index' = [m \in DOMAIN index \ gone |-> index[m]]
  /\ Finish(t)
  /\ UNCHANGED <<packs, mem, todo, history, faults>>

-----------------------------------------------------------------------------
(* Failures. *)

\* A read or write fails: the call returns the error and drops what it had
\* drained; the guard of index_seq is released.
Dropped(t) == todo[t] \cup (IF pc[t] = "merge" THEN BlobsIn(batch[t]) ELSE {})

IoSteps == {"seal", "merge", "append", "write", "count", "rewrite", "delete"}

Fail(t) ==
  LET i == ProcOf[t] IN
  /\ pc[t] \in IoSteps
  /\ fails < MaxFails
  /\ fails' = fails + 1
  /\ pc' = [pc EXCEPT ![t] = "idle"]
  /\ todo' = [todo EXCEPT ![t] = {}]
  /\ batch' = [batch EXCEPT ![t] = {}]
  /\ num' = [num EXCEPT ![t] = 0]
  /\ old' = [old EXCEPT ![t] = {}]
  /\ seq' = [seq EXCEPT ![i] = IF @ = t THEN None ELSE @]
  /\ unindexed' = [unindexed EXCEPT ![i] = @ \cup
       (IF pc[t] \in {"append", "write"} THEN batch[t] \ Indexed ELSE {})]
  /\ asked' = [u \in Thread |-> IF u = t THEN {} ELSE asked[u] \ Dropped(t)]
  /\ UNCHANGED <<disk, mem, crashes>>

\* The process ends, at any point.
Crash(i) ==
  /\ up[i]
  /\ crashes < MaxCrashes
  /\ crashes' = crashes + 1
  /\ up' = [up EXCEPT ![i] = FALSE]
  /\ staging' = [staging EXCEPT ![i] = {}]
  /\ located' = [located EXCEPT ![i] = {}]
  /\ nextIndex' = [nextIndex EXCEPT ![i] = 0]
  /\ seq' = [seq EXCEPT ![i] = None]
  /\ pc' = [t \in Thread |-> IF ProcOf[t] = i THEN "idle" ELSE pc[t]]
  /\ todo' = [t \in Thread |-> IF ProcOf[t] = i THEN {} ELSE todo[t]]
  /\ batch' = [t \in Thread |-> IF ProcOf[t] = i THEN {} ELSE batch[t]]
  /\ num' = [t \in Thread |-> IF ProcOf[t] = i THEN 0 ELSE num[t]]
  /\ old' = [t \in Thread |-> IF ProcOf[t] = i THEN {} ELSE old[t]]
  /\ asked' = [t \in Thread |-> IF ProcOf[t] = i THEN {} ELSE asked[t]]
  /\ unindexed' = [unindexed EXCEPT ![i] = {}]
  /\ UNCHANGED <<disk, fails>>

-----------------------------------------------------------------------------
Step(t) ==
  \/ \E b \in Blob : PutCheck(t, b)
  \/ PutOffer(t)
  \/ FlushDrain(t)
  \/ SealWrite(t)
  \/ \E p \in PeerPack : AdoptPack(t, p)
  \/ Merge(t)
  \/ Snapshot(t)
  \/ Append(t)
  \/ AppendWrite(t)
  \/ NoCompaction(t)
  \/ CompactList(t)
  \/ CompactSnapshot(t)
  \/ CompactWrite(t)
  \/ CompactDelete(t)
  \/ Fail(t)

Next ==
  \/ \E t \in Thread : Step(t)
  \/ \E i \in Proc : Open(i) \/ Crash(i)

Spec == Init /\ [][Next]_vars
-----------------------------------------------------------------------------
(* Properties. *)

PC == {"idle", "offer", "seal"} \cup Recording \cup Locked

\* Types, and who holds index_seq: exactly the thread that is between taking
\* it in append_index_file and the end of a compaction.
TypeOK ==
  /\ packs \in [PackId -> SUBSET Blob]
  /\ DOMAIN index \subseteq IndexNo
  /\ index \in [DOMAIN index -> SUBSET PackId]
  /\ up \in [Proc -> BOOLEAN]
  /\ staging \in [Proc -> SUBSET Blob]
  /\ located \in [Proc -> SUBSET PackId]
  /\ nextIndex \in [Proc -> 0 .. MaxIndex + 1]
  /\ seq \in [Proc -> Thread \cup {None}]
  /\ pc \in [Thread -> PC]
  /\ todo \in [Thread -> SUBSET Blob]
  /\ batch \in [Thread -> SUBSET PackId]
  /\ num \in [Thread -> 0 .. MaxIndex]
  /\ old \in [Thread -> SUBSET IndexNo]
  /\ asked \in [Thread -> SUBSET Blob]
  /\ unindexed \in [Proc -> SUBSET PackId]
  /\ crashes \in 0 .. MaxCrashes /\ fails \in 0 .. MaxFails
  /\ \A t \in Thread : pc[t] \in Locked <=> seq[ProcOf[t]] = t

\* The index files and the location table of a running process agree: what
\* the table knows is in an index file, is about to be written to one, or
\* met an error on the way; what the files name the table knows, and its
\* pack is on disk.  (seal_to_disk, append_index_file, compaction and open,
\* with threads and ends of the process between any two of their steps.)
IndexCovers ==
  /\ \A p \in Indexed : packs[p] # {}
  /\ \A i \in Proc : up[i] =>
       /\ located[i] \subseteq
            Indexed \cup unindexed[i] \cup UNION {Pending(t) : t \in Own(i)}
       /\ Indexed \subseteq located[i]

\* When flush has returned, everything the store held when it was called is
\* on disk and indexed, except what another call is still sealing or dropped
\* on an error, and what lies in a pack whose index file could not be written.
FlushSeals ==
  \A t \in Thread : pc[t] = "idle" =>
    asked[t] \subseteq
      Durable \cup InFlight(ProcOf[t]) \cup BlobsIn(unindexed[ProcOf[t]])

\* The same without the exceptions: flush seals the store.  It is the claim
\* that a round ends with a sealed store, so that agreement bases survive.
FlushIsBarrier ==
  \A t \in Thread : pc[t] = "idle" => asked[t] \subseteq Durable

\* A writer adds index files and never takes the place of another's: a blob
\* that opening the store finds is found from then on.
DurableStays == [][Durable \subseteq Durable']_vars

\* The store keeps the promise of BlobStore: nothing becomes durable that
\* was not accepted, nothing durable is lost, and what a failed write or the
\* end of a process loses was not durable.
Promise == INSTANCE BlobStore WITH
  held <- Durable \cup UNION {Held(i) : i \in Proc},
  durable <- Durable

Implements == Promise!Spec
=============================================================================
