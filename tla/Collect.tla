------------------------------ MODULE Collect ------------------------------
(***************************************************************************)
(* `ferry store gc`: the collector of crates/ferry-store/src/gc.rs and the  *)
(* packs it deletes.  A collector is a process of its own: it reads its     *)
(* roots, walks the manifests, then visits the packs one by one, and writes *)
(* its ledger of first-unreferenced times only at the end.  Writers of the  *)
(* same folder run in between (module Pins).                                *)
(***************************************************************************)
EXTENDS Reconcile, FiniteSets, FiniteSetsExt

CONSTANTS
    Collector,      \* the processes that run `ferry store gc`
    Device,         \* the devices, naturals
    Graces,         \* the values of --grace-secs
    MaxClock,       \* bound: the clock stops here
    MaxCollections  \* bound: how often a collector is started

ASSUME CollectAssumption ==
    /\ Device \subseteq Nat /\ Graces \subseteq Nat
    /\ MaxClock \in Nat /\ MaxCollections \in Nat

VARIABLES
    clock,  \* wall-clock time
    packs,  \* the pack files: identifier, blobs, and when the file was written
    marks,  \* the file gc-state: pairs of a pack's identifier and a time
    gc,     \* what each collector is doing
    begun   \* how many collections were started

collectVars == <<clock, packs, marks, gc, begun>>

Tree == [Path -> Entry \cup {NoEntry}]
Manifest == [dev : Device, tree : Tree]

\* collect_referenced(): a manifest (with its tree nodes, which travel and are
\* flushed with it) and the chunks of the files in it.
Refs(m) == {<<"manifest", m>>}
             \cup {<<"chunk", m.tree[p].c>> : p \in {q \in Path : m.tree[q] # NoEntry /\ ~IsDir(m.tree[q])}}

Polynomial == <<"polynomial">>

BlobsOf(ps) == UNION {k.blobs : k \in ps}
Stored(b) == b \in BlobsOf(packs)
Readable(m) == \A b \in Refs(m) : Stored(b)

IdleCollector == [pc |-> "idle", roots |-> {}, reach |-> {}, todo |-> {}, ledger |-> {}, now |-> 0, grace |-> 0]

CollectInit(initial) ==
    /\ clock = 0
    /\ packs = initial
    /\ marks = {}
    /\ gc = [c \in Collector |-> IdleCollector]
    /\ begun = 0

Collecting == \E c \in Collector : gc[c].pc # "idle"

Tick == /\ clock < MaxClock
        /\ clock' = clock + 1
        /\ UNCHANGED <<packs, marks, gc, begun>>

\* run(): live_roots() has read the agreements and the held ledgers.
GcRoots(c, roots) ==
    /\ gc[c].pc = "idle"
    /\ begun < MaxCollections
    /\ begun' = begun + 1
    /\ \E grace \in Graces :
         gc' = [gc EXCEPT ![c] = [IdleCollector EXCEPT !.pc = "rooted", !.roots = roots,
                                                       !.now = clock, !.grace = grace]]
    /\ UNCHANGED <<clock, packs, marks>>

\* The collector leaves without writing its ledger: an error or a kill.
GcAbandon(c) ==
    /\ gc[c].pc # "idle"
    /\ gc' = [gc EXCEPT ![c] = IdleCollector]
    /\ UNCHANGED <<clock, packs, marks, begun>>

\* collect_referenced(), load_ledger() and the listing of packs/; a root that
\* the store cannot read ends the collection.
GcReach(c) ==
    /\ gc[c].pc = "rooted"
    /\ \A m \in gc[c].roots : Stored(<<"manifest", m>>)
    /\ gc' = [gc EXCEPT ![c].pc = "sweeping",
                        ![c].reach = UNION {Refs(m) : m \in gc[c].roots},
                        ![c].ledger = marks,
                        ![c].todo = {k.id : k \in packs}]
    /\ UNCHANGED <<clock, packs, marks, begun>>

LivePack(k, reach) == Polynomial \in k.blobs \/ k.blobs \cap reach # {}

\* The time the ledger has for a pack, or now.
FirstUnref(ledger, id, now) ==
    IF \E r \in ledger : r[1] = id THEN (CHOOSE r \in ledger : r[1] = id)[2] ELSE now

Unmarked(ledger, id) == {r \in ledger : r[1] # id}

\* One pack that is still there: live packs lose their mark, others get one or,
\* once the mark is as old as the grace period, are deleted.
GcSweep(c) ==
    \E k \in packs :
      LET g == gc[c]
          first == FirstUnref(g.ledger, k.id, g.now)
          rest == [g EXCEPT !.todo = @ \ {k.id}]
          marked == [rest EXCEPT !.ledger = Unmarked(@, k.id) \cup {<<k.id, first>>}]
          cleared == [rest EXCEPT !.ledger = Unmarked(@, k.id)]
      IN /\ g.pc = "sweeping"
         /\ k.id \in g.todo
         /\ \/ LivePack(k, g.reach) /\ gc' = [gc EXCEPT ![c] = cleared] /\ packs' = packs
            \/ /\ ~LivePack(k, g.reach) /\ g.now - first < g.grace
               /\ gc' = [gc EXCEPT ![c] = marked]
               /\ packs' = packs
            \/ /\ ~LivePack(k, g.reach) /\ g.now - first >= g.grace
               /\ gc' = [gc EXCEPT ![c] = cleared]
               /\ packs' = packs \ {k}
         /\ UNCHANGED <<clock, marks, begun>>

\* save_ledger(), once every listed pack was visited.
GcSave(c) ==
    /\ gc[c].pc = "sweeping"
    /\ gc[c].todo = {}
    /\ marks' = gc[c].ledger
    /\ gc' = [gc EXCEPT ![c] = IdleCollector]
    /\ UNCHANGED <<clock, packs, begun>>

CollectStep == \E c \in Collector : GcReach(c) \/ GcSweep(c) \/ GcSave(c) \/ GcAbandon(c)

CollectTypeOK ==
    /\ clock \in 0 .. MaxClock
    /\ \A k, l \in packs : k.id = l.id => k = l
    /\ \A k \in packs : k.born <= clock
    /\ \A r, s \in marks : r[1] = s[1] => r = s
    /\ \A r \in marks : r[2] <= clock
    /\ begun \in 0 .. MaxCollections
    /\ \A c \in Collector : gc[c].pc \in {"idle", "rooted", "sweeping"}
=============================================================================
