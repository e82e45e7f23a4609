---------------------------- MODULE EngineHistory ----------------------------
(***************************************************************************)
(* Engine with history variables, for the properties that relate a state   *)
(* to earlier ones.  They restrict nothing: each step of Engine is one     *)
(* step here.                                                              *)
(***************************************************************************)
EXTENDS Engine

VARIABLES
  latest,  \* per key: the last record applied to a MemTable, in any session
  window,  \* per reader: the contents the store has had since the call began
  pinned   \* per snapshot: what it is to see, and the keys it is excused from

hvars == <<vars, latest, window, pinned>>

NoPin == [vals |-> <<>>, fresh |-> {}, inFlight |-> {}, overtaken |-> FALSE]

HInit ==
  /\ Init
  /\ latest = [k \in Keys |-> NoRecord]
  /\ window = [r \in Readers |-> {}]
  /\ pinned = [s \in Snapshots |-> NoPin]

TrackLatest ==
  latest' = [k \in Keys |->
    IF Applying(k) = {} THEN latest[k] ELSE wr[CHOOSE w \in Applying(k) : TRUE].rec]

TrackWindow ==
  window' = [r \in Readers |->
    IF rd'[r].pc = "idle" THEN {}
    ELSE IF rd'[r].pc = "read" THEN window[r] \cup {Store'}
    ELSE window[r]]

\* A snapshot is to see the store as it was when it read e.seq.  fresh: the keys
\* whose visible version was in the active MemTable, which a later write to that
\* MemTable overwrites.  inFlight: the keys of writes that had their Seq but had
\* not been applied.  overtaken: a compaction read the pinned Seqs between the
\* snapshot's reading of e.seq and its registration.
TrackPinned ==
  pinned' = [s \in Snapshots |->
    CASE snap'[s].pc = "loaded" /\ snap[s].pc = "none" ->
           [vals |-> Store,
            fresh |-> {k \in Keys : mts[mem].data[k] # NoRecord},
            inFlight |-> {wr[w].rec.key : w \in {u \in Writers : Pending(u)}},
            overtaken |-> FALSE]
      [] snap'[s].pc = "loaded" /\ snap[s].pc = "loaded" ->
           [pinned[s] EXCEPT !.overtaken = @ \/ (cp.pc = "pin" /\ cp'.pc = "merge")]
      [] snap'[s].pc \in {"none", "closed"} -> NoPin
      [] OTHER -> pinned[s]]

HNext == Next /\ TrackLatest /\ TrackWindow /\ TrackPinned

HSpec == HInit /\ [][HNext]_hvars

-----------------------------------------------------------------------------
\* getAt and scanAt read their sources one after the other and without the
\* lock, yet what they return, for all the keys of a Scan together, is the
\* store's contents at one moment of the call.
ReadsAreAtomic ==
  \A r \in Readers : rd[r].pc = "release" /\ rd[r].max = UnboundedSeq =>
    \E contents \in window[r] : \A k \in rd[r].keys : rd[r].out[k] = contents[k]

\* The last applied write of every key, or a later one whose append was not
\* acknowledged, is on disk, in a WAL or in a table, at every moment: through
\* rotation, flush, compaction, recovery, Close, and when any of their steps
\* fails.
LatestIsDurable ==
  LET OnDisk == UNION ({LogOf(g) : g \in DOMAIN wals} \cup {ssts[g].recs : g \in DOMAIN ssts})
  IN  \A k \in Keys : latest[k] # NoRecord =>
        \E r \in OnDisk : r.key = k /\ r.seq >= latest[k].seq

SeesItsPin(s, k) == GetNow(k, snap[s].seq) = pinned[s].vals[k]

\* An open snapshot reads what the store held when it was taken, while writes,
\* flushes and compactions go on: for the keys that had left the active
\* MemTable and had no write in flight, unless a compaction overtook the
\* registration of the snapshot.
SnapshotIsolation ==
  \A s \in Snapshots : snap[s].pc = "open" /\ ~pinned[s].overtaken =>
    \A k \in Keys \ (pinned[s].fresh \cup pinned[s].inFlight) : SeesItsPin(s, k)

\* As above without the exception for compactions: "SSTables retain every
\* version an open snapshot might still need" (Snapshot).
SnapshotVersionsRetained ==
  \A s \in Snapshots : snap[s].pc = "open" =>
    \A k \in Keys \ (pinned[s].fresh \cup pinned[s].inFlight) : SeesItsPin(s, k)
=============================================================================
