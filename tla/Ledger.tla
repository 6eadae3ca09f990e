------------------------------- MODULE Ledger -------------------------------
(***************************************************************************)
(* openLedger of .pi/away-runtime/ledger.ts: the effect log kept in segment*)
(* files, one process appending to it, and the crashes between two system  *)
(* calls of one append.                                                    *)
(*                                                                         *)
(* Files are measured in units; every frame is FrameLen units long, and a  *)
(* write puts one unit at a time.  The visible files are what readdir and  *)
(* read return; a power loss takes back what was not fsynced.  It takes    *)
(* directory entries back in creation order and never invents data: the    *)
(* kindest file system the code can meet.                                  *)
(***************************************************************************)
EXTENDS LedgerReducer, FiniteSets

CONSTANTS FrameLen,         \* units in one frame (header ... delimiter)
          MaxSegmentBytes,  \* opts.maxSegmentBytes, in units
          MaxLedgerBytes,   \* opts.maxLedgerBytes, in units
          MaxSegments,      \* opts.maxSegments
          Valid,            \* payloads all of whose fields are in bounds
          Worlds            \* what may go wrong, a choice made once

ASSUME FrameLenAssumption == FrameLen \in Nat /\ FrameLen >= 2
ASSUME CapsAssumption ==
    /\ MaxSegmentBytes \in Nat /\ MaxSegmentBytes >= FrameLen
    /\ MaxLedgerBytes \in Nat
    /\ MaxSegments \in Nat \ {0}
ASSUME ValidAssumption == Valid \subseteq Payloads
ASSUME WorldsAssumption == Worlds \subseteq {"soft", "power", "both"}

VARIABLES
    \* "soft": processes die and system calls fail, the machine stays up;
    \* "power": the machine loses power, nothing else fails; "both"
    world,
    \* what a reader of the ledger directory sees
    log,      \* complete frames in file order: [rec, seq, seg, pos]
    tails,    \* tails[s]: units of an incomplete frame at the end of segment s
    garbled,  \* a frame was written behind an incomplete one
    acks,     \* recovery acks: [seg, bytes] (name = number, length and hash)
    \* what a power loss leaves of it
    synced,   \* synced[s]: leading units of segment s that were fsynced
    durSegs,  \* segments whose directory entry was fsynced
    durAcks,  \* acks whose directory entry was fsynced
    \* the process: the closure of openLedger
    up, view, mem, pc, job,
    \* history: <<sequence, record>> pairs append has returned to its caller
    promised

files   == <<log, tails, garbled, acks>>
durable == <<synced, durSegs, durAcks>>
process == <<up, view, mem, pc, job>>
vars    == <<world, files, durable, process, promised>>

-----------------------------------------------------------------------------
(* Reading the directory: listSegments, parseSegmentBytes, loadLedger.     *)

Segments == 1..Len(tails)
FramesOf(s) == { i \in 1..Len(log) : log[i].seg = s }
Size(s) == FrameLen * Cardinality(FramesOf(s)) + tails[s]

\* Pairs <<segment, unit>>: totalBytes of loadLedger is their number.
TornUnits == { p \in Segments \X (1..FrameLen) : p[2] <= tails[p[1]] }
TotalBytes == FrameLen * Len(log) + Cardinality(TornUnits)

Records == [i \in 1..Len(log) |-> log[i].rec]

Torn(s) == tails[s] # 0
Acked(s) == \E a \in acks : a.seg = s
Final(s) == s = Len(tails)

\* validateInputFields: every field has its type, its length and its pattern.
WellFormed(r) == r.payload \in Valid

\* Every complete frame parses, has valid fields, is next in sequence and passes the reducer.
FramesAccepted ==
    /\ ~garbled
    /\ \A i \in 1..Len(log) : log[i].seq = i /\ WellFormed(log[i].rec)
    /\ Replayable(Records)

\* An ack names an existing torn segment with exactly its present bytes, and
\* a torn segment that is not the last one has its ack.
TornTailsExplained ==
    /\ \A a \in acks :
          /\ a.seg \in Segments
          /\ Torn(a.seg)
          /\ a.bytes = Size(a.seg)
          /\ \A b \in acks : b.seg = a.seg => b = a
    /\ \A s \in Segments : Torn(s) /\ ~Final(s) => Acked(s)

WithinCaps ==
    /\ \A s \in Segments : Size(s) <= MaxSegmentBytes
    /\ Len(tails) <= MaxSegments
    /\ Cardinality(acks) <= MaxSegments
    /\ TotalBytes <= MaxLedgerBytes

Loadable == FramesAccepted /\ TornTailsExplained /\ WithinCaps

\* The counters openLedger derives from what loadLedger returns.
Loaded ==
    LET last == Len(tails)
    IN [cur      |-> last,
        bytes    |-> IF last = 0 THEN 0 ELSE Size(last),
        torn     |-> last # 0 /\ Torn(last) /\ ~Acked(last),
        pending  |-> last # 0 /\ Acked(last),
        total    |-> TotalBytes,
        poisoned |-> FALSE]

-----------------------------------------------------------------------------
Closed == [cur |-> 0, bytes |-> 0, torn |-> FALSE, pending |-> FALSE,
           total |-> 0, poisoned |-> FALSE]
NoJob == [rec |-> << >>, seg |-> 0, isNew |-> FALSE, done |-> 0]

Init ==
    /\ world \in Worlds
    /\ log = << >> /\ tails = << >> /\ garbled = FALSE /\ acks = {}
    /\ synced = << >> /\ durSegs = 0 /\ durAcks = {}
    /\ up = FALSE /\ view = << >> /\ mem = Closed /\ pc = "idle" /\ job = NoJob
    /\ promised = {}

Open ==
    /\ ~up
    /\ Loadable
    /\ up' = TRUE
    /\ view' = Records
    /\ mem' = Loaded
    /\ UNCHANGED <<world, files, durable, pc, job, promised>>

\* append finds the same input under its effect key: nothing is written.
Duplicate(r) ==
    /\ up /\ pc = "idle" /\ ~mem.poisoned
    /\ WellFormed(r)
    /\ \E i \in 1..Len(view) :
          /\ view[i] = r
          /\ promised' = promised \union {<<i, r>>}
    /\ UNCHANGED <<world, files, durable, process>>

\* The frame goes to a successor segment when there is no segment yet, when
\* the last one ends in a torn frame (acknowledged or not), or when it is full.
NeedsSegment ==
    \/ mem.cur = 0
    \/ mem.torn
    \/ mem.pending
    \/ mem.bytes + FrameLen > MaxSegmentBytes

\* Mutant: a torn segment is left without an ack.
FirstCallWithoutAck == IF NeedsSegment THEN "create" ELSE "write"

\* A torn segment is acknowledged before its successor is created.
FirstCall ==
    IF mem.torn THEN "ack" ELSE IF NeedsSegment THEN "create" ELSE "write"

\* append up to its first system call: checks, routing and caps.
AppendStart(r) ==
    /\ up /\ pc = "idle" /\ ~mem.poisoned
    /\ WellFormed(r)
    /\ Accepts(view, r)
    /\ NeedsSegment => mem.cur + 1 <= MaxSegments
    /\ mem.total + FrameLen <= MaxLedgerBytes
    /\ job' = [rec   |-> r,
               seg   |-> IF NeedsSegment THEN mem.cur + 1 ELSE mem.cur,
               isNew |-> NeedsSegment,
               done  |-> 0]
    /\ pc' = FirstCall
    /\ UNCHANGED <<world, files, durable, up, view, mem, promised>>

\* createRecoveryAck: O_EXCL create, then fsync of the directory.
CreateAck ==
    /\ pc = "ack"
    /\ acks' = acks \union {[seg |-> mem.cur, bytes |-> mem.bytes]}
    /\ pc' = "ackDir"
    /\ UNCHANGED <<world, log, tails, garbled, durable,
                   up, view, mem, job, promised>>

SyncNames == durSegs' = Len(tails) /\ durAcks' = acks

SyncAckDir ==
    /\ pc = "ackDir"
    /\ SyncNames
    /\ pc' = "create"
    /\ UNCHANGED <<world, files, synced, up, view, mem, job, promised>>

\* writeFrame: O_EXCL create of the successor segment.
CreateSegment ==
    /\ pc = "create"
    /\ tails' = Append(tails, 0)
    /\ synced' = Append(synced, 0)
    /\ pc' = "write"
    /\ UNCHANGED <<world, log, garbled, acks, durSegs, durAcks,
                   up, view, mem, job, promised>>

\* Mutant: the loop runs once more than the frame has bytes.
FrameWrittenLate == job.done = FrameLen

FrameWritten == job.done + 1 = FrameLen

\* One round of the writeSync loop; the last unit completes the frame.
WriteUnit ==
    /\ pc = "write"
    /\ job' = [job EXCEPT !.done = @ + 1]
    /\ IF tails[job.seg] # job.done
         THEN garbled' = TRUE /\ UNCHANGED <<log, tails>>
         ELSE /\ UNCHANGED garbled
              /\ IF job.done + 1 < FrameLen
                   THEN /\ tails' = [tails EXCEPT ![job.seg] = @ + 1]
                        /\ UNCHANGED log
                   ELSE /\ tails' = [tails EXCEPT ![job.seg] = 0]
                        /\ log' = Append(log,
                              [rec |-> job.rec,
                               seq |-> Len(view) + 1,
                               seg |-> job.seg,
                               pos |-> Cardinality(FramesOf(job.seg)) + 1])
    /\ pc' = IF FrameWritten THEN "fsync" ELSE "write"
    /\ UNCHANGED <<world, acks, durable, up, view, mem, promised>>

\* Mutant: the segment is not fsynced.
FsyncSegmentNot ==
    /\ pc = "fsync"
    /\ pc' = IF job.isNew THEN "dir" ELSE "commit"
    /\ UNCHANGED <<world, files, durable, up, view, mem, job, promised>>

FsyncSegment ==
    /\ pc = "fsync"
    /\ synced' = [synced EXCEPT ![job.seg] = Size(job.seg)]
    /\ pc' = IF job.isNew THEN "dir" ELSE "commit"
    /\ UNCHANGED <<world, files, durSegs, durAcks, up, view, mem, job, promised>>

\* Mutant: the directory is not fsynced after a new segment.
SyncDirNot ==
    /\ pc = "dir"
    /\ pc' = "commit"
    /\ UNCHANGED <<world, files, durable, up, view, mem, job, promised>>

SyncDir ==
    /\ pc = "dir"
    /\ SyncNames
    /\ pc' = "commit"
    /\ UNCHANGED <<world, files, synced, up, view, mem, job, promised>>

Reduced == Append(view, job.rec)

\* Mutant: a new segment does not clear what was known of the torn one.
CountedStillTorn ==
    [mem EXCEPT !.cur   = job.seg,
                !.bytes = IF job.isNew THEN FrameLen ELSE @ + FrameLen,
                !.total = @ + FrameLen]

Counted ==
    [mem EXCEPT !.cur     = job.seg,
                !.bytes   = IF job.isNew THEN FrameLen ELSE @ + FrameLen,
                !.torn    = ~job.isNew /\ @,
                !.pending = ~job.isNew /\ @,
                !.total   = @ + FrameLen]

\* The reducer and the counters move only now, and append returns.
Commit ==
    /\ pc = "commit"
    /\ view' = Reduced
    /\ mem' = Counted
    /\ promised' = promised \union {<<Len(view) + 1, job.rec>>}
    /\ pc' = "idle"
    /\ job' = NoJob
    /\ UNCHANGED <<world, files, durable, up>>

\* A system call of the append fails: the handle is poisoned.
AppendFail ==
    /\ world # "power"
    /\ pc \in {"ack", "ackDir", "create", "write", "fsync", "dir"}
    /\ mem' = [mem EXCEPT !.poisoned = TRUE]
    /\ pc' = "idle"
    /\ job' = NoJob
    /\ UNCHANGED <<world, files, durable, up, view, promised>>

Down ==
    /\ up' = FALSE
    /\ view' = << >>
    /\ mem' = Closed
    /\ pc' = "idle"
    /\ job' = NoJob

\* The process ends or drops the handle; the operating system lives on.
Exit ==
    /\ world # "power"
    /\ up
    /\ Down
    /\ UNCHANGED <<world, files, durable, promised>>

-----------------------------------------------------------------------------
(* A power loss keeps the first n segments with keep[s] units of each and  *)
(* the acks that were created before any entry that is lost.               *)

Kept(keep, e) == e.seg \in DOMAIN keep /\ FrameLen * e.pos <= keep[e.seg]

\* The members of s at the positions in I, in their order.
Picked(s, I) ==
    [k \in 1..Cardinality(I) |->
        s[CHOOSE i \in I : Cardinality({j \in I : j <= i}) = k]]

\* The first n segments are left with keep[s] units each, and the acks kept.
Survive(n, keep, kept) ==
    /\ \A s \in 1..n : keep[s] \in synced[s]..Size(s)
    /\ durAcks \subseteq kept
    /\ \A a \in kept : a.seg <= n
    /\ \A a \in acks : a.seg < n => a \in kept
    /\ log' = Picked(log, {i \in 1..Len(log) : Kept(keep, log[i])})
    /\ tails' = [s \in 1..n |-> keep[s] % FrameLen]
    /\ acks' = kept
    /\ synced' = keep
    /\ durSegs' = n
    /\ durAcks' = kept

PowerLoss ==
    /\ world # "soft"
    /\ \E n \in durSegs..Len(tails) :
       \E keep \in [1..n -> 0..MaxSegmentBytes] :
       \E kept \in SUBSET acks : Survive(n, keep, kept)
    /\ Down
    /\ UNCHANGED <<world, garbled, promised>>

-----------------------------------------------------------------------------
AppendStep ==
    \/ \E r \in Record : AppendStart(r)
    \/ CreateAck \/ SyncAckDir \/ CreateSegment \/ WriteUnit
    \/ FsyncSegment \/ SyncDir \/ Commit

Serve == Open \/ AppendStep \/ \E r \in Record : Duplicate(r)

Next == Serve \/ AppendFail \/ Exit \/ PowerLoss

Spec == Init /\ [][Next]_vars

-----------------------------------------------------------------------------
(* Properties.                                                             *)

Pcs == {"idle", "ack", "ackDir", "create", "write", "fsync", "dir", "commit"}

Entry == [rec : Record, seq : Nat \ {0}, seg : Nat \ {0}, pos : Nat \ {0}]
Ack == [seg : Nat, bytes : Nat]

\* The types of the files, of what is durable and of the process.
TypeOK ==
    /\ world \in Worlds
    /\ log \in Seq(Entry)
    /\ tails \in Seq(0..(FrameLen - 1))
    /\ garbled \in BOOLEAN
    /\ acks \subseteq Ack
    /\ synced \in Seq(Nat) /\ Len(synced) = Len(tails)
    /\ durSegs \in Nat /\ durAcks \subseteq Ack
    /\ up \in BOOLEAN
    /\ view \in Seq(Record)
    /\ mem \in [cur : Nat, bytes : Nat, torn : BOOLEAN, pending : BOOLEAN,
                total : Nat, poisoned : BOOLEAN]
    /\ pc \in Pcs
    /\ job \in [rec : Record \union {<< >>}, seg : Nat, isNew : BOOLEAN,
                done : 0..FrameLen]
    /\ promised \subseteq (Nat \ {0}) \X Record

\* Between two calls the reducer and the counters of an open handle are what a
\* fresh openLedger would compute from the files (ledger.ts:922-933 against
\* 1021-1041): routing, caps and transition checks never run on stale values.
ReplayAgrees ==
    up /\ pc = "idle" /\ ~mem.poisoned => view = Records /\ mem = Loaded

\* Whatever the process or the machine did, the next openLedger does not throw
\* (ledger.ts:718-780): no frame is written behind a torn one, every ack still
\* fits its segment, no sequence number is missing, no cap is exceeded.
Reopens == Loadable

\* A record append has returned, as appended or as duplicate, is in the ledger
\* at its sequence number from then on, also after a power loss
\* (ledger.ts:1011-1042, 941-945).
PromisedKept ==
    \A p \in promised : p[1] <= Len(log) /\ log[p[1]].rec = p[2]

\* The records that would be left if the power went now.
OnDisk(e) == e.seg <= durSegs /\ FrameLen * e.pos <= synced[e.seg]
DurableRecords == Picked(Records, {i \in 1..Len(log) : OnDisk(log[i])})

\* What nobody may take back: where the machine stays up all that a reader
\* sees, otherwise what is on the disk.
Lasting == IF world = "soft" THEN Records ELSE DurableRecords

Log == INSTANCE EffectLog WITH effects <- Lasting

\* With process crashes and failing calls, what a reader sees is an append-only
\* history every record of which the reducer accepted (ledger.ts:385-424); with
\* power losses the same holds of what is on disk: one record at a time becomes
\* durable, in order, and none is taken back (801-842).
ImplementsEffectLog == Log!Spec

=============================================================================
