--------------------------- MODULE WriteAheadLog ---------------------------
(***************************************************************************)
(* The file log under the durable job store (internal/durable, Log):       *)
(* batches of framed records closed by a commit marker, written at the end *)
(* of the last committed batch and synced; recovery reads frames until one *)
(* is torn and applies a batch when it meets its marker.                   *)
(*                                                                         *)
(* The file is a sequence of cells.  A frame of size n is n cells; a cell  *)
(* names its frame and its place in it, so a frame is intact exactly when  *)
(* all its cells follow each other: that is what length, checksum and JSON *)
(* decoding establish.  Before a sync any subset of the cells of a write   *)
(* may have reached the disk.                                              *)
(***************************************************************************)
EXTENDS Integers, Sequences, FiniteSets

CONSTANTS
    Batch,          \* batches the store appends, each once
    Sizes,          \* Sizes[b]: the frame sizes of the records of b
    CommitSize,     \* the frame size of a commit marker
    Hole,           \* a cell of the file never written
    MaxOutages,     \* bound: process or power failures
    MaxRefusals       \* bound: writes or syncs that return an error

VARIABLES
    file,           \* what the disk holds
    up,             \* the log is open
    offset,         \* Log.offset: the end of the last committed batch
    nextSeq,        \* Log.nextSeq
    tried,          \* batches Append was called with
    acked,          \* history: the batches Append has acknowledged, in order
    outages, refusals

walVars == <<file, up, offset, nextSeq, tried, acked, outages, refusals>>

ASSUME SizesAssumption ==
    /\ \A b \in Batch : Sizes[b] \in Seq(Nat \ {0}) /\ Sizes[b] # <<>>
    /\ CommitSize \in Nat \ {0}

Records(b) == Len(Sizes[b])

(* The frames of a batch: its records and the commit marker.                 *)
FrameOf(b, i, seq) ==
    [batch |-> b, rec |-> i, seq |-> seq + i - 1, commit |-> i = Records(b) + 1,
     size |-> IF i = Records(b) + 1 THEN CommitSize ELSE Sizes[b][i]]

Cells(f) == [k \in 1 .. f.size |-> [frame |-> f, at |-> k]]

(* The bytes of one Append.                                                  *)
Image(b, seq) ==
    LET join[i \in 0 .. Records(b) + 1] ==
            IF i = 0 THEN <<>> ELSE join[i - 1] \o Cells(FrameOf(b, i, seq)) IN
    join[Records(b) + 1]

(* WriteAt: of the image, the cells in kept reach the disk at position p; a  *)
(* cell that does not keeps what it held.                                    *)
Written(disk, p, image, kept) ==
    LET last == IF kept = {} THEN 0 ELSE p + CHOOSE k \in kept : \A i \in kept : i <= k
        len == IF last > Len(disk) THEN last ELSE Len(disk) IN
    [i \in 1 .. len |->
        IF i - p \in kept THEN image[i - p]
        ELSE IF i <= Len(disk) THEN disk[i] ELSE Hole]

-----------------------------------------------------------------------------
(* Log.replay *)

(* readFrame: an intact frame starts after position p.                       *)
Intact(disk, p) ==
    /\ p < Len(disk)
    /\ disk[p + 1] # Hole
    /\ disk[p + 1].at = 1
    /\ p + disk[p + 1].frame.size <= Len(disk)
    /\ SubSeq(disk, p + 1, p + disk[p + 1].frame.size) = Cells(disk[p + 1].frame)

(* All frames read before the first torn one.                                *)
Readable(disk) ==
    LET read[p \in 0 .. Len(disk)] ==
            IF Intact(disk, p)
            THEN <<disk[p + 1].frame>> \o read[p + disk[p + 1].frame.size]
            ELSE <<>> IN
    read[0]

CommitsIn(frames) == {i \in 1 .. Len(frames) : frames[i].commit}

(* The frames up to the last commit marker; the rest is discarded.           *)
Committed(frames) ==
    IF CommitsIn(frames) = {} THEN <<>>
    ELSE SubSeq(frames, 1, CHOOSE i \in CommitsIn(frames) : \A k \in CommitsIn(frames) : k <= i)

SizeOf(frames) ==
    LET sum[i \in 0 .. Len(frames)] == IF i = 0 THEN 0 ELSE sum[i - 1] + frames[i].size IN
    sum[Len(frames)]

(* The batches replay applies: the records between two markers.              *)
Replayed(disk) ==
    LET frames == Committed(Readable(disk))
        split[i \in 0 .. Len(frames)] ==
            IF i = 0 THEN [done |-> <<>>, batch |-> <<>>]
            ELSE IF frames[i].commit
                 THEN [done |-> Append(split[i - 1].done, split[i - 1].batch), batch |-> <<>>]
                 ELSE [done |-> split[i - 1].done,
                       batch |-> Append(split[i - 1].batch, <<frames[i].batch, frames[i].rec>>)] IN
    split[Len(frames)].done

WrongNextSeq(frames) ==
    LET seqs == {frames[i].seq : i \in 1 .. Len(frames)} IN
    IF seqs = {} THEN 0 ELSE CHOOSE s \in seqs : \A t \in seqs : t <= s

NextSeq(frames) ==
    LET seqs == {frames[i].seq : i \in 1 .. Len(frames)} IN
    IF seqs = {} THEN 0 ELSE 1 + CHOOSE s \in seqs : \A t \in seqs : t <= s

-----------------------------------------------------------------------------
WalInit ==
    /\ file = <<>>
    /\ up = TRUE
    /\ offset = 0 /\ nextSeq = 0
    /\ tried = {} /\ acked = <<>>
    /\ outages = 0 /\ refusals = 0

(* Every record of the batch and the marker take a sequence number, whether  *)
(* or not the write succeeds.                                                *)
Begin(b) ==
    /\ up
    /\ b \notin tried
    /\ tried' = tried \cup {b}

WrongOffset(o, image) == o

NewOffset(o, image) == o + Len(image)

AppendBatch(b) ==
    LET image == Image(b, nextSeq) IN
    /\ Begin(b)
    /\ file' = Written(file, offset, image, 1 .. Len(image))
    /\ offset' = NewOffset(offset, image)
    /\ nextSeq' = nextSeq + Records(b) + 1
    /\ acked' = Append(acked, b)
    /\ UNCHANGED <<up, outages, refusals>>

(* WriteAt or Sync fails: Append returns the error and leaves the offset.    *)
AppendFails(b, kept) ==
    LET image == Image(b, nextSeq) IN
    /\ Begin(b)
    /\ refusals < MaxRefusals
    /\ refusals' = refusals + 1
    /\ file' = Written(file, offset, image, kept)
    /\ nextSeq' = nextSeq + Records(b) + 1
    /\ UNCHANGED <<up, offset, acked, outages>>

(* The machine dies inside Append, before the sync is known to be complete.  *)
CrashInAppend(b, kept) ==
    LET image == Image(b, nextSeq) IN
    /\ Begin(b)
    /\ outages < MaxOutages
    /\ outages' = outages + 1
    /\ file' = Written(file, offset, image, kept)
    /\ up' = FALSE
    /\ UNCHANGED <<offset, nextSeq, acked, refusals>>

Crash ==
    /\ up
    /\ outages < MaxOutages
    /\ outages' = outages + 1
    /\ up' = FALSE
    /\ UNCHANGED <<file, offset, nextSeq, tried, acked, refusals>>

WrongTruncated(disk, n) == disk

Truncated(disk, n) == SubSeq(disk, 1, n)

(* Open: replay, then cut the torn tail.                                     *)
Open ==
    LET frames == Readable(file) IN
    /\ ~up
    /\ up' = TRUE
    /\ offset' = SizeOf(Committed(frames))
    /\ nextSeq' = NextSeq(frames)
    /\ file' = Truncated(file, SizeOf(Committed(frames)))
    /\ UNCHANGED <<tried, acked, outages, refusals>>

WalNext ==
    \/ \E b \in Batch :
         \/ AppendBatch(b)
         \/ \E kept \in SUBSET (1 .. Len(Image(b, nextSeq))) :
              AppendFails(b, kept) \/ CrashInAppend(b, kept)
    \/ Crash
    \/ Open

WalSpec == WalInit /\ [][WalNext]_walVars

-----------------------------------------------------------------------------
(* Properties *)

(* The offset lies in the file, and sequence numbers stay ahead of it.       *)
WalTypeOK ==
    /\ up \in BOOLEAN
    /\ offset \in 0 .. Len(file)
    /\ nextSeq \in Nat
    /\ tried \subseteq Batch
    /\ acked \in Seq(tried)
    /\ outages \in 0 .. MaxOutages /\ refusals \in 0 .. MaxRefusals

Whole(b) == [i \in 1 .. Records(b) |-> <<b, i>>]

(* Whatever happens afterwards, opening the log replays every acknowledged   *)
(* batch, whole and in order.                                                *)
AckedSurvive ==
    LET r == Replayed(file)
        order == SelectSeq(r, LAMBDA x : \E i \in DOMAIN acked : x = Whole(acked[i])) IN
    order = [i \in DOMAIN acked |-> Whole(acked[i])]

(* Log.Append: whatever part of an unsynced write a crash leaves behind, a   *)
(* batch is replayed as a whole or not at all, once.  After an Append that   *)
(* returned an error, its remains may follow a shorter batch written over    *)
(* it; until then no batch is ever replayed in part.                         *)
BatchesAreAtomic ==
    LET r == Replayed(file) IN
    refusals = 0 =>
    /\ \A i \in DOMAIN r : \E b \in tried : r[i] = Whole(b)
    /\ \A i, k \in DOMAIN r : r[i] = r[k] => i = k

(* Record.Seq is monotonic: the frames of acknowledged batches carry         *)
(* increasing numbers, across outages, failed appends and restarts.          *)
SeqIncreases ==
    LET f == SelectSeq(Committed(Readable(file)),
                       LAMBDA x : \E i \in DOMAIN acked : x.batch = acked[i]) IN
    \A i \in 1 .. Len(f) - 1 : f[i].seq < f[i + 1].seq

(* The log's position is right: the offset lies in the file, and sequence    *)
(* numbers of acknowledged batches grow.                                     *)
LogConsistent == WalTypeOK /\ SeqIncreases
=============================================================================
