----------------------------- MODULE BucketLogs -----------------------------
(***************************************************************************)
(* The way of candidate neighbours from the searching threads to the       *)
(* candidate files (construction/our_construction.cpp).  Records are       *)
(* staged in a buffer per thread (TLStaging, lines 623-707), appended to   *)
(* one log file per bucket of node ids, and, when all stages have run,     *)
(* compacted bucket by bucket into cand.idx and cand.ids (1532-1719).      *)
(*                                                                         *)
(* CandidateStages says which processes open the logs and which records    *)
(* they produce.  A record is its gid and its neighbours; a neighbour is   *)
(* named by the record and its position.  Sizes are counted in units of    *)
(* REC_HDR_ALIGNED (16 bytes).                                             *)
(***************************************************************************)
EXTENDS Integers, Sequences, FiniteSets, SequencesExt, FiniteSetsExt

CONSTANTS Ns, Bs,     \* numbers of nodes (N) and of buckets (B)
          Threads,
          Cap0,       \* size of a new staging buffer
          Records,    \* all records
          Stale,      \* a record that an earlier build left in a log
          Gid, Count  \* gid and number of neighbours of a record

ASSUME SizesAssumption == Ns \subseteq Nat \ {0} /\ Bs \subseteq Nat \ {0} /\ Cap0 \in Nat \ {0}
ASSUME RecordsAssumption ==
    /\ Stale \notin Records
    /\ Gid \in [Records \cup {Stale} -> Nat] /\ Count \in [Records \cup {Stale} -> Nat \ {0}]

VARIABLES N, B,
          phase,      \* "closed", "append", "flush", "compact" or "done"
          todo,       \* records the running loop has not yet produced
          cur_b, buf, cap,   \* per thread: TLStaging
          just,       \* per thread: size of the record just copied, or 0
          flushed,    \* threads that have done the final flush of the stage
          log,        \* per bucket: the log file
          b,          \* the bucket compacted next
          acc_ids,    \* ids written to cand.ids so far
          idx, ids,   \* cand.idx: [off, cnt] of every gid; cand.ids
          total_ids   \* header of cand.ids

sizes == <<N, B>>
staging == <<cur_b, buf, cap, just>>
output == <<b, acc_ids, idx, ids, total_ids>>
logvars == <<N, B, phase, todo, cur_b, buf, cap, just, flushed, log, b, acc_ids, idx, ids,
            total_ids>>

-----------------------------------------------------------------------------
\* Lines 980-992: buckets of equal size, the last ones possibly short or empty.
bucket_size == (N + B - 1) \div B
Smaller(x, y) == IF x < y THEN x ELSE y
gid_to_bucket(g) == Smaller(g \div bucket_size, B - 1)
bucket_base(k) == Smaller(k * bucket_size, N)
bucket_limit(k) == Smaller((k + 1) * bucket_size, N)

\* Lines 679-681: header, neighbours and trailing length, rounded up.
Size(r) == 1 + (Count[r] + 3) \div 4
Used(q) == FoldLeft(LAMBDA n, r : n + Size(r), 0, q)

LogsInit ==
    /\ N \in {n \in Ns : \A r \in Records \cup {Stale} : Gid[r] < n}
    /\ B \in Bs
    /\ phase = "closed" /\ todo = {}
    /\ cur_b = [t \in Threads |-> -1]
    /\ buf = [t \in Threads |-> <<>>]
    /\ cap = [t \in Threads |-> Cap0]
    /\ just = [t \in Threads |-> 0]
    /\ flushed = {}
    /\ log \in {[k \in 0 .. B - 1 |-> <<>>],
                [k \in 0 .. B - 1 |-> IF k = gid_to_bucket(Gid[Stale]) THEN <<Stale>> ELSE <<>>]}
    /\ b = 0 /\ acc_ids = 0
    /\ idx = <<>> /\ ids = <<>> /\ total_ids = 0

\* Lines 1002-1010: a process opens the logs and its threads get empty buffers.
OpenedLogs(does_self_dump) == IF does_self_dump THEN [k \in 0 .. B - 1 |-> <<>>] ELSE log

OpenLogs(does_self_dump) ==
    /\ phase = "closed"
    /\ log' = OpenedLogs(does_self_dump)
    /\ cur_b' = [t \in Threads |-> -1]
    /\ buf' = [t \in Threads |-> <<>>]
    /\ cap' = [t \in Threads |-> Cap0]
    /\ just' = [t \in Threads |-> 0]
    /\ flushed' = {}
    /\ phase' = "append"
    /\ UNCHANGED <<sizes, output>>

\* A parallel loop begins that will produce the records rs.
Produce(rs) ==
    /\ todo' = rs
    /\ UNCHANGED <<sizes, phase, staging, flushed, log, output>>

-----------------------------------------------------------------------------
\* ensure(), lines 660-674: the buffer is doubled until everything fits.
NotGrown(c, need) == c
Grown(c, need) ==
    LET ncap[x \in c .. c + 2 * need] == IF x >= need THEN x ELSE ncap[2 * x] IN ncap[c]

\* flush(), lines 649-659: one write() of the whole buffer to the log it is for.
Written(logs, k, q) == IF q = <<>> THEN logs ELSE [logs EXCEPT ![k] = @ \o q]

\* append_record(), lines 682-688: a record of another bucket flushes first.
SwitchTo(t, k) == IF cur_b[t] = k THEN [logs |-> log, rest |-> buf[t]]
                                  ELSE [logs |-> Written(log, cur_b[t], buf[t]), rest |-> <<>>]

\* append_record(), lines 675-702: the record is copied into the buffer.
AppendRecord(t, r) ==
    LET k == gid_to_bucket(Gid[r])
        s == SwitchTo(t, k)
        q == Append(s.rest, r)
    IN  /\ phase = "append" /\ just[t] = 0 /\ r \in todo
        /\ todo' = todo \ {r}
        /\ log' = s.logs
        /\ cur_b' = [cur_b EXCEPT ![t] = k]
        /\ cap' = [cap EXCEPT ![t] = Grown(cap[t], Used(q))]
        /\ buf' = [buf EXCEPT ![t] = q]
        /\ just' = [just EXCEPT ![t] = Size(r)]
        /\ UNCHANGED <<sizes, phase, flushed, output>>

\* append_record(), lines 703-704: a buffer without room for another record of
\* that size is flushed.
FlushIfFull(t) ==
    LET full == Used(buf[t]) + just[t] > cap[t]
    IN  /\ just[t] > 0
        /\ log' = IF full THEN Written(log, cur_b[t], buf[t]) ELSE log
        /\ buf' = [buf EXCEPT ![t] = IF full THEN <<>> ELSE @]
        /\ just' = [just EXCEPT ![t] = 0]
        /\ UNCHANGED <<sizes, phase, todo, cur_b, cap, flushed, output>>

\* The parallel loop has ended at its barrier.
LoopOver == phase = "append" /\ todo = {} /\ \A t \in Threads : just[t] = 0

BeginFlush ==
    /\ LoopOver
    /\ phase' = "flush"
    /\ UNCHANGED <<sizes, todo, staging, flushed, log, output>>

\* Lines 1012-1028: every thread flushes its own buffer in a parallel region.
FlushThread(t) ==
    /\ phase = "flush" /\ t \notin flushed
    /\ log' = Written(log, cur_b[t], buf[t])
    /\ buf' = [buf EXCEPT ![t] = <<>>]
    /\ flushed' = flushed \cup {t}
    /\ UNCHANGED <<sizes, phase, todo, cur_b, cap, just, output>>

\* The logs are closed when every thread has flushed.
AllFlushed == flushed = Threads

CloseLogs ==
    /\ phase = "flush" /\ AllFlushed
    /\ phase' = "closed"
    /\ UNCHANGED <<sizes, todo, staging, flushed, log, output>>

-----------------------------------------------------------------------------
\* Compaction, lines 1612-1634: the neighbours of the gids gs in a log, each by the place
\* of its record and its own in it; pass 1 counts them.
Neighbours(q, gs) ==
    UNION {{x} \X (1 .. Count[q[x]]) : x \in {y \in DOMAIN q : Gid[q[y]] \in gs}}
counts(q, g) == Cardinality(Neighbours(q, {g}))

\* Lines 1636-1639: where gid g begins among the ids of its bucket.
gids(k) == bucket_base(k) .. bucket_limit(k) - 1
prefix(k, g) == Cardinality(Neighbours(log[k], bucket_base(k) .. g - 1))

\* Lines 1674-1682: pass 2 copies each record of the bucket to the cursor of its gid.
Copied(out, p, r) ==
    [x \in DOMAIN out |-> IF x \in p .. p + Count[r] - 1 THEN <<r, x - p + 1>> ELSE out[x]]
CopyOver(s, r) ==
    IF Gid[r] \notin DOMAIN s.cursor THEN s
    ELSE [cursor |-> s.cursor, out |-> Copied(s.out, s.cursor[Gid[r]], r)]
CopyRecord(s, r) ==
    IF Gid[r] \notin DOMAIN s.cursor THEN s
    ELSE [cursor |-> [s.cursor EXCEPT ![Gid[r]] = @ + Count[r]],
          out |-> Copied(s.out, s.cursor[Gid[r]], r)]

NoneCopied(k) == [cursor |-> [g \in gids(k) |-> prefix(k, g)],
                  out |-> [p \in 0 .. prefix(k, bucket_limit(k)) - 1 |-> <<Stale, 0>>]]
out_ids(k) == FoldLeft(CopyRecord, NoneCopied(k), log[k]).out

\* Lines 1535-1562: the output files are truncated (log files are read by name).
BeginCompaction ==
    /\ phase = "closed"
    /\ phase' = "compact"
    /\ UNCHANGED <<sizes, todo, staging, flushed, log, output>>

\* Lines 1567-1704: one bucket.  An empty range is skipped.
SkipBucket ==
    /\ phase = "compact" /\ b < B
    /\ bucket_base(b) >= bucket_limit(b)
    /\ b' = b + 1
    /\ UNCHANGED <<sizes, phase, todo, staging, flushed, log, acc_ids, idx, ids, total_ids>>

CompactBucket ==
    /\ phase = "compact" /\ b < B
    /\ bucket_base(b) < bucket_limit(b)
    /\ idx' = idx \o [x \in 1 .. bucket_limit(b) - bucket_base(b) |->
                        LET g == bucket_base(b) + x - 1
                        IN  [off |-> acc_ids + prefix(b, g), cnt |-> counts(log[b], g)]]
    /\ ids' = ids \o [x \in 1 .. prefix(b, bucket_limit(b)) |-> out_ids(b)[x - 1]]
    /\ acc_ids' = acc_ids + prefix(b, bucket_limit(b))
    /\ log' = [log EXCEPT ![b] = <<>>]
    /\ b' = b + 1
    /\ UNCHANGED <<sizes, phase, todo, staging, flushed, total_ids>>

\* Lines 1706-1719: the header is rewritten last.
FinishCompaction ==
    /\ phase = "compact" /\ b = B
    /\ total_ids' = acc_ids
    /\ phase' = "done"
    /\ UNCHANGED <<sizes, todo, staging, flushed, log, b, acc_ids, idx, ids>>

LogStep == \/ \E t \in Threads : \/ FlushIfFull(t)
                                 \/ \E r \in Records : AppendRecord(t, r)
Compaction == SkipBucket \/ CompactBucket \/ FinishCompaction

-----------------------------------------------------------------------------
\* The copies into a staging buffer end inside it: it has grown enough, and a
\* flush has made room in time.
StagingFits == \A t \in Threads : Used(buf[t]) <= cap[t]

\* How often record r is in the buffers and in the logs: its places there.
At(q, r) == {x \in DOMAIN q : q[x] = r}
Places(bufs, logs, r) ==
    (UNION {{<<"buffer", t, x>> : x \in At(bufs[t], r)} : t \in DOMAIN bufs}) \cup
    (UNION {{<<"log", k, x>> : x \in At(logs[k], r)} : k \in DOMAIN logs})
Copies(r) == Cardinality(Places(buf, log, r))

\* What cand.idx and cand.ids say of node g.
Slice(g) == SubSeq(ids, idx[g + 1].off + 1, idx[g + 1].off + idx[g + 1].cnt)
=============================================================================
