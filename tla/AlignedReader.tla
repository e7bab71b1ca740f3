---------------------------- MODULE AlignedReader ----------------------------
(***************************************************************************)
(* LinuxAlignedFileReader::read for one thread                             *)
(* (src/linux_aligned_file_reader.cpp): a batch of requests is carried out *)
(* through the thread's own context, a libaio context or an io_uring, and  *)
(* the call returns when it believes all of them done.  A request asks for *)
(* the data of a node in a buffer; buffers are used again batch after      *)
(* batch.  The kernel's side is modelled from how the code uses it.        *)
(***************************************************************************)
EXTENDS Integers, Sequences, FiniteSets, FiniteSetsExt, SequencesExt

CONSTANTS Engines,    \* engine_type: "libaio", "io_uring"
          MaxEvents,  \* MAX_EVENTS, size of a submission and of the ring
          Buffers,    \* buffers 1 .. Buffers of the caller
          Garbage     \* what a buffer holds before it is used

ASSUME ReaderAssumption == /\ Engines \subseteq {"libaio", "io_uring"}
                           /\ MaxEvents \in Nat \ {0} /\ Buffers \in Nat \ {0}

VARIABLES engine,
          reading,    \* "no", "yes" or "exited": the process has called exit(-1)
          reqs,       \* read_reqs: buffer and node of each request
          processed,  \* requests the call believes done
          sq,         \* entries of the ring that the kernel has not consumed
          buf,        \* the node whose data a buffer holds
          faulty      \* a submission was partial, or an event reported an error or a short read

reader == <<engine, reading, reqs, processed, sq, buf, faulty>>

NoData == [b \in 1 .. Buffers |-> Garbage]

ReaderInit ==
    /\ engine = "none" /\ reading = "no" /\ reqs = <<>> /\ processed = 0
    /\ sq = <<>> /\ buf = NoData /\ faulty = FALSE

\* register_thread() and get_ctx(), lines 217-303: the context of the thread that will read.
OpenReader ==
    /\ engine' \in Engines
    /\ UNCHANGED <<reading, reqs, processed, sq, buf, faulty>>

\* read(), lines 384-398, into the buffers bs of the caller.
BeginRead(rs, bs) ==
    /\ reading = "no"
    /\ reading' = "yes" /\ reqs' = rs /\ processed' = 0 /\ buf' = bs
    /\ UNCHANGED <<engine, sq, faulty>>

\* The buffers after the requests rs: when two of them name the same buffer, either
\* may be the last to be carried out.
Filled(rs) ==
    {f \in [1 .. Buffers -> ToSet(buf) \cup {q.node : q \in rs}] :
        \A b \in 1 .. Buffers :
            LET given == {q.node : q \in {r \in rs : r.buf = b}}
            IN  IF given = {} THEN f[b] = buf[b] ELSE f[b] \in given}

\* execute_io_uring, lines 39-99, one round: entries are prepared while the ring has
\* room, and submitted together with those left from before; the kernel consumes
\* some of them, all unless it runs short; as many completions are awaited, and a
\* read that was cut short is not noticed.
Prepared == SubSeq(reqs, processed + 1,
                   processed + Min({Len(reqs) - processed, MaxEvents - Len(sq)}))

SubmitRing ==
    /\ reading = "yes" /\ engine = "io_uring" /\ processed < Len(reqs)
    /\ LET queue == sq \o Prepared
       IN  \E n \in 0 .. Len(queue) :
             /\ \E short \in SUBSET ToSet(SubSeq(queue, 1, n)) :
                  /\ buf' \in Filled(ToSet(SubSeq(queue, 1, n)) \ short)
                  /\ faulty' = (faulty \/ short # {} \/ n < Len(queue))
             /\ sq' = SubSeq(queue, n + 1, Len(queue))
             /\ processed' = processed + n
    /\ UNCHANGED <<engine, reading, reqs>>

\* execute_io, lines 103-178, one round: a chunk of requests is submitted, and all
\* of its events are awaited.  Their results are not looked at.
RoundDown(n) == n \div MaxEvents
NumRounds(n) == (n + MaxEvents - 1) \div MaxEvents
Chunk == SubSeq(reqs, processed + 1, Min({processed + MaxEvents, Len(reqs)}))

SubmitChunk ==
    /\ reading = "yes" /\ engine = "libaio" /\ processed < NumRounds(Len(reqs)) * MaxEvents
    /\ \E failed \in SUBSET ToSet(Chunk) :
         /\ buf' \in Filled(ToSet(Chunk) \ failed)
         /\ faulty' = (faulty \/ failed # {})
    /\ processed' = processed + MaxEvents
    /\ UNCHANGED <<engine, reading, reqs, sq>>

\* Lines 66-69, 82-90 and 144-161: a submission or a wait fails, and the process exits.
ExitOnError ==
    /\ reading = "yes"
    /\ reading' = "exited"
    /\ UNCHANGED <<engine, reqs, processed, sq, buf, faulty>>

ReadDone == reading = "yes" /\ CASE engine = "io_uring" -> processed >= Len(reqs)
                                 [] engine = "libaio" -> processed >= NumRounds(Len(reqs)) * MaxEvents

EndRead ==
    /\ ReadDone
    /\ reading' = "no"
    /\ UNCHANGED <<engine, reqs, processed, sq, buf, faulty>>

ReaderStep == SubmitRing \/ SubmitChunk \/ ExitOnError
=============================================================================
