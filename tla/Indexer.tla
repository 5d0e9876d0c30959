------------------------------- MODULE Indexer -------------------------------
(***************************************************************************)
(* code_searcher::index_file and the chunk_allocator: the indexing thread  *)
(* copies the lines of each file into fixed-size chunks, storing a line    *)
(* only once while lines_ remembers it, and records where each line of the *)
(* file lies; a full chunk is queued, and finalize_worker threads sort its *)
(* suffixes while indexing goes on, with its newlines replaced by NULs.    *)
(*                                                                         *)
(* A text is a line without its newline; a chunk is the sequence of the    *)
(* texts copied into it.  A file is its texts, and whether its last line   *)
(* lacks a newline.                                                        *)
(***************************************************************************)
EXTENDS Naturals, Sequences, FiniteSets, SequencesExt

CONSTANTS
    LenOf,          \* LenOf[t]: the length of text t, for every text
    Blank,          \* the empty text
    NulText,        \* texts that contain a NUL
    Inputs,         \* the files that may be indexed: [lines, unterminated]
    Finalizer,      \* the FLAGS_threads finalize_worker threads
    line_limit, chunk_size,
    MaxPieces,      \* how many pieces a content chunk has room for
    compress,       \* --compress
    MaxFiles        \* bound: files indexed

Text == DOMAIN LenOf

IndexerAssumption ==
    /\ LenOf \in [Text -> Nat]
    /\ Blank \in Text /\ LenOf[Blank] = 0 /\ NulText \subseteq Text \ {Blank}
    /\ Finalizer # {}
    /\ \A f \in Inputs : f.lines \in Seq(Text) /\ f.unterminated \in BOOLEAN
    /\ line_limit \in Nat /\ chunk_size \in Nat /\ line_limit <= chunk_size
    /\ \A f \in Inputs : f.unterminated => f.lines # <<>> /\ LenOf[Last(f.lines)] > 0

VARIABLES
    pc,         \* the indexing thread
    input,      \* the file being indexed
    at,         \* the number of its line to handle next
    prev,       \* index_file's prev: the chunk of its last new line, 0 at first
    lines_,     \* lines_: where the remembered lines lie
    pieces,     \* file_contents_builder::pieces_
    indexed,    \* files_: [input, content, warned]
    chunks,     \* the chunks: [texts, state]; the last one is current_
    queue,      \* finalize_queue_
    closed,
    wpc, wchunk \* the finalize_worker threads

index_vars == <<input, at, prev, lines_, pieces>>
vars == <<pc, index_vars, indexed, chunks, queue, closed, wpc, wchunk>>

Init ==
    /\ pc = "idle" /\ input = [lines |-> <<>>, unterminated |-> FALSE]
    /\ at = 1 /\ prev = 0 /\ lines_ = {} /\ pieces = <<>>
    /\ indexed = <<>> /\ chunks = <<>>
    /\ queue = <<>> /\ closed = FALSE
    /\ wpc = [w \in Finalizer |-> "pop"]
    /\ wchunk = [w \in Finalizer |-> 0]

(* Where the k-th text of a chunk starts: after the bytes of the texts     *)
(* before it, each of which is followed by its newline.                    *)
BytesBefore(texts, k) == UNION {{j} \X (0 .. LenOf[texts[j]]) : j \in 1 .. (k - 1)}
Offset(texts, k) == Cardinality(BytesBefore(texts, k))
Size(texts) == Offset(texts, Len(texts) + 1)
Piece(c, off, len) == [chunk |-> c, off |-> off, len |-> len]

(* The texts of a chunk, each with the piece of memory it occupies.        *)
Stored(c) ==
    {[text |-> chunks[c].texts[k],
      piece |-> Piece(c, Offset(chunks[c].texts, k), LenOf[chunks[c].texts[k]])] :
        k \in DOMAIN chunks[c].texts}

-----------------------------------------------------------------------------
(* index_file: a file with a NUL in it is not indexed at all.              *)
StartFile_NoNulCheck(f) ==
    /\ pc = "idle" /\ Len(indexed) < MaxFiles
    /\ input' = f /\ at' = 1 /\ prev' = 0 /\ pieces' = <<>>
    /\ pc' = "line"
    /\ UNCHANGED <<lines_, indexed, chunks, queue, closed, wpc, wchunk>>
StartFile(f) ==
    /\ pc = "idle" /\ Len(indexed) < MaxFiles
    /\ ToSet(f.lines) \cap NulText = {}
    /\ input' = f /\ at' = 1 /\ prev' = 0 /\ pieces' = <<>>
    /\ pc' = "line"
    /\ UNCHANGED <<lines_, indexed, chunks, queue, closed, wpc, wchunk>>

(***************************************************************************)
(* The loop handles every line that has a newline; then, if (p < end - 1), *)
(* the rest of the file as a last line.                                    *)
(***************************************************************************)
HasLine ==
    \/ at < Len(input.lines)
    \/ /\ at = Len(input.lines)
       /\ input.unterminated => LenOf[input.lines[at]] > 1

(* A line of line_limit bytes or more is indexed as an empty one.          *)
Indexable(t) == IF LenOf[t] + 1 >= line_limit THEN Blank ELSE t

(* file_contents_builder::extend                                           *)
Extend(ps, p) ==
    IF ps # <<>> /\ p.len > 0 /\ Last(ps).chunk = p.chunk
         /\ Last(ps).off + Last(ps).len = p.off
    THEN [ps EXCEPT ![Len(ps)].len = @ + p.len]
    ELSE Append(ps, p)

Remembered(t) == {e \in lines_ : e.text = t}

(* The line is in lines_: use the copy that is there.                      *)
ReuseLine ==
    /\ pc = "line" /\ HasLine /\ compress
    /\ \E e \in Remembered(Indexable(input.lines[at])) : pieces' = Extend(pieces, e.piece)
    /\ at' = at + 1
    /\ UNCHANGED <<pc, input, prev, lines_, indexed, chunks, queue, closed, wpc, wchunk>>

(***************************************************************************)
(* It is not: alloc() room for it and its newline, in a new chunk if the   *)
(* current one is too full (which is queued for the finalizers), copy it   *)
(* and remember it, forgetting the lines of other chunks.                  *)
(***************************************************************************)
NeedsChunk(len) == chunks = <<>> \/ Size(Last(chunks).texts) + len > chunk_size

(* finish_chunk, for a new chunk: the one that was current is queued.      *)
FinishChunk_TheNewOne == Append(queue, Len(chunks) + 1)
FinishChunk == IF chunks = <<>> THEN queue ELSE Append(queue, Len(chunks))

(* if (alloc_->current_chunk() != prev) lines_.clear();                    *)
Kept(c) == IF c # prev THEN {} ELSE lines_

StoreLine ==
    LET t    == Indexable(input.lines[at])
        full == NeedsChunk(LenOf[t] + 1)
        c    == IF full THEN Len(chunks) + 1 ELSE Len(chunks)
        p    == Piece(c, IF full THEN 0 ELSE Size(Last(chunks).texts), LenOf[t])
    IN  /\ pc = "line" /\ HasLine
        /\ compress => Remembered(t) = {}
        /\ chunks' = IF full
                     THEN Append(chunks, [texts |-> <<t>>, state |-> "data"])
                     ELSE [chunks EXCEPT ![c].texts = Append(@, t)]
        /\ queue' = IF full THEN FinishChunk ELSE queue
        /\ lines_' = IF compress
                     THEN Kept(c) \cup {[text |-> t, piece |-> p]}
                     ELSE lines_
        /\ prev' = c
        /\ pieces' = Extend(pieces, p)
        /\ at' = at + 1
        /\ UNCHANGED <<pc, input, indexed, closed, wpc, wchunk>>

(* content.build(); a file with too many pieces is indexed as an empty one.*)
FinishFile ==
    /\ pc = "line" /\ ~HasLine
    /\ indexed' = Append(indexed,
                    [input   |-> input,
                     content |-> IF Len(pieces) > MaxPieces THEN <<>> ELSE pieces,
                     warned  |-> Len(pieces) > MaxPieces])
    /\ pc' = "idle"
    /\ UNCHANGED <<index_vars, chunks, queue, closed, wpc, wchunk>>

(* chunk_allocator::finalize: queue the current chunk, close, join.        *)
Finalize_NoClose ==
    /\ pc = "idle"
    /\ queue' = FinishChunk
    /\ pc' = IF chunks = <<>> THEN "final" ELSE "join"
    /\ UNCHANGED <<index_vars, indexed, chunks, closed, wpc, wchunk>>
Finalize ==
    /\ pc = "idle"
    /\ IF chunks = <<>>
       THEN pc' = "final" /\ UNCHANGED <<queue, closed>>
       ELSE /\ queue' = FinishChunk
            /\ closed' = TRUE
            /\ pc' = "join"
    /\ UNCHANGED <<index_vars, indexed, chunks, wpc, wchunk>>

Joined ==
    /\ pc = "join" /\ \A w \in Finalizer : wpc[w] = "exited"
    /\ pc' = "final"
    /\ UNCHANGED <<index_vars, indexed, chunks, queue, closed, wpc, wchunk>>

-----------------------------------------------------------------------------
(* finalize_worker: chunk::finalize of the next chunk in the queue.        *)
Munge(w) ==
    /\ wpc[w] = "pop" /\ queue # <<>>
    /\ queue' = Tail(queue)
    /\ wchunk' = [wchunk EXCEPT ![w] = Head(queue)]
    /\ chunks' = [chunks EXCEPT ![Head(queue)].state = "munged"]
    /\ wpc' = [wpc EXCEPT ![w] = "sort"]
    /\ UNCHANGED <<pc, index_vars, indexed, closed>>

(* divsufsort, then every NUL becomes a newline again.                     *)
Unmunge(w) ==
    /\ wpc[w] = "sort"
    /\ chunks' = [chunks EXCEPT ![wchunk[w]] =
                    [texts |-> [k \in DOMAIN @.texts |->
                                    IF @.texts[k] \in NulText THEN Blank ELSE @.texts[k]],
                     state |-> "sorted"]]
    /\ wpc' = [wpc EXCEPT ![w] = "pop"]
    /\ UNCHANGED <<pc, index_vars, indexed, queue, closed, wchunk>>

ExitFinalizer(w) ==
    /\ wpc[w] = "pop" /\ queue = <<>> /\ closed
    /\ wpc' = [wpc EXCEPT ![w] = "exited"]
    /\ UNCHANGED <<pc, index_vars, indexed, chunks, queue, closed, wchunk>>

FinalizerStep(w) == Munge(w) \/ Unmunge(w) \/ ExitFinalizer(w)

Next ==
    \/ \E f \in Inputs : StartFile(f)
    \/ ReuseLine \/ StoreLine \/ FinishFile
    \/ Finalize \/ Joined
    \/ \E w \in Finalizer : FinalizerStep(w)

(* The finalizers and the thread that waits for them keep running.         *)
Spec == Init /\ [][Next]_vars /\ WF_vars(Joined)
             /\ \A w \in Finalizer : WF_vars(FinalizerStep(w))

-----------------------------------------------------------------------------
(* try_match: the line numbers of file i at which the line at p occurs.    *)
Newlines(c, from, to) ==
    {e \in Stored(c) : from <= e.piece.off + e.piece.len /\ e.piece.off + e.piece.len < to}

LineNumbers(content, p) ==
    LET within(n) == /\ content[n].chunk = p.chunk
                     /\ content[n].off <= p.off /\ p.off <= content[n].off + content[n].len
        newlines(n, end) == Newlines(content[n].chunk, content[n].off, end)
        inside(n) == UNION {{m} \X newlines(m, content[m].off + content[m].len) : m \in 1..(n - 1)}
    IN  {n + Cardinality(inside(n)) + Cardinality(newlines(n, p.off)) :
           n \in {m \in DOMAIN content : within(m)}}

AllStored == UNION {Stored(c) : c \in DOMAIN chunks}

(***************************************************************************)
(* The index finds every line of every file: line n of an indexed file is  *)
(* found, at that number, through exactly one of the stored lines, and     *)
(* that one holds its text (or nothing, if the line is too long).  This    *)
(* goes through deduplication, chunks that fill up in the middle of a file *)
(* and sorting in the background.                                          *)
(***************************************************************************)
EveryLineFound ==
    \A i \in DOMAIN indexed : ~indexed[i].warned =>
        \A n \in DOMAIN indexed[i].input.lines :
            LET found == {e \in AllStored : n \in LineNumbers(indexed[i].content, e.piece)}
            IN  /\ Cardinality(found) = 1
                /\ \A e \in found : e.text = Indexable(indexed[i].input.lines[n])

(***************************************************************************)
(* lines_ holds views into chunk memory, which a lookup compares: all of   *)
(* them lie in the current chunk, which no finalizer has been given, and   *)
(* hold the text they did.                                                 *)
(***************************************************************************)
LookupsStayInCurrent ==
    pc = "line" =>
        \A e \in lines_ :
            /\ e.piece.chunk = Len(chunks)
            /\ chunks[e.piece.chunk].state = "data"
            /\ e.piece.chunk \notin ToSet(queue)
            /\ e \in Stored(e.piece.chunk)

(***************************************************************************)
(* No finalizer is given a chunk twice (the search would start on half     *)
(* sorted suffixes), and when finalize() returns every chunk is sorted.    *)
(***************************************************************************)
SortedOnce ==
    /\ \A k \in DOMAIN queue : chunks[queue[k]].state = "data"
    /\ IsInjective(queue)
    /\ pc = "final" => \A c \in DOMAIN chunks : chunks[c].state = "sorted"

(***************************************************************************)
(* From the moment a chunk is queued until it is sorted nobody writes to   *)
(* its data but the finalizer that has it.                                 *)
(***************************************************************************)
FrozenStep ==
    \A c \in DOMAIN chunks :
        c \in ToSet(queue) \/ chunks[c].state # "data"
            => chunks'[c].texts = chunks[c].texts
QueuedIsFrozen == [][FrozenStep]_chunks

(***************************************************************************)
(* finalize() returns: the finalizers see the queue closed and exit.       *)
(***************************************************************************)
FinalizeReturns == (pc = "join") ~> (pc = "final")
=============================================================================
