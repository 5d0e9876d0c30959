----------------------------- MODULE BackendProofs -----------------------------
(***************************************************************************)
(* Proofs about the index of the backend, for any files, any line limit    *)
(* and chunk size, any number of finalizers and any replacements of the    *)
(* index file: a queued chunk is not written to, each chunk is sorted      *)
(* once, every line of an indexed file is found again at its number, the   *)
(* bounds of the matches in a line are exact, and a Reload that returned   *)
(* OK is honoured.                                                         *)
(***************************************************************************)
EXTENDS Backend, FiniteSets, FiniteSetTheorems, TLAPS

-----------------------------------------------------------------------------
(* Where the texts of a chunk lie.                                         *)

Chunk == [texts : Seq(Build!Text), state : {"data", "munged", "sorted"}]
PieceSet == [chunk : Nat, off : Nat, len : Nat]
Entry == [text : Build!Text, piece : PieceSet]

(* Piece p of the chunks cs is text t, the k-th of its chunk.              *)
IsKth(cs, p, t, k) ==
    /\ p.chunk \in DOMAIN cs
    /\ k \in DOMAIN cs[p.chunk].texts
    /\ t = cs[p.chunk].texts[k]
    /\ p = Build!Piece(p.chunk, Build!Offset(cs[p.chunk].texts, k), LenOf[t])
AtIn(cs, p, t) == \E k \in Nat : IsKth(cs, p, t, k)

(* The chunks ds are the chunks cs with texts added at the end.            *)
Grows(cs, ds) ==
    /\ Len(cs) <= Len(ds)
    /\ \A c \in DOMAIN cs :
        /\ Len(cs[c].texts) <= Len(ds[c].texts)
        /\ \A k \in DOMAIN cs[c].texts : ds[c].texts[k] = cs[c].texts[k]

LEMMA IndexerFacts ==
    /\ LenOf \in [Build!Text -> Nat]
    /\ Blank \in Build!Text /\ LenOf[Blank] = 0 /\ Blank \notin NulText
    /\ Finalizer # {}
    /\ line_limit \in Nat /\ chunk_size \in Nat
    /\ \A f \in Inputs : f.lines \in Seq(Build!Text) /\ f.unterminated \in BOOLEAN
BY Assumptions DEF Build!IndexerAssumption

LEMMA BuildSets == \A S : Build!Cardinality(S) = Cardinality(S)
BY DEF Build!Cardinality, Cardinality

LEMMA UpTo ==
    ASSUME NEW n \in Nat
    PROVE  IsFiniteSet(0 .. n) /\ Cardinality(0 .. n) = n + 1
<1>1. 0 \in Int /\ n \in Int /\ ~(0 > n)
      OBVIOUS
<1> QED BY <1>1, FS_Interval

LEMMA BytesFinite ==
    ASSUME NEW texts \in Seq(Build!Text), NEW k \in 1 .. (Len(texts) + 1)
    PROVE  /\ IsFiniteSet(Build!BytesBefore(texts, k))
           /\ Build!Offset(texts, k) = Cardinality(Build!BytesBefore(texts, k))
           /\ Build!Offset(texts, k) \in Nat
<1> DEFINE I == 1 .. (k - 1)
           f == [j \in I |-> {j} \X (0 .. LenOf[texts[j]])]
           T == {{j} \X (0 .. LenOf[texts[j]]) : j \in I}
<1>1. IsFiniteSet(I)
      BY FS_Interval
<1>2. f \in Surjection(I, T)
      BY DEF Surjection
<1>3. IsFiniteSet(T)
      BY <1>1, <1>2, FS_Surjection
<1>4. \A j \in I : IsFiniteSet({j} \X (0 .. LenOf[texts[j]]))
  <2> TAKE j \in I
  <2>1. LenOf[texts[j]] \in Nat
        BY IndexerFacts
  <2>2. IsFiniteSet(0 .. LenOf[texts[j]])
        BY <2>1, UpTo
  <2>3. IsFiniteSet({j})
        BY FS_Singleton
  <2> QED BY <2>2, <2>3, FS_Product
<1>5. \A S \in T : IsFiniteSet(S)
      BY <1>4
<1>6. IsFiniteSet(UNION T)
      BY <1>3, <1>5, FS_UNION
<1>7. Build!BytesBefore(texts, k) = UNION T
      BY DEF Build!BytesBefore
<1>8. IsFiniteSet(Build!BytesBefore(texts, k))
      BY <1>6, <1>7
<1>9. Build!Offset(texts, k) = Cardinality(Build!BytesBefore(texts, k))
      BY BuildSets DEF Build!Offset
<1> HIDE DEF I, f, T
<1> QED BY <1>8, <1>9, FS_CardinalityType

LEMMA OffsetNext ==
    ASSUME NEW texts \in Seq(Build!Text), NEW k \in 1 .. Len(texts)
    PROVE  Build!Offset(texts, k + 1) = Build!Offset(texts, k) + LenOf[texts[k]] + 1
<1> DEFINE A == Build!BytesBefore(texts, k)
           B == {k} \X (0 .. LenOf[texts[k]])
<1>1. LenOf[texts[k]] \in Nat
      BY IndexerFacts
<1>2. IsFiniteSet(B) /\ Cardinality(B) = LenOf[texts[k]] + 1
  <2>1. IsFiniteSet(0 .. LenOf[texts[k]]) /\ Cardinality(0 .. LenOf[texts[k]]) = LenOf[texts[k]] + 1
        BY <1>1, UpTo
  <2>2. IsFiniteSet({k}) /\ Cardinality({k}) = 1
        BY FS_Singleton
  <2>3. IsFiniteSet(B) /\ Cardinality(B) = 1 * (LenOf[texts[k]] + 1)
        BY <2>1, <2>2, FS_Product
  <2> QED BY <2>3, <1>1
<1>3. Build!BytesBefore(texts, k + 1) = A \cup B
  <2>1. 1 .. ((k + 1) - 1) = (1 .. (k - 1)) \cup {k}
        OBVIOUS
  <2> QED BY <2>1 DEF Build!BytesBefore
<1>4. A \cap B = {}
      BY DEF Build!BytesBefore
<1>5. IsFiniteSet(A) /\ Build!Offset(texts, k) = Cardinality(A) /\ Cardinality(A) \in Nat
      BY BytesFinite
<1>6. Build!Offset(texts, k + 1) = Cardinality(A \cup B)
      BY <1>3, BuildSets DEF Build!Offset
<1> HIDE DEF A, B
<1>7. Cardinality(A \cup B) = Cardinality(A) + Cardinality(B) - Cardinality(A \cap B)
      BY <1>2, <1>5, FS_Union
<1>8. Cardinality(A \cap B) = 0
      BY <1>4, FS_EmptySet
<1> QED BY <1>1, <1>2, <1>5, <1>6, <1>7, <1>8

(* The texts of a chunk lie one after the other, with a byte between them. *)
LEMMA OffsetsApart ==
    ASSUME NEW texts \in Seq(Build!Text), NEW j \in 1 .. Len(texts),
           NEW k \in 1 .. (Len(texts) + 1), j < k
    PROVE  Build!Offset(texts, j) + LenOf[texts[j]] + 1 <= Build!Offset(texts, k)
<1>1. Build!BytesBefore(texts, j + 1) \subseteq Build!BytesBefore(texts, k)
  <2>1. 1 .. ((j + 1) - 1) \subseteq 1 .. (k - 1)
        OBVIOUS
  <2> QED BY <2>1 DEF Build!BytesBefore
<1>2. Build!Offset(texts, j + 1) <= Build!Offset(texts, k)
      BY <1>1, BytesFinite, FS_Subset
<1> QED BY <1>2, OffsetNext

(* An offset depends on the texts before it alone.                         *)
LEMMA OffsetOfPrefix ==
    ASSUME NEW texts \in Seq(Build!Text), NEW more \in Seq(Build!Text),
           NEW k \in 1 .. (Len(texts) + 1),
           \A j \in 1 .. (k - 1) : more[j] = texts[j]
    PROVE  Build!Offset(more, k) = Build!Offset(texts, k)
<1>1. Build!BytesBefore(more, k) = Build!BytesBefore(texts, k)
      BY DEF Build!BytesBefore
<1> QED BY <1>1 DEF Build!Offset

LEMMA AtKept ==
    ASSUME NEW cs \in Seq(Chunk), NEW ds \in Seq(Chunk), Grows(cs, ds),
           NEW p, NEW t, AtIn(cs, p, t)
    PROVE  AtIn(ds, p, t)
<1> PICK k \in Nat : IsKth(cs, p, t, k)
    BY DEF AtIn
<1> DEFINE c == p.chunk
<1>1. c \in DOMAIN cs /\ c \in DOMAIN ds /\ k \in DOMAIN cs[c].texts
      BY DEF IsKth, Grows
<1>2. cs[c].texts \in Seq(Build!Text) /\ ds[c].texts \in Seq(Build!Text)
  <2>1. cs[c] \in Chunk /\ ds[c] \in Chunk
        BY <1>1
  <2> QED BY <2>1 DEF Chunk
<1>3. /\ k \in 1 .. Len(cs[c].texts) /\ k \in DOMAIN ds[c].texts
      /\ \A j \in 1 .. k : ds[c].texts[j] = cs[c].texts[j]
      BY <1>1, <1>2 DEF Grows
<1>4. Build!Offset(ds[c].texts, k) = Build!Offset(cs[c].texts, k)
  <2>1. k \in 1 .. (Len(cs[c].texts) + 1)
        BY <1>2, <1>3
  <2>2. \A j \in 1 .. (k - 1) : ds[c].texts[j] = cs[c].texts[j]
        BY <1>3
  <2> HIDE DEF c
  <2> QED BY <1>2, <2>1, <2>2, OffsetOfPrefix
<1>5. IsKth(ds, p, t, k)
      BY <1>1, <1>3, <1>4 DEF IsKth
<1> QED BY <1>5 DEF AtIn

LEMMA PiecesApart ==
    ASSUME NEW cs \in Seq(Chunk), NEW p, NEW t, NEW j, IsKth(cs, p, t, j),
           NEW q, NEW u, NEW k, IsKth(cs, q, u, k), p.chunk = q.chunk
    PROVE  /\ p.off \in Nat /\ p.len \in Nat /\ q.off \in Nat /\ q.len \in Nat
           /\ j \in Nat /\ k \in Nat
           /\ j = k => p = q /\ t = u
           /\ j < k => p.off + p.len + 1 <= q.off
           /\ k < j => q.off + q.len + 1 <= p.off
<1> DEFINE texts == cs[p.chunk].texts
<1>1. texts \in Seq(Build!Text)
  <2>1. cs[p.chunk] \in Chunk
        BY DEF IsKth
  <2> QED BY <2>1 DEF Chunk
<1>2. j \in 1 .. Len(texts) /\ k \in 1 .. Len(texts) /\ t = texts[j] /\ u = texts[k]
      BY <1>1 DEF IsKth
<1>3. /\ p.off = Build!Offset(texts, j) /\ p.len = LenOf[texts[j]]
      /\ q.off = Build!Offset(texts, k) /\ q.len = LenOf[texts[k]]
  <2>1. /\ p = Build!Piece(p.chunk, Build!Offset(texts, j), LenOf[texts[j]])
        /\ q = Build!Piece(p.chunk, Build!Offset(texts, k), LenOf[texts[k]])
        BY DEF IsKth
  <2> QED BY <2>1 DEF Build!Piece
<1>4. LenOf[texts[j]] \in Nat /\ LenOf[texts[k]] \in Nat
  <2>1. texts[j] \in Build!Text /\ texts[k] \in Build!Text
        BY <1>1, <1>2
  <2> QED BY <2>1, IndexerFacts
<1>5. Build!Offset(texts, j) \in Nat /\ Build!Offset(texts, k) \in Nat
      BY <1>1, <1>2, BytesFinite
<1>6. j = k => p = q /\ t = u
      BY <1>2 DEF IsKth
<1>7. j < k => Build!Offset(texts, j) + LenOf[texts[j]] + 1 <= Build!Offset(texts, k)
      BY <1>1, <1>2, OffsetsApart
<1>8. k < j => Build!Offset(texts, k) + LenOf[texts[k]] + 1 <= Build!Offset(texts, j)
      BY <1>1, <1>2, OffsetsApart
<1> HIDE DEF texts
<1> QED BY <1>2, <1>3, <1>4, <1>5, <1>6, <1>7, <1>8

(* A piece that holds a line is never joined to the one before it: the     *)
(* newline is between them.                                                *)
LEMMA ExtendAppends ==
    ASSUME NEW cs \in Seq(Chunk), NEW ps \in Seq(PieceSet), NEW p, NEW t, AtIn(cs, p, t),
           \A n \in DOMAIN ps : \E u : AtIn(cs, ps[n], u)
    PROVE  Build!Extend(ps, p) = Append(ps, p)
<1> SUFFICES ASSUME ps # <<>>, p.len > 0, Build!Last(ps).chunk = p.chunk,
                    Build!Last(ps).off + Build!Last(ps).len = p.off
             PROVE  FALSE
    BY DEF Build!Extend
<1>1. Len(ps) \in DOMAIN ps /\ Build!Last(ps) = ps[Len(ps)]
      BY DEF Build!Last
<1> PICK u : AtIn(cs, ps[Len(ps)], u)
    BY <1>1
<1>2. PICK j \in Nat : IsKth(cs, ps[Len(ps)], u, j)
      BY DEF AtIn
<1>3. PICK k \in Nat : IsKth(cs, p, t, k)
      BY DEF AtIn
<1>4. ps[Len(ps)].chunk = p.chunk
      BY <1>1
<1> DEFINE q == ps[Len(ps)]
<1>5. /\ q.off \in Nat /\ q.len \in Nat /\ p.off \in Nat /\ p.len \in Nat
      /\ j = k => q = p
      /\ j < k => q.off + q.len + 1 <= p.off
      /\ k < j => p.off + p.len + 1 <= q.off
      BY <1>2, <1>3, <1>4, PiecesApart
<1>6. q.off + q.len = p.off /\ p.len > 0
      BY <1>1
<1> HIDE DEF q
<1> QED BY <1>5, <1>6

-----------------------------------------------------------------------------
(* The inductive invariant of the indexer.                                 *)

EmptyFile == [lines |-> <<>>, unterminated |-> FALSE]
Known == Inputs \cup {EmptyFile}
Indexing == build_pc \in {"idle", "line"}

BuildType ==
    /\ build_pc \in {"idle", "line", "join", "final"}
    /\ input \in Known /\ (build_pc = "line" => input \in Inputs)
    /\ at \in Nat \ {0}
    /\ chunks \in Seq(Chunk)
    /\ prev \in 0 .. Len(chunks)
    /\ lines_ \subseteq Entry
    /\ pieces \in Seq(PieceSet)
    /\ indexed \in Seq([input : Known, content : Seq(PieceSet), warned : BOOLEAN])
    /\ queue \in Seq(1 .. Len(chunks))
    /\ closed \in BOOLEAN
    /\ wpc \in [Finalizer -> {"pop", "sort", "exited"}]
    /\ wchunk \in [Finalizer -> Nat]

(***************************************************************************)
(* A chunk that is not sorted is in exactly one place: it is the current   *)
(* one, or in the queue, or with one finalizer.  The queue is in the order *)
(* of the chunks.                                                          *)
(***************************************************************************)
QueueInv ==
    /\ \A k \in DOMAIN queue : chunks[queue[k]].state = "data"
    /\ \A j, k \in DOMAIN queue : j < k => queue[j] < queue[k]
    /\ Indexing => ~closed /\ \A k \in DOMAIN queue : queue[k] < Len(chunks)
    /\ Indexing /\ chunks # <<>> => chunks[Len(chunks)].state = "data"
    /\ \A c \in DOMAIN chunks :
        /\ chunks[c].state = "data" =>
             (\E k \in DOMAIN queue : queue[k] = c) \/ (Indexing /\ c = Len(chunks))
        /\ chunks[c].state = "munged" => \E w \in Finalizer : wpc[w] = "sort" /\ wchunk[w] = c
    /\ \A w \in Finalizer : wpc[w] = "sort" =>
        /\ wchunk[w] \in DOMAIN chunks /\ chunks[wchunk[w]].state = "munged"
        /\ \A v \in Finalizer : wpc[v] = "sort" /\ wchunk[v] = wchunk[w] => v = w
    /\ \A w \in Finalizer : wpc[w] = "exited" => closed /\ queue = <<>>
    /\ build_pc = "final" => chunks = <<>> \/ \A w \in Finalizer : wpc[w] = "exited"

(* No text with a NUL gets into a chunk.                                   *)
NulFree ==
    /\ build_pc = "line" => \A k \in DOMAIN input.lines : input.lines[k] \notin NulText
    /\ \A c \in DOMAIN chunks : \A k \in DOMAIN chunks[c].texts : chunks[c].texts[k] \notin NulText

(* What lines_ remembers lies in the current chunk.                        *)
LookupInv ==
    /\ Indexing => \A e \in lines_ : e.piece.chunk = Len(chunks) /\ AtIn(chunks, e.piece, e.text)
    /\ ~compress => lines_ = {}

(* A last line without a newline has more than one byte (p < end - 1).     *)
NoByteTail == \A f \in Inputs : f.unterminated => LenOf[f.lines[Len(f.lines)]] > 1

(* The first n pieces are the first n lines.                               *)
LinesAt(cs, ps, ls, n) == \A k \in 1 .. n : AtIn(cs, ps[k], Build!Indexable(ls[k]))

PieceInv ==
    /\ build_pc = "line" =>
        /\ Len(pieces) = at - 1 /\ at <= Len(input.lines) + 1
        /\ LinesAt(chunks, pieces, input.lines, at - 1)
    /\ \A i \in DOMAIN indexed : ~indexed[i].warned =>
        /\ Len(indexed[i].content) <= Len(indexed[i].input.lines)
        /\ NoByteTail => Len(indexed[i].content) = Len(indexed[i].input.lines)
        /\ LinesAt(chunks, indexed[i].content, indexed[i].input.lines, Len(indexed[i].content))

BuildInv == BuildType /\ QueueInv /\ NulFree /\ LookupInv /\ PieceInv

-----------------------------------------------------------------------------
LEMMA BuildInitially == Build!Init => BuildInv
<1> SUFFICES ASSUME Build!Init PROVE BuildInv
    OBVIOUS
<1> USE DEF Build!Init
<1>1. BuildType
  <2>1. input \in Known
        BY DEF Known, EmptyFile
  <2>2. /\ chunks \in Seq(Chunk) /\ pieces \in Seq(PieceSet) /\ prev \in 0 .. Len(chunks)
        /\ queue \in Seq(1 .. Len(chunks))
        OBVIOUS
  <2>3. indexed \in Seq([input : Known, content : Seq(PieceSet), warned : BOOLEAN])
        OBVIOUS
  <2>4. wpc \in [Finalizer -> {"pop", "sort", "exited"}] /\ wchunk \in [Finalizer -> Nat]
        OBVIOUS
  <2>5. build_pc = "idle" /\ at = 1 /\ lines_ = {} /\ closed = FALSE
        OBVIOUS
  <2> HIDE DEF Build!Init
  <2>6. closed \in BOOLEAN
        BY <2>5, Zenon
  <2>7. at \in Nat \ {0} /\ lines_ \subseteq Entry
        BY <2>5
  <2> QED BY <2>1, <2>2, <2>3, <2>4, <2>5, <2>6, <2>7 DEF BuildType
<1>2. QueueInv
      BY DEF QueueInv
<1>3. NulFree /\ LookupInv /\ PieceInv
      BY DEF NulFree, LookupInv, PieceInv
<1> QED BY <1>1, <1>2, <1>3 DEF BuildInv

LEMMA StartFileBuild ==
    ASSUME BuildInv, NEW f \in Inputs, Build!StartFile(f)
    PROVE  BuildInv'
<1> USE DEF BuildInv, Build!StartFile
<1>1. f.lines \in Seq(Build!Text)
      BY IndexerFacts
<1>2. BuildType'
      BY DEF BuildType, Known
<1>3. QueueInv'
      BY DEF QueueInv, Indexing
<1>4. NulFree'
      BY <1>1 DEF NulFree, Build!ToSet
<1>5. LookupInv'
      BY DEF LookupInv, Indexing
<1>6. PieceInv'
      BY <1>1 DEF PieceInv, LinesAt
<1> QED BY <1>2, <1>3, <1>4, <1>5, <1>6

(* While lines are read, the number of the next one is that of a line.     *)
LEMMA LineToRead ==
    ASSUME BuildInv, build_pc = "line", Build!HasLine
    PROVE  /\ input.lines \in Seq(Build!Text)
           /\ at \in 1 .. Len(input.lines)
           /\ Build!Indexable(input.lines[at]) \in Build!Text
           /\ Build!Indexable(input.lines[at]) \notin NulText
<1> USE DEF BuildInv
<1>1. input.lines \in Seq(Build!Text)
      BY IndexerFacts DEF BuildType
<1>2. at \in 1 .. Len(input.lines)
      BY <1>1 DEF Build!HasLine, BuildType
<1>3. input.lines[at] \in Build!Text /\ input.lines[at] \notin NulText
      BY <1>1, <1>2 DEF NulFree
<1> QED BY <1>1, <1>2, <1>3, IndexerFacts DEF Build!Indexable

(* A piece that lies in the chunks is added for the line.                  *)
LEMMA LineAdded ==
    ASSUME BuildInv, build_pc = "line", Build!HasLine, chunks' \in Seq(Chunk), Grows(chunks, chunks'),
           NEW p \in PieceSet, AtIn(chunks', p, Build!Indexable(input.lines[at])),
           pieces' = Build!Extend(pieces, p), at' = at + 1,
           build_pc' = build_pc, input' = input, indexed' = indexed
    PROVE  PieceInv' /\ pieces' \in Seq(PieceSet)
<1> USE DEF BuildInv
<1>1. /\ input.lines \in Seq(Build!Text) /\ at \in 1 .. Len(input.lines)
      /\ pieces \in Seq(PieceSet) /\ chunks \in Seq(Chunk)
      BY LineToRead DEF BuildType
<1>2. /\ Len(pieces) = at - 1
      /\ \A k \in 1 .. (at - 1) : AtIn(chunks', pieces[k], Build!Indexable(input.lines[k]))
      BY <1>1, AtKept DEF PieceInv, LinesAt
<1>3. pieces' = Append(pieces, p)
  <2>1. \A n \in DOMAIN pieces : \E u : AtIn(chunks', pieces[n], u)
        BY <1>1, <1>2
  <2> QED BY <1>1, <2>1, ExtendAppends
<1>4. Len(pieces') = at' - 1 /\ at' <= Len(input'.lines) + 1
      BY <1>1, <1>2, <1>3
<1>5. LinesAt(chunks', pieces', input'.lines, at' - 1)
  <2> SUFFICES ASSUME NEW k \in 1 .. (at' - 1)
               PROVE  AtIn(chunks', pieces'[k], Build!Indexable(input'.lines[k]))
      BY DEF LinesAt
  <2>1. CASE k = at
    <3>1. pieces'[k] = p
          BY <2>1, <1>1, <1>2, <1>3
    <3> QED BY <2>1, <3>1
  <2>2. CASE k # at
    <3>1. k \in 1 .. (at - 1) /\ pieces'[k] = pieces[k]
          BY <2>2, <1>1, <1>2, <1>3
    <3> QED BY <3>1, <1>2
  <2> QED BY <2>1, <2>2
<1>6. \A i \in DOMAIN indexed : ~indexed[i].warned =>
        LinesAt(chunks', indexed[i].content, indexed[i].input.lines, Len(indexed[i].content))
      BY <1>1, AtKept DEF PieceInv, LinesAt
<1>7. pieces' \in Seq(PieceSet)
      BY <1>1, <1>3
<1> QED BY <1>4, <1>5, <1>6, <1>7 DEF PieceInv

LEMMA ReuseLineBuild ==
    ASSUME BuildInv, Build!ReuseLine
    PROVE  BuildInv'
<1> USE DEF BuildInv, Build!ReuseLine
<1>1. PICK e \in Build!Remembered(Build!Indexable(input.lines[at])) : pieces' = Build!Extend(pieces, e.piece)
      OBVIOUS
<1>2. /\ e \in lines_ /\ e.text = Build!Indexable(input.lines[at]) /\ e.piece \in PieceSet
      /\ AtIn(chunks, e.piece, e.text)
      BY <1>1 DEF Build!Remembered, LookupInv, Indexing, BuildType, Entry
<1>3. chunks \in Seq(Chunk) /\ Grows(chunks, chunks) /\ chunks' = chunks
      BY DEF BuildType, Grows, Chunk
<1>4. PieceInv' /\ pieces' \in Seq(PieceSet)
      BY <1>1, <1>2, <1>3, LineAdded
<1>5. BuildType'
      BY <1>4 DEF BuildType
<1>6. QueueInv'
      BY DEF QueueInv, Indexing
<1>7. NulFree' /\ LookupInv'
      BY DEF NulFree, LookupInv, Indexing
<1> QED BY <1>4, <1>5, <1>6, <1>7

(***************************************************************************)
(* A line copied to the end of the current chunk or to a new chunk.        *)
(***************************************************************************)
Room(t) == Build!NeedsChunk(LenOf[t] + 1)
Place(t) == IF Room(t) THEN Len(chunks) + 1 ELSE Len(chunks)
NewPiece(t) == Build!Piece(Place(t), IF Room(t) THEN 0 ELSE Build!Size(Build!Last(chunks).texts), LenOf[t])

LEMMA StoredInNew ==
    ASSUME BuildType, NEW t \in Build!Text, Room(t),
           chunks' = Append(chunks, [texts |-> <<t>>, state |-> "data"])
    PROVE  /\ chunks' \in Seq(Chunk) /\ Grows(chunks, chunks')
           /\ AtIn(chunks', NewPiece(t), t)
<1> DEFINE c == Len(chunks) + 1
<1>1. [texts |-> <<t>>, state |-> "data"] \in Chunk
      BY DEF Chunk
<1>2. chunks \in Seq(Chunk)
      BY DEF BuildType
<1>3. /\ chunks' \in Seq(Chunk) /\ Len(chunks') = c /\ chunks'[c] = [texts |-> <<t>>, state |-> "data"]
      /\ \A d \in DOMAIN chunks : chunks'[d] = chunks[d]
      BY <1>1, <1>2
<1>4. Grows(chunks, chunks')
  <2>1. \A d \in DOMAIN chunks : chunks[d] \in Chunk
        BY <1>2
  <2>2. \A d \in DOMAIN chunks : Len(chunks[d].texts) \in Nat
        BY <2>1 DEF Chunk
  <2> QED BY <1>2, <1>3, <2>2 DEF Grows
<1>5. Build!Offset(<<t>>, 1) = 0
  <2>1. Build!BytesBefore(<<t>>, 1) = {}
        BY DEF Build!BytesBefore
  <2> QED BY <2>1, BuildSets, FS_EmptySet DEF Build!Offset
<1>6. NewPiece(t) = Build!Piece(c, 0, LenOf[t])
      BY DEF NewPiece, Place
<1>7. IsKth(chunks', Build!Piece(c, 0, LenOf[t]), t, 1)
  <2>1. Build!Piece(c, 0, LenOf[t]).chunk = c
        BY DEF Build!Piece
  <2>2. c \in DOMAIN chunks' /\ chunks'[c].texts = <<t>>
        BY <1>2, <1>3
  <2>3. 1 \in DOMAIN <<t>> /\ <<t>>[1] = t
        OBVIOUS
  <2> HIDE DEF c
  <2> QED BY <2>1, <2>2, <2>3, <1>5 DEF IsKth
<1> QED BY <1>3, <1>4, <1>6, <1>7 DEF AtIn

LEMMA StoredInCurrent ==
    ASSUME BuildType, NEW t \in Build!Text, ~Room(t),
           chunks' = [chunks EXCEPT ![Len(chunks)].texts = Append(@, t)]
    PROVE  /\ Len(chunks) \in DOMAIN chunks
           /\ chunks' \in Seq(Chunk) /\ Grows(chunks, chunks') /\ Len(chunks') = Len(chunks)
           /\ \A d \in DOMAIN chunks : chunks'[d].state = chunks[d].state
           /\ \A d \in DOMAIN chunks : d # Len(chunks) => chunks'[d] = chunks[d]
           /\ chunks'[Len(chunks)].texts = Append(chunks[Len(chunks)].texts, t)
           /\ AtIn(chunks', NewPiece(t), t)
<1> DEFINE c == Len(chunks)
           texts == chunks[c].texts
           new == [chunks[c] EXCEPT !.texts = Append(texts, t)]
<1>1. chunks \in Seq(Chunk) /\ chunks # <<>> /\ c \in DOMAIN chunks
      BY DEF BuildType, Room, Build!NeedsChunk
<1>2. chunks[c] \in Chunk
      BY <1>1
<1>3. texts \in Seq(Build!Text) /\ Append(texts, t) \in Seq(Build!Text)
      BY <1>2 DEF Chunk
<1>4. new \in Chunk /\ new.texts = Append(texts, t) /\ new.state = chunks[c].state
      BY <1>2, <1>3 DEF Chunk
<1>5. chunks' = [chunks EXCEPT ![c] = new]
      BY <1>1
<1>6. /\ chunks' \in Seq(Chunk) /\ Len(chunks') = c /\ chunks'[c] = new
      /\ \A d \in DOMAIN chunks : d # c => chunks'[d] = chunks[d]
  <2> HIDE DEF new
  <2>1. chunks \in [1 .. c -> Chunk] /\ c \in 1 .. c /\ c \in Nat
        BY <1>1
  <2>2. chunks' \in [1 .. c -> Chunk]
        BY <1>4, <1>5, <2>1
  <2>3. chunks' \in Seq(Chunk) /\ Len(chunks') = c
        BY <2>1, <2>2
  <2> QED BY <1>1, <1>5, <2>1, <2>3
<1>7. Grows(chunks, chunks')
  <2>1. \A d \in DOMAIN chunks : chunks[d] \in Chunk
        BY <1>1
  <2>2. \A d \in DOMAIN chunks : Len(chunks[d].texts) \in Nat
        BY <2>1 DEF Chunk
  <2>3. Len(texts) <= Len(Append(texts, t)) /\ \A k \in DOMAIN texts : Append(texts, t)[k] = texts[k]
        BY <1>3
  <2>4. ASSUME NEW d \in DOMAIN chunks
        PROVE  /\ Len(chunks[d].texts) <= Len(chunks'[d].texts)
               /\ \A k \in DOMAIN chunks[d].texts : chunks'[d].texts[k] = chunks[d].texts[k]
    <3>1. CASE d = c
          BY <3>1, <2>3, <1>4, <1>6
    <3>2. CASE d # c
          BY <3>2, <2>2, <1>6
    <3> QED BY <3>1, <3>2
  <2>5. Len(chunks) <= Len(chunks')
        BY <1>1, <1>6
  <2> QED BY <2>4, <2>5 DEF Grows
<1>8. AtIn(chunks', NewPiece(t), t)
  <2> DEFINE k == Len(texts) + 1
             start == Build!Offset(texts, k)
  <2>1. Build!Offset(Append(texts, t), k) = start
    <3>1. k \in 1 .. (Len(texts) + 1) /\ \A j \in 1 .. (k - 1) : Append(texts, t)[j] = texts[j]
          BY <1>3
    <3> HIDE DEF k, texts
    <3> QED BY <1>3, <3>1, OffsetOfPrefix
  <2>2. NewPiece(t) = Build!Piece(c, start, LenOf[t])
    <3>1. Build!Last(chunks) = chunks[c]
          BY DEF Build!Last
    <3> QED BY <3>1 DEF NewPiece, Place, Build!Size
  <2>3. NewPiece(t).chunk = c
        BY <2>2 DEF Build!Piece
  <2>4. k \in DOMAIN Append(texts, t) /\ Append(texts, t)[k] = t /\ k \in Nat
        BY <1>3
  <2>5. chunks'[c].texts = Append(texts, t) /\ c \in DOMAIN chunks'
        BY <1>1, <1>4, <1>6
  <2> HIDE DEF k, c, texts, start, new
  <2>6. IsKth(chunks', NewPiece(t), t, k)
        BY <2>1, <2>2, <2>3, <2>4, <2>5 DEF IsKth, start
  <2> QED BY <2>4, <2>6 DEF AtIn
<1>9. \A d \in DOMAIN chunks : chunks'[d].state = chunks[d].state
      BY <1>4, <1>6
<1> QED BY <1>1, <1>4, <1>6, <1>7, <1>8, <1>9

LEMMA StoreLineBuild ==
    ASSUME BuildInv, Build!StoreLine
    PROVE  BuildInv'
<1> USE DEF BuildInv
<1> DEFINE t == Build!Indexable(input.lines[at])
           p == NewPiece(t)
           c == Place(t)
<1>1. /\ build_pc = "line" /\ Build!HasLine
      /\ chunks' = IF Room(t) THEN Append(chunks, [texts |-> <<t>>, state |-> "data"])
                   ELSE [chunks EXCEPT ![c].texts = Append(@, t)]
      /\ queue' = IF Room(t) THEN Build!FinishChunk ELSE queue
      /\ lines_' = IF compress THEN Build!Kept(c) \cup {[text |-> t, piece |-> p]} ELSE lines_
      /\ prev' = c /\ pieces' = Build!Extend(pieces, p) /\ at' = at + 1
      /\ UNCHANGED <<build_pc, input, indexed, closed, wpc, wchunk>>
      BY DEF Build!StoreLine, NewPiece, Place, Room
<1>2. t \in Build!Text /\ t \notin NulText
      BY <1>1, LineToRead
<1> HIDE DEF t
<1>3. chunks \in Seq(Chunk) /\ Len(chunks) \in Nat /\ at \in Nat \ {0} /\ prev \in 0 .. Len(chunks)
      BY DEF BuildType
<1>4. /\ chunks' \in Seq(Chunk) /\ Grows(chunks, chunks') /\ AtIn(chunks', p, t)
      /\ Len(chunks') = c /\ c \in DOMAIN chunks'
  <2>1. CASE Room(t)
        BY <1>1, <1>2, <1>3, <2>1, StoredInNew DEF Place
  <2>2. CASE ~Room(t)
        BY <1>1, <1>2, <1>3, <2>2, StoredInCurrent DEF Place
  <2> QED BY <2>1, <2>2
<1>5. p \in PieceSet /\ p.chunk = c
  <2>1. p.chunk = c
        BY DEF NewPiece, Build!Piece
  <2>2. PICK k \in Nat : IsKth(chunks', p, t, k)
        BY <1>4 DEF AtIn
  <2>3. p.off \in Nat /\ p.len \in Nat
        BY <2>2, <1>4, PiecesApart
  <2>4. c \in Nat
        BY <1>4
  <2>5. p = [chunk |-> p.chunk, off |-> p.off, len |-> p.len]
        BY DEF NewPiece, Build!Piece
  <2> HIDE DEF p, c
  <2> QED BY <2>1, <2>3, <2>4, <2>5 DEF PieceSet
<1> HIDE DEF p
<1>6. PieceInv' /\ pieces' \in Seq(PieceSet)
  <2>1. AtIn(chunks', p, Build!Indexable(input.lines[at]))
        BY <1>4 DEF t
  <2> QED BY <1>1, <1>4, <1>5, <2>1, LineAdded
<1>7. LookupInv' /\ lines_' \subseteq Entry
  <2>1. [text |-> t, piece |-> p] \in Entry
        BY <1>2, <1>5 DEF Entry
  <2>2. \A e \in Build!Kept(c) : e \in lines_ /\ e.piece.chunk = c /\ AtIn(chunks', e.piece, e.text)
    <3> TAKE e \in Build!Kept(c)
    <3>1. e \in lines_ /\ c = prev
          BY DEF Build!Kept
    <3>2. e.piece.chunk = Len(chunks) /\ AtIn(chunks, e.piece, e.text)
          BY <1>1, <3>1 DEF LookupInv, Indexing
    <3>3. c = Len(chunks)
          BY <1>3, <3>1 DEF Place
    <3> QED BY <1>3, <1>4, <3>1, <3>2, <3>3, AtKept
  <2>3. CASE compress
    <3> HIDE DEF c
    <3>1. lines_' = Build!Kept(c) \cup {[text |-> t, piece |-> p]}
          BY <1>1, <2>3
    <3>2. \A e \in lines_' : e.piece.chunk = c /\ AtIn(chunks', e.piece, e.text)
          BY <3>1, <2>2, <1>4, <1>5
    <3>3. lines_' \subseteq Entry
          BY <3>1, <2>1, <2>2 DEF BuildType
    <3> QED BY <2>3, <3>2, <3>3, <1>4 DEF LookupInv
  <2>4. CASE ~compress
        BY <1>1, <2>4 DEF LookupInv
  <2> QED BY <2>3, <2>4
<1>8. NulFree'
  <2> SUFFICES ASSUME NEW d \in DOMAIN chunks', NEW k \in DOMAIN chunks'[d].texts
               PROVE  chunks'[d].texts[k] \notin NulText
      BY <1>1 DEF NulFree
  <2>1. CASE Room(t)
    <3>1. CASE d \in DOMAIN chunks
          BY <1>1, <1>3, <2>1, <3>1 DEF NulFree
    <3>2. CASE d \notin DOMAIN chunks
      <4>1. chunks'[d] = [texts |-> <<t>>, state |-> "data"]
            BY <1>1, <1>3, <2>1, <3>2
      <4> QED BY <4>1, <1>2
    <3> QED BY <3>1, <3>2
  <2>2. CASE ~Room(t)
    <3>1. /\ chunks' = [chunks EXCEPT ![Len(chunks)].texts = Append(@, t)]
          /\ c = Len(chunks)
          BY <1>1, <2>2 DEF Place
    <3>2. /\ Len(chunks) \in DOMAIN chunks /\ d \in DOMAIN chunks
          /\ d # Len(chunks) => chunks'[d] = chunks[d]
          /\ chunks'[Len(chunks)].texts = Append(chunks[Len(chunks)].texts, t)
          BY <1>2, <1>3, <1>4, <2>2, <3>1, StoredInCurrent
    <3>3. CASE d # Len(chunks)
          BY <3>2, <3>3 DEF NulFree
    <3>4. CASE d = Len(chunks)
      <4>1. chunks[d] \in Chunk
            BY <1>3, <3>2
      <4>2. chunks[d].texts \in Seq(Build!Text)
            BY <4>1 DEF Chunk
      <4>3. chunks'[d].texts = Append(chunks[d].texts, t)
            BY <3>2, <3>4
      <4>4. chunks'[d].texts[k] = t \/ (k \in DOMAIN chunks[d].texts /\ chunks'[d].texts[k] = chunks[d].texts[k])
            BY <1>2, <4>2, <4>3
      <4> QED BY <1>2, <3>2, <4>4 DEF NulFree
    <3> QED BY <3>3, <3>4
  <2> QED BY <2>1, <2>2
<1>9. QueueInv' /\ queue' \in Seq(1 .. Len(chunks'))
  <2>1. CASE Room(t)
    <3>1. /\ c = Len(chunks) + 1 /\ chunks' = Append(chunks, [texts |-> <<t>>, state |-> "data"])
          /\ queue' = Build!FinishChunk
          BY <1>1, <2>1 DEF Place
    <3>2. /\ Len(chunks') = Len(chunks) + 1 /\ chunks'[Len(chunks')].state = "data"
          /\ \A d \in DOMAIN chunks : d \in DOMAIN chunks' /\ chunks'[d] = chunks[d] /\ d < Len(chunks')
          /\ \A d \in DOMAIN chunks' : d \in DOMAIN chunks \/ d = Len(chunks')
          BY <1>3, <3>1
    <3>3. queue \in Seq(1 .. Len(chunks)) /\ Indexing /\ Indexing'
          BY <1>1 DEF BuildType, Indexing
    <3>4. CASE chunks = <<>>
      <4>1. queue' = queue /\ queue = <<>>
        <5>1. queue' = queue
              BY <3>1, <3>4 DEF Build!FinishChunk
        <5>2. DOMAIN queue = {}
              BY <3>3, <3>4
        <5> QED BY <3>3, <5>1, <5>2
      <4>2. queue' \in Seq(1 .. Len(chunks')) /\ DOMAIN queue' = {}
            BY <4>1
      <4>3. \A w \in Finalizer : wpc'[w] # "exited" /\ wpc'[w] # "sort"
        <5>1. DOMAIN chunks = {}
              BY <3>4
        <5> QED BY <1>1, <3>3, <5>1 DEF QueueInv
      <4>4. \A d \in DOMAIN chunks' : d = Len(chunks') /\ chunks'[d].state = "data"
            BY <3>2, <3>4
      <4>5. ~closed' /\ build_pc' # "final"
            BY <1>1, <3>3 DEF QueueInv
      <4> QED BY <3>2, <3>3, <4>2, <4>3, <4>4, <4>5 DEF QueueInv
    <3>5. CASE chunks # <<>>
      <4>1. queue' = Append(queue, Len(chunks)) /\ Len(chunks) \in DOMAIN chunks
            BY <1>3, <3>1, <3>5 DEF Build!FinishChunk
      <4>2. /\ queue' \in Seq(1 .. Len(chunks'))
            /\ \A k \in DOMAIN queue : k \in DOMAIN queue' /\ queue'[k] = queue[k] /\ k < Len(queue')
            /\ Len(queue') \in DOMAIN queue' /\ queue'[Len(queue')] = Len(chunks)
            /\ \A k \in DOMAIN queue' : k \in DOMAIN queue \/ k = Len(queue')
            /\ \A k \in DOMAIN queue : queue[k] \in DOMAIN chunks
            BY <3>2, <3>3, <4>1
      <4>3. \A k \in DOMAIN queue' : chunks'[queue'[k]].state = "data" /\ queue'[k] < Len(chunks')
            BY <3>2, <3>3, <3>5, <4>1, <4>2 DEF QueueInv
      <4>4. \A j, k \in DOMAIN queue' : j < k => queue'[j] < queue'[k]
            BY <3>3, <3>2, <4>2 DEF QueueInv
      <4>5. \A d \in DOMAIN chunks' :
              /\ chunks'[d].state = "data" => (\E k \in DOMAIN queue' : queue'[k] = d) \/ d = Len(chunks')
              /\ chunks'[d].state = "munged" => \E w \in Finalizer : wpc'[w] = "sort" /\ wchunk'[w] = d
            BY <1>1, <3>2, <3>3, <4>2 DEF QueueInv
      <4>6. \A w \in Finalizer : wpc[w] # "exited"
            BY <3>3 DEF QueueInv
      <4>7. \A w \in Finalizer : wpc'[w] = "sort" =>
              /\ wchunk'[w] \in DOMAIN chunks' /\ chunks'[wchunk'[w]].state = "munged"
              /\ \A v \in Finalizer : wpc'[v] = "sort" /\ wchunk'[v] = wchunk'[w] => v = w
            BY <1>1, <3>2 DEF QueueInv
      <4>8. ~closed' /\ build_pc' # "final"
            BY <1>1, <3>3 DEF QueueInv
      <4> QED BY <1>1, <3>2, <3>3, <4>2, <4>3, <4>4, <4>5, <4>6, <4>7, <4>8 DEF QueueInv
    <3> QED BY <3>4, <3>5
  <2>2. CASE ~Room(t)
    <3>1. /\ chunks' = [chunks EXCEPT ![Len(chunks)].texts = Append(@, t)]
          /\ queue' = queue
          BY <1>1, <2>2 DEF Place
    <3>2. /\ Len(chunks') = Len(chunks) /\ DOMAIN chunks' = DOMAIN chunks
          /\ \A d \in DOMAIN chunks : chunks'[d].state = chunks[d].state
          BY <1>2, <1>3, <1>4, <2>2, <3>1, StoredInCurrent
    <3>3. queue' \in Seq(1 .. Len(chunks')) /\ \A k \in DOMAIN queue : queue[k] \in DOMAIN chunks
          BY <1>3, <3>1, <3>2 DEF BuildType
    <3>4. Len(chunks) \in DOMAIN chunks
          BY <1>2, <1>3, <1>4, <2>2, <3>1, StoredInCurrent
    <3> QED BY <1>1, <3>1, <3>2, <3>3, <3>4 DEF QueueInv, Indexing
  <2> QED BY <2>1, <2>2
<1>10. BuildType'
  <2>1. at' \in Nat \ {0} /\ prev' \in 0 .. Len(chunks')
        BY <1>1, <1>3, <1>4
  <2> QED BY <1>1, <1>4, <1>6, <1>7, <1>9, <2>1 DEF BuildType
<1> QED BY <1>6, <1>7, <1>8, <1>9, <1>10

LEMMA FinishFileBuild ==
    ASSUME BuildInv, Build!FinishFile
    PROVE  BuildInv'
<1> USE DEF BuildInv
<1> DEFINE warned == Len(pieces) > MaxPieces
           content == IF warned THEN <<>> ELSE pieces
           rec == [input |-> input, content |-> content, warned |-> warned]
<1>1. /\ build_pc = "line" /\ ~Build!HasLine /\ indexed' = Append(indexed, rec) /\ build_pc' = "idle"
      /\ UNCHANGED <<input, at, prev, lines_, pieces, chunks, queue, closed, wpc, wchunk>>
      BY DEF Build!FinishFile, Build!index_vars
<1>2. /\ input \in Inputs /\ input.lines \in Seq(Build!Text) /\ input.unterminated \in BOOLEAN
      /\ pieces \in Seq(PieceSet) /\ at \in Nat \ {0}
      BY <1>1, IndexerFacts DEF BuildType
<1>3. /\ Len(pieces) = at - 1 /\ at <= Len(input.lines) + 1
      /\ LinesAt(chunks, pieces, input.lines, at - 1)
      BY <1>1 DEF PieceInv
<1>4. warned \in BOOLEAN /\ content \in Seq(PieceSet)
      BY <1>2
<1>5. rec \in [input : Known, content : Seq(PieceSet), warned : BOOLEAN]
      BY <1>2, <1>4 DEF Known
<1>6. rec.warned = warned /\ rec.content = content /\ rec.input = input
      OBVIOUS
<1>7. ~rec.warned =>
        /\ Len(rec.content) <= Len(rec.input.lines)
        /\ NoByteTail => Len(rec.content) = Len(rec.input.lines)
        /\ LinesAt(chunks, rec.content, rec.input.lines, Len(rec.content))
  <2> SUFFICES ASSUME ~warned
               PROVE  /\ at - 1 <= Len(input.lines)
                      /\ NoByteTail => at - 1 = Len(input.lines)
                      /\ LinesAt(chunks, pieces, input.lines, at - 1)
      BY <1>3
  <2>1. at - 1 <= Len(input.lines)
        BY <1>2, <1>3
  <2>2. ASSUME NoByteTail PROVE at - 1 = Len(input.lines)
    <3> SUFFICES ASSUME at = Len(input.lines) PROVE FALSE
        BY <1>1, <1>2, <1>3 DEF Build!HasLine
    <3>1. input.unterminated /\ ~(LenOf[input.lines[at]] > 1)
          BY <1>1, <1>2 DEF Build!HasLine
    <3> QED BY <1>2, <2>2, <3>1 DEF NoByteTail
  <2> QED BY <1>3, <2>1, <2>2
<1> HIDE DEF rec, content, warned
<1>8. indexed \in Seq([input : Known, content : Seq(PieceSet), warned : BOOLEAN])
      BY DEF BuildType
<1>9. /\ indexed' \in Seq([input : Known, content : Seq(PieceSet), warned : BOOLEAN])
      /\ \A i \in DOMAIN indexed' : (i \in DOMAIN indexed /\ indexed'[i] = indexed[i]) \/ indexed'[i] = rec
      BY <1>1, <1>5, <1>8
<1>10. BuildType'
       BY <1>1, <1>9 DEF BuildType
<1>11. PieceInv'
       BY <1>1, <1>7, <1>9 DEF PieceInv
<1>12. QueueInv'
       BY <1>1 DEF QueueInv, Indexing
<1>13. NulFree' /\ LookupInv'
       BY <1>1 DEF NulFree, LookupInv, Indexing
<1> QED BY <1>10, <1>11, <1>12, <1>13

LEMMA FinalizeBuild ==
    ASSUME BuildInv, Build!Finalize
    PROVE  BuildInv'
<1> USE DEF BuildInv
<1>1. /\ build_pc = "idle" /\ UNCHANGED <<input, at, prev, lines_, pieces, indexed, chunks, wpc, wchunk>>
      /\ build_pc' \in {"join", "final"}
      BY DEF Build!Finalize, Build!index_vars
<1>2. NulFree' /\ LookupInv' /\ PieceInv'
      BY <1>1 DEF NulFree, LookupInv, PieceInv, Indexing
<1>3. chunks \in Seq(Chunk) /\ queue \in Seq(1 .. Len(chunks)) /\ Indexing /\ ~Indexing'
      BY <1>1 DEF BuildType, Indexing
<1>4. CASE chunks = <<>>
  <2>1. build_pc' = "final" /\ UNCHANGED <<queue, closed>>
        BY <1>4 DEF Build!Finalize
  <2>2. BuildType'
        BY <1>1, <2>1 DEF BuildType
  <2>3. QueueInv'
    <3>1. DOMAIN chunks = {}
          BY <1>4
    <3> QED BY <1>1, <1>3, <1>4, <2>1, <3>1 DEF QueueInv
  <2> QED BY <1>2, <2>2, <2>3
<1>5. CASE chunks # <<>>
  <2>1. queue' = Append(queue, Len(chunks)) /\ closed' = TRUE /\ build_pc' = "join" /\ Len(chunks) \in DOMAIN chunks
        BY <1>3, <1>5 DEF Build!Finalize, Build!FinishChunk
  <2>2. /\ queue' \in Seq(1 .. Len(chunks'))
        /\ \A k \in DOMAIN queue : k \in DOMAIN queue' /\ queue'[k] = queue[k] /\ k < Len(queue')
        /\ Len(queue') \in DOMAIN queue' /\ queue'[Len(queue')] = Len(chunks)
        /\ \A k \in DOMAIN queue' : k \in DOMAIN queue \/ k = Len(queue')
        BY <1>1, <1>3, <2>1
  <2>3. BuildType'
    <3>1. closed' \in BOOLEAN
          BY <2>1, Zenon
    <3> QED BY <1>1, <2>1, <2>2, <3>1 DEF BuildType
  <2>4. \A k \in DOMAIN queue' : chunks'[queue'[k]].state = "data"
        BY <1>1, <1>3, <1>5, <2>2 DEF QueueInv
  <2>5. \A j, k \in DOMAIN queue' : j < k => queue'[j] < queue'[k]
        BY <1>3, <2>2 DEF QueueInv
  <2>6. \A d \in DOMAIN chunks' :
          /\ chunks'[d].state = "data" => \E k \in DOMAIN queue' : queue'[k] = d
          /\ chunks'[d].state = "munged" => \E w \in Finalizer : wpc'[w] = "sort" /\ wchunk'[w] = d
        BY <1>1, <1>3, <2>2 DEF QueueInv
  <2>7. \A w \in Finalizer : wpc'[w] # "exited"
        BY <1>1, <1>3 DEF QueueInv
  <2>8. \A w \in Finalizer : wpc'[w] = "sort" =>
          /\ wchunk'[w] \in DOMAIN chunks' /\ chunks'[wchunk'[w]].state = "munged"
          /\ \A v \in Finalizer : wpc'[v] = "sort" /\ wchunk'[v] = wchunk'[w] => v = w
        BY <1>1 DEF QueueInv
  <2>9. QueueInv'
        BY <1>3, <2>1, <2>4, <2>5, <2>6, <2>7, <2>8 DEF QueueInv
  <2> QED BY <1>2, <2>3, <2>9
<1> QED BY <1>4, <1>5

LEMMA JoinedBuild ==
    ASSUME BuildInv, Build!Joined
    PROVE  BuildInv'
<1> USE DEF BuildInv, Build!Joined, Build!index_vars
<1>1. BuildType'
      BY DEF BuildType
<1>2. QueueInv'
      BY DEF QueueInv, Indexing
<1>3. NulFree' /\ LookupInv' /\ PieceInv'
      BY DEF NulFree, LookupInv, PieceInv, Indexing
<1> QED BY <1>1, <1>2, <1>3

(* The finalizers leave the texts as they are.                             *)
LEMMA TextsKept ==
    ASSUME BuildInv, chunks' \in Seq(Chunk), Len(chunks') = Len(chunks),
           \A d \in DOMAIN chunks : chunks'[d].texts = chunks[d].texts,
           UNCHANGED <<build_pc, Build!index_vars, indexed>>
    PROVE  NulFree' /\ LookupInv' /\ PieceInv'
<1> USE DEF BuildInv, Build!index_vars
<1>1. chunks \in Seq(Chunk)
      BY DEF BuildType
<1>2. DOMAIN chunks' = DOMAIN chunks
      BY <1>1
<1>3. Grows(chunks, chunks')
  <2>1. \A d \in DOMAIN chunks : chunks[d] \in Chunk
        BY <1>1
  <2>2. \A d \in DOMAIN chunks : Len(chunks[d].texts) \in Nat
        BY <2>1 DEF Chunk
  <2>3. Len(chunks) \in Nat
        BY <1>1
  <2> QED BY <2>2, <2>3 DEF Grows
<1>4. \A p, t : AtIn(chunks, p, t) => AtIn(chunks', p, t)
      BY <1>1, <1>3, AtKept
<1>5. NulFree'
      BY <1>2 DEF NulFree
<1>6. LookupInv'
      BY <1>4 DEF LookupInv, Indexing
<1>7. PieceInv'
      BY <1>4 DEF PieceInv, LinesAt
<1> QED BY <1>5, <1>6, <1>7

LEMMA MungeBuild ==
    ASSUME BuildInv, NEW w \in Finalizer, Build!Munge(w)
    PROVE  BuildInv'
<1> USE DEF BuildInv
<1> DEFINE h == queue[1]
           new == [chunks[h] EXCEPT !.state = "munged"]
<1>1. chunks \in Seq(Chunk) /\ queue \in Seq(1 .. Len(chunks)) /\ queue # <<>> /\ h \in DOMAIN chunks
      BY DEF BuildType, Build!Munge
<1>2. /\ wpc[w] = "pop" /\ queue' = Tail(queue) /\ wchunk' = [wchunk EXCEPT ![w] = h]
      /\ chunks' = [chunks EXCEPT ![h] = new] /\ wpc' = [wpc EXCEPT ![w] = "sort"]
      /\ UNCHANGED <<build_pc, Build!index_vars, indexed, closed>>
      BY <1>1 DEF Build!Munge
<1>3. new \in Chunk /\ new.texts = chunks[h].texts /\ new.state = "munged"
  <2>1. chunks[h] \in Chunk
        BY <1>1
  <2> QED BY <2>1 DEF Chunk
<1> HIDE DEF new
<1>4. /\ chunks' \in Seq(Chunk) /\ Len(chunks') = Len(chunks) /\ DOMAIN chunks' = DOMAIN chunks
      /\ chunks'[h] = new /\ \A d \in DOMAIN chunks : d # h => chunks'[d] = chunks[d]
  <2>1. chunks' \in [1 .. Len(chunks) -> Chunk]
        BY <1>1, <1>2, <1>3
  <2> QED BY <1>1, <1>2, <2>1
<1>5. NulFree' /\ LookupInv' /\ PieceInv'
      BY <1>2, <1>3, <1>4, TextsKept
<1>6. /\ queue' \in Seq(1 .. Len(chunks'))
      /\ \A k \in DOMAIN queue' : k + 1 \in DOMAIN queue /\ queue'[k] = queue[k + 1] /\ k \in Nat
      /\ \A k \in DOMAIN queue : k = 1 \/ (k - 1 \in DOMAIN queue' /\ queue'[k - 1] = queue[k])
      /\ 1 \in DOMAIN queue
  <2> DEFINE S == 1 .. Len(chunks)
  <2>1. queue \in Seq(S) /\ queue # <<>> /\ queue' = Tail(queue) /\ 1 .. Len(chunks') = S
        BY <1>1, <1>2, <1>4
  <2> HIDE DEF S
  <2>2. /\ Tail(queue) \in Seq(S) /\ Len(queue) \in Nat \ {0} /\ Len(Tail(queue)) = Len(queue) - 1
        /\ \A k \in 1 .. (Len(queue) - 1) : Tail(queue)[k] = queue[k + 1]
        BY <2>1
  <2>3. DOMAIN queue = 1 .. Len(queue) /\ DOMAIN queue' = 1 .. (Len(queue) - 1)
        BY <2>1, <2>2
  <2>4. \A k \in DOMAIN queue' : k + 1 \in DOMAIN queue /\ queue'[k] = queue[k + 1] /\ k \in Nat
        BY <2>1, <2>2, <2>3
  <2>5. ASSUME NEW k \in DOMAIN queue, k # 1
        PROVE  k - 1 \in DOMAIN queue' /\ queue'[k - 1] = queue[k]
    <3>1. k - 1 \in 1 .. (Len(queue) - 1) /\ (k - 1) + 1 = k
          BY <2>2, <2>3, <2>5
    <3>2. Tail(queue)[k - 1] = queue[(k - 1) + 1]
          BY <2>2, <3>1
    <3> QED BY <2>1, <2>3, <3>1, <3>2
  <2>6. 1 \in DOMAIN queue
        BY <2>2, <2>3
  <2> QED BY <2>1, <2>2, <2>4, <2>5, <2>6
<1>7. /\ wpc \in [Finalizer -> {"pop", "sort", "exited"}] /\ wchunk \in [Finalizer -> Nat] /\ h \in Nat
      BY <1>1 DEF BuildType
<1>8. BuildType'
  <2>1. wpc' \in [Finalizer -> {"pop", "sort", "exited"}] /\ wchunk' \in [Finalizer -> Nat]
        BY <1>2, <1>7
  <2> QED BY <1>2, <1>4, <1>6, <2>1 DEF BuildType, Build!index_vars
<1>9. QueueInv'
  <2>1. ASSUME NEW k \in DOMAIN queue'
        PROVE  queue'[k] \in DOMAIN chunks /\ queue'[k] # h
    <3>1. k + 1 \in DOMAIN queue /\ 1 \in DOMAIN queue /\ 1 < k + 1 /\ queue'[k] = queue[k + 1]
          BY <1>1, <1>6
    <3>2. queue[1] < queue[k + 1]
          BY <3>1 DEF QueueInv
    <3>3. queue[1] \in Nat /\ queue[k + 1] \in DOMAIN chunks /\ queue[k + 1] \in Nat
          BY <1>1, <3>1
    <3> QED BY <3>1, <3>2, <3>3
  <2>2. chunks[h].state = "data"
        BY <1>6 DEF QueueInv
  <2>3. \A k \in DOMAIN queue' : chunks'[queue'[k]].state = "data"
        BY <1>4, <1>6, <2>1 DEF QueueInv
  <2>4. \A j, k \in DOMAIN queue' : j < k => queue'[j] < queue'[k]
        BY <1>6 DEF QueueInv
  <2>5. /\ Indexing' => ~closed' /\ \A k \in DOMAIN queue' : queue'[k] < Len(chunks')
        /\ Indexing' /\ chunks' # <<>> => chunks'[Len(chunks')].state = "data"
    <3> SUFFICES ASSUME Indexing'
                 PROVE  /\ ~closed' /\ \A k \in DOMAIN queue' : queue'[k] < Len(chunks')
                        /\ chunks' # <<>> => chunks'[Len(chunks')].state = "data"
        OBVIOUS
    <3>1. Indexing
          BY <1>2 DEF Indexing
    <3>2. h < Len(chunks)
          BY <1>6, <3>1 DEF QueueInv
    <3>3. chunks # <<>> /\ Len(chunks) \in DOMAIN chunks /\ h # Len(chunks)
          BY <1>1, <3>2
    <3> QED BY <1>2, <1>4, <1>6, <3>1, <3>2, <3>3 DEF QueueInv
  <2>6. ASSUME NEW d \in DOMAIN chunks', chunks'[d].state = "data"
        PROVE  (\E k \in DOMAIN queue' : queue'[k] = d) \/ (Indexing' /\ d = Len(chunks'))
    <3>1. d \in DOMAIN chunks /\ d # h /\ chunks[d].state = "data"
          BY <1>3, <1>4, <2>6
    <3>2. CASE \E k \in DOMAIN queue : queue[k] = d
      <4>1. PICK k \in DOMAIN queue : queue[k] = d
            BY <3>2
      <4>2. k - 1 \in DOMAIN queue' /\ queue'[k - 1] = d
            BY <1>6, <3>1, <4>1
      <4> QED BY <4>2
    <3>3. CASE Indexing /\ d = Len(chunks)
          BY <1>2, <1>4, <3>3 DEF Indexing
    <3> QED BY <3>1, <3>2, <3>3 DEF QueueInv
  <2>7. \A d \in DOMAIN chunks' :
          chunks'[d].state = "munged" => \E v \in Finalizer : wpc'[v] = "sort" /\ wchunk'[v] = d
    <3> SUFFICES ASSUME NEW d \in DOMAIN chunks', chunks'[d].state = "munged"
                 PROVE  \E v \in Finalizer : wpc'[v] = "sort" /\ wchunk'[v] = d
        OBVIOUS
    <3>1. CASE d = h
          BY <1>2, <1>7, <3>1
    <3>2. CASE d # h
      <4>1. PICK v \in Finalizer : wpc[v] = "sort" /\ wchunk[v] = d
            BY <1>4, <3>2 DEF QueueInv
      <4>2. v # w
            BY <1>2, <4>1
      <4> QED BY <1>2, <1>7, <4>1, <4>2
    <3> QED BY <3>1, <3>2
  <2>8. ASSUME NEW v \in Finalizer, wpc'[v] = "sort"
        PROVE  /\ wchunk'[v] \in DOMAIN chunks' /\ chunks'[wchunk'[v]].state = "munged"
               /\ \A u \in Finalizer : wpc'[u] = "sort" /\ wchunk'[u] = wchunk'[v] => u = v
    <3>1. \A u \in Finalizer \ {w} : wpc'[u] = wpc[u] /\ wchunk'[u] = wchunk[u]
          BY <1>2, <1>7
    <3>2. wchunk'[w] = h
          BY <1>2, <1>7
    <3>3. \A u \in Finalizer \ {w} : wpc[u] = "sort" => wchunk[u] # h
          BY <2>2 DEF QueueInv
    <3>4. CASE v = w
          BY <1>1, <1>3, <1>4, <2>8, <3>1, <3>2, <3>3, <3>4
    <3>5. CASE v # w
      <4>1. wpc[v] = "sort" /\ wchunk'[v] = wchunk[v] /\ wchunk[v] # h
            BY <2>8, <3>1, <3>3, <3>5
      <4>2. wchunk[v] \in DOMAIN chunks /\ chunks[wchunk[v]].state = "munged"
            BY <4>1 DEF QueueInv
      <4>3. \A u \in Finalizer : wpc'[u] = "sort" /\ wchunk'[u] = wchunk[v] => u = v
            BY <3>1, <3>2, <4>1 DEF QueueInv
      <4> QED BY <1>4, <4>1, <4>2, <4>3
    <3> QED BY <3>4, <3>5
  <2>9. \A v \in Finalizer : wpc'[v] # "exited"
    <3>1. \A v \in Finalizer : wpc[v] # "exited"
          BY <1>1 DEF QueueInv
    <3> QED BY <1>2, <1>7, <3>1
  <2>10. build_pc' # "final"
    <3>1. wpc[w] # "exited" /\ chunks # <<>>
          BY <1>1, <1>2
    <3> QED BY <1>2, <3>1 DEF QueueInv
  <2> QED BY <2>3, <2>4, <2>5, <2>6, <2>7, <2>8, <2>9, <2>10 DEF QueueInv
<1> QED BY <1>5, <1>8, <1>9

LEMMA UnmungeKeepsTexts ==
    ASSUME BuildInv, NEW w \in Finalizer, Build!Unmunge(w)
    PROVE  /\ wchunk[w] \in DOMAIN chunks
           /\ chunks' = [chunks EXCEPT ![wchunk[w]] = [texts |-> chunks[wchunk[w]].texts, state |-> "sorted"]]
           /\ [texts |-> chunks[wchunk[w]].texts, state |-> "sorted"] \in Chunk
<1> USE DEF BuildInv
<1> DEFINE c == wchunk[w]
           texts == chunks[c].texts
           un == [k \in DOMAIN texts |-> IF texts[k] \in NulText THEN Blank ELSE texts[k]]
<1>1. chunks \in Seq(Chunk) /\ c \in DOMAIN chunks
      BY DEF BuildType, QueueInv, Build!Unmunge
<1>2. chunks[c] \in Chunk
      BY <1>1
<1>3. texts \in Seq(Build!Text)
      BY <1>2 DEF Chunk
<1>4. \A k \in DOMAIN texts : texts[k] \notin NulText
      BY <1>1 DEF NulFree
<1>5. un = texts
      BY <1>3, <1>4
<1>6. chunks' = [chunks EXCEPT ![c] = [texts |-> un, state |-> "sorted"]]
      BY <1>1 DEF Build!Unmunge
<1> HIDE DEF un
<1> QED BY <1>1, <1>3, <1>5, <1>6 DEF Chunk

LEMMA UnmungeBuild ==
    ASSUME BuildInv, NEW w \in Finalizer, Build!Unmunge(w)
    PROVE  BuildInv'
<1> USE DEF BuildInv
<1> DEFINE c == wchunk[w]
           new == [texts |-> chunks[c].texts, state |-> "sorted"]
<1>1. /\ c \in DOMAIN chunks /\ chunks' = [chunks EXCEPT ![c] = new] /\ new \in Chunk
      /\ new.texts = chunks[c].texts /\ new.state = "sorted"
      BY UnmungeKeepsTexts
<1>2. /\ wpc[w] = "sort" /\ wpc' = [wpc EXCEPT ![w] = "pop"]
      /\ UNCHANGED <<build_pc, Build!index_vars, indexed, queue, closed, wchunk>>
      BY DEF Build!Unmunge
<1> HIDE DEF new
<1>3. chunks \in Seq(Chunk) /\ queue \in Seq(1 .. Len(chunks)) /\ wpc \in [Finalizer -> {"pop", "sort", "exited"}]
      BY DEF BuildType
<1>4. /\ chunks' \in Seq(Chunk) /\ Len(chunks') = Len(chunks) /\ DOMAIN chunks' = DOMAIN chunks
      /\ chunks'[c] = new /\ \A d \in DOMAIN chunks : d # c => chunks'[d] = chunks[d]
  <2>1. chunks' \in [1 .. Len(chunks) -> Chunk]
        BY <1>1, <1>3
  <2> QED BY <1>1, <1>3, <2>1
<1>5. NulFree' /\ LookupInv' /\ PieceInv'
      BY <1>1, <1>2, <1>4, TextsKept
<1>6. chunks[c].state = "munged" /\ wpc' \in [Finalizer -> {"pop", "sort", "exited"}]
      BY <1>2, <1>3 DEF QueueInv
<1>7. BuildType'
      BY <1>2, <1>4, <1>6 DEF BuildType, Build!index_vars
<1>8. QueueInv'
  <2>1. \A k \in DOMAIN queue : queue[k] \in DOMAIN chunks /\ queue[k] # c
        BY <1>3, <1>6 DEF QueueInv
  <2>2. \A k \in DOMAIN queue' : chunks'[queue'[k]].state = "data"
        BY <1>2, <1>4, <2>1 DEF QueueInv
  <2>3. \A j, k \in DOMAIN queue' : j < k => queue'[j] < queue'[k]
        BY <1>2 DEF QueueInv
  <2>4. /\ Indexing' => ~closed' /\ \A k \in DOMAIN queue' : queue'[k] < Len(chunks')
        /\ Indexing' /\ chunks' # <<>> => chunks'[Len(chunks')].state = "data"
    <3> SUFFICES ASSUME Indexing'
                 PROVE  /\ ~closed' /\ \A k \in DOMAIN queue' : queue'[k] < Len(chunks')
                        /\ chunks' # <<>> => chunks'[Len(chunks')].state = "data"
        OBVIOUS
    <3>1. Indexing
          BY <1>2 DEF Indexing
    <3>2. chunks # <<>> /\ Len(chunks) \in DOMAIN chunks
          BY <1>1, <1>3
    <3>3. chunks[Len(chunks)].state = "data" /\ Len(chunks) # c
          BY <1>6, <3>1, <3>2 DEF QueueInv
    <3> QED BY <1>2, <1>4, <3>1, <3>2, <3>3 DEF QueueInv
  <2>5. \A d \in DOMAIN chunks' :
          chunks'[d].state = "data" =>
             (\E k \in DOMAIN queue' : queue'[k] = d) \/ (Indexing' /\ d = Len(chunks'))
        BY <1>1, <1>2, <1>4 DEF QueueInv, Indexing
  <2>6. ASSUME NEW d \in DOMAIN chunks', chunks'[d].state = "munged"
        PROVE  \E v \in Finalizer : wpc'[v] = "sort" /\ wchunk'[v] = d
    <3>1. d \in DOMAIN chunks /\ d # c /\ chunks[d].state = "munged"
          BY <1>1, <1>4, <2>6
    <3>2. PICK v \in Finalizer : wpc[v] = "sort" /\ wchunk[v] = d
          BY <3>1 DEF QueueInv
    <3> QED BY <1>2, <1>3, <3>1, <3>2
  <2>7. ASSUME NEW v \in Finalizer, wpc'[v] = "sort"
        PROVE  /\ wchunk'[v] \in DOMAIN chunks' /\ chunks'[wchunk'[v]].state = "munged"
               /\ \A u \in Finalizer : wpc'[u] = "sort" /\ wchunk'[u] = wchunk'[v] => u = v
    <3>1. v # w /\ wpc[v] = "sort" /\ \A u \in Finalizer : wpc'[u] = "sort" => wpc[u] = "sort"
          BY <1>2, <1>3, <2>7
    <3>2. wchunk[v] # c
          BY <1>2, <3>1 DEF QueueInv
    <3> QED BY <1>2, <1>4, <3>1, <3>2 DEF QueueInv
  <2>8. \A v \in Finalizer : wpc'[v] = "exited" => closed' /\ queue' = <<>>
        BY <1>2, <1>3 DEF QueueInv
  <2>9. build_pc' # "final"
    <3>1. chunks # <<>> /\ wpc[w] # "exited"
          BY <1>1, <1>2, <1>3
    <3> QED BY <1>2, <3>1 DEF QueueInv
  <2> QED BY <2>2, <2>3, <2>4, <2>5, <2>6, <2>7, <2>8, <2>9 DEF QueueInv
<1> QED BY <1>5, <1>7, <1>8

LEMMA ExitBuild ==
    ASSUME BuildInv, NEW w \in Finalizer, Build!ExitFinalizer(w)
    PROVE  BuildInv'
<1> USE DEF BuildInv, Build!ExitFinalizer, Build!index_vars
<1>1. wpc \in [Finalizer -> {"pop", "sort", "exited"}]
      BY DEF BuildType
<1>2. wpc' \in [Finalizer -> {"pop", "sort", "exited"}]
      BY <1>1
<1>3. BuildType'
      BY <1>2 DEF BuildType
<1>4. \A v \in Finalizer : wpc'[v] = wpc[v] \/ (v = w /\ wpc'[v] = "exited")
      BY <1>1
<1>5. \A v \in Finalizer : (wpc'[v] = "sort" <=> wpc[v] = "sort") /\ (wpc[v] = "exited" => wpc'[v] = "exited")
      BY <1>1
<1>6. QueueInv'
      BY <1>4, <1>5 DEF QueueInv, Indexing
<1>7. NulFree' /\ LookupInv' /\ PieceInv'
      BY DEF NulFree, LookupInv, PieceInv, Indexing
<1> QED BY <1>3, <1>6, <1>7

LEMMA BuildNext == BuildInv /\ Build!Next => BuildInv'
<1> SUFFICES ASSUME BuildInv, Build!Next PROVE BuildInv'
    OBVIOUS
<1>1. CASE \E f \in Inputs : Build!StartFile(f)
      BY <1>1, StartFileBuild
<1>2. CASE Build!ReuseLine \/ Build!StoreLine \/ Build!FinishFile
      BY <1>2, ReuseLineBuild, StoreLineBuild, FinishFileBuild
<1>3. CASE Build!Finalize \/ Build!Joined
      BY <1>3, FinalizeBuild, JoinedBuild
<1>4. CASE \E w \in Finalizer : Build!FinalizerStep(w)
      BY <1>4, MungeBuild, UnmungeBuild, ExitBuild DEF Build!FinalizerStep
<1> QED BY <1>1, <1>2, <1>3, <1>4 DEF Build!Next

(* A step of the backend is a step of the part that runs.                  *)
LEMMA SpecBuildInv == Spec => [](part = "Build" => BuildInv)
<1>1. Init => (part = "Build" => BuildInv)
      BY BuildInitially DEF Init
<1>2. (part = "Build" => BuildInv) /\ [Next]_all => (part = "Build" => BuildInv)'
  <2> SUFFICES ASSUME part = "Build" => BuildInv, [Next]_all, part' = "Build"
               PROVE  BuildInv'
      OBVIOUS
  <2>1. CASE BuildStep(Build!Next)
        BY <2>1, BuildNext DEF BuildStep
  <2>2. CASE BoundsStep(Bounds!Next) \/ ServeStep(Serve!Next)
        BY <2>2 DEF BoundsStep, ServeStep
  <2>3. CASE UNCHANGED all
        BY <2>3 DEF all, buildVars, BuildInv, BuildType, QueueInv, NulFree, LookupInv, PieceInv, Indexing
  <2> QED BY <2>1, <2>2, <2>3 DEF Next
<1> QED BY <1>1, <1>2, PTL DEF Spec

-----------------------------------------------------------------------------
LEMMA FrozenByBuild == BuildInv /\ Build!Next => Build!FrozenStep
<1> SUFFICES ASSUME BuildInv, Build!Next, NEW c \in DOMAIN chunks,
                    c \in Build!ToSet(queue) \/ chunks[c].state # "data"
             PROVE  chunks'[c].texts = chunks[c].texts
    BY DEF Build!FrozenStep
<1> USE DEF BuildInv
<1>1. CASE chunks' = chunks
      BY <1>1
<1>2. CASE Build!StoreLine
  <2> DEFINE t == Build!Indexable(input.lines[at])
  <2>1. /\ build_pc = "line" /\ Build!HasLine
        /\ chunks' = IF Room(t) THEN Append(chunks, [texts |-> <<t>>, state |-> "data"])
                     ELSE [chunks EXCEPT ![Place(t)].texts = Append(@, t)]
        BY <1>2 DEF Build!StoreLine, Place, Room
  <2>2. t \in Build!Text /\ chunks \in Seq(Chunk) /\ chunks # <<>>
        BY <2>1, LineToRead DEF BuildType
  <2>3. c # Len(chunks)
    <3>1. CASE c \in Build!ToSet(queue)
      <4>1. PICK k \in DOMAIN queue : queue[k] = c
            BY <3>1 DEF Build!ToSet
      <4> QED BY <2>1, <2>2, <4>1 DEF QueueInv, Indexing
    <3>2. CASE chunks[c].state # "data"
          BY <2>1, <2>2, <3>2 DEF QueueInv, Indexing
    <3> QED BY <3>1, <3>2
  <2> HIDE DEF t
  <2>4. CASE Room(t)
        BY <2>1, <2>2, <2>4
  <2>5. CASE ~Room(t)
    <3>1. chunks' = [chunks EXCEPT ![Len(chunks)].texts = Append(@, t)]
          BY <2>1, <2>5 DEF Place
    <3> QED BY <2>2, <2>3, <2>5, <3>1, StoredInCurrent
  <2> QED BY <2>4, <2>5
<1>3. ASSUME NEW w \in Finalizer, Build!Munge(w)
      PROVE  chunks'[c].texts = chunks[c].texts
      BY <1>3 DEF Build!Munge
<1>4. ASSUME NEW w \in Finalizer, Build!Unmunge(w)
      PROVE  chunks'[c].texts = chunks[c].texts
  <2>1. chunks' = [chunks EXCEPT ![wchunk[w]] = [texts |-> chunks[wchunk[w]].texts, state |-> "sorted"]]
        BY <1>4, UnmungeKeepsTexts
  <2> QED BY <2>1
<1> QED BY <1>1, <1>2, <1>3, <1>4 DEF Build!Next, Build!StartFile, Build!ReuseLine, Build!FinishFile,
          Build!Finalize, Build!Joined, Build!FinalizerStep, Build!ExitFinalizer

(***************************************************************************)
(* chunk_allocator: from the moment a chunk is queued until its suffixes   *)
(* are sorted, and afterwards, its bytes stay what they are, whatever the  *)
(* indexing thread and the finalizers do meanwhile.                        *)
(***************************************************************************)
THEOREM QueuedChunksFrozen == Spec => QueuedIsFrozen
<1>1. (part = "Build" => BuildInv) /\ [Next]_all => [part = "Build" => Build!FrozenStep]_all
  <2> SUFFICES ASSUME part = "Build" => BuildInv, Next, part = "Build"
               PROVE  Build!FrozenStep
      OBVIOUS
  <2> QED BY FrozenByBuild DEF Next, BuildStep, BoundsStep, ServeStep
<1> QED BY <1>1, SpecBuildInv, PTL DEF Spec, QueuedIsFrozen

-----------------------------------------------------------------------------
LEMMA SortedFromInv == BuildInv => Build!SortedOnce
<1> SUFFICES ASSUME BuildInv PROVE Build!SortedOnce
    OBVIOUS
<1> USE DEF BuildInv
<1>1. \A k \in DOMAIN queue : chunks[queue[k]].state = "data"
      BY DEF QueueInv
<1>2. Build!IsInjective(queue)
  <2> SUFFICES ASSUME NEW j \in DOMAIN queue, NEW k \in DOMAIN queue, queue[j] = queue[k], j # k
               PROVE  FALSE
      BY DEF Build!IsInjective
  <2>1. queue \in Seq(1 .. Len(chunks)) /\ chunks \in Seq(Chunk)
        BY DEF BuildType
  <2>2. j \in Nat /\ k \in Nat /\ queue[j] \in Nat
        BY <2>1
  <2>3. j < k \/ k < j
        BY <2>2
  <2> QED BY <2>2, <2>3 DEF QueueInv
<1>3. ASSUME build_pc = "final", NEW c \in DOMAIN chunks
      PROVE  chunks[c].state = "sorted"
  <2>1. chunks \in Seq(Chunk) /\ chunks[c] \in Chunk /\ chunks # <<>>
        BY DEF BuildType
  <2>2. \A w \in Finalizer : wpc[w] = "exited"
        BY <1>3, <2>1 DEF QueueInv
  <2>3. queue = <<>>
        BY <2>2, IndexerFacts DEF QueueInv
  <2>4. chunks[c].state # "data"
        BY <1>3, <2>3 DEF QueueInv, Indexing
  <2>5. chunks[c].state # "munged"
        BY <2>2 DEF QueueInv
  <2> QED BY <2>1, <2>4, <2>5 DEF Chunk
<1> QED BY <1>1, <1>2, <1>3 DEF Build!SortedOnce

(* What a chunk stores, in terms of the pieces.                            *)
LEMMA StoredIffAt ==
    ASSUME BuildInv, NEW c \in DOMAIN chunks, NEW e
    PROVE  e \in Build!Stored(c) <=> /\ e = [text |-> e.text, piece |-> e.piece]
                                     /\ e.piece.chunk = c
                                     /\ AtIn(chunks, e.piece, e.text)
<1> DEFINE texts == chunks[c].texts
           At(k) == Build!Piece(c, Build!Offset(texts, k), LenOf[texts[k]])
<1>1. chunks \in Seq(Chunk)
      BY DEF BuildInv, BuildType
<1>2. chunks[c] \in Chunk
      BY <1>1
<1>3. texts \in Seq(Build!Text)
      BY <1>2 DEF Chunk
<1>4. Build!Stored(c) = {[text |-> texts[k], piece |-> At(k)] : k \in DOMAIN texts}
      BY DEF Build!Stored
<1>5. \A k : At(k).chunk = c
      BY DEF Build!Piece
<1>6. ASSUME e \in Build!Stored(c)
      PROVE  e = [text |-> e.text, piece |-> e.piece] /\ e.piece.chunk = c /\ AtIn(chunks, e.piece, e.text)
  <2>1. PICK k \in DOMAIN texts : e = [text |-> texts[k], piece |-> At(k)]
        BY <1>4, <1>6
  <2>2. e.text = texts[k] /\ e.piece = At(k) /\ e.piece.chunk = c /\ k \in Nat
        BY <2>1, <1>3, <1>5
  <2>3. IsKth(chunks, e.piece, e.text, k)
        BY <2>2 DEF IsKth
  <2> QED BY <2>1, <2>2, <2>3 DEF AtIn
<1>7. ASSUME e = [text |-> e.text, piece |-> e.piece], e.piece.chunk = c, AtIn(chunks, e.piece, e.text)
      PROVE  e \in Build!Stored(c)
  <2>1. PICK k \in Nat : IsKth(chunks, e.piece, e.text, k)
        BY <1>7 DEF AtIn
  <2>2. k \in DOMAIN texts /\ e.text = texts[k] /\ e.piece = At(k)
        BY <1>7, <2>1 DEF IsKth
  <2> QED BY <1>4, <1>7, <2>2
<1> QED BY <1>6, <1>7

LEMMA LookupsFromInv == BuildInv => Build!LookupsStayInCurrent
<1> SUFFICES ASSUME BuildInv, build_pc = "line", NEW e \in lines_
             PROVE  /\ e.piece.chunk = Len(chunks)
                    /\ chunks[e.piece.chunk].state = "data"
                    /\ e.piece.chunk \notin Build!ToSet(queue)
                    /\ e \in Build!Stored(e.piece.chunk)
    BY DEF Build!LookupsStayInCurrent
<1> USE DEF BuildInv
<1>1. e.piece.chunk = Len(chunks) /\ AtIn(chunks, e.piece, e.text)
      BY DEF LookupInv, Indexing
<1>2. e.piece.chunk \in DOMAIN chunks
      BY <1>1 DEF AtIn, IsKth
<1>3. chunks \in Seq(Chunk) /\ chunks # <<>> /\ e \in Entry /\ queue \in Seq(1 .. Len(chunks))
      BY <1>2 DEF BuildType
<1>4. chunks[e.piece.chunk].state = "data"
      BY <1>1, <1>3 DEF QueueInv, Indexing
<1>5. e.piece.chunk \notin Build!ToSet(queue)
      BY <1>1, <1>3 DEF Build!ToSet, QueueInv, Indexing
<1>6. e = [text |-> e.text, piece |-> e.piece]
      BY <1>3 DEF Entry
<1> QED BY <1>1, <1>2, <1>4, <1>5, <1>6, StoredIffAt

LEMMA AllStoredIffAt ==
    ASSUME BuildInv, NEW e
    PROVE  e \in Build!AllStored <=> e = [text |-> e.text, piece |-> e.piece] /\ AtIn(chunks, e.piece, e.text)
<1>1. e \in Build!AllStored <=> \E c \in DOMAIN chunks : e \in Build!Stored(c)
      BY DEF Build!AllStored
<1>2. AtIn(chunks, e.piece, e.text) => e.piece.chunk \in DOMAIN chunks
      BY DEF AtIn, IsKth
<1> QED BY <1>1, <1>2, StoredIffAt

(* Two pieces one of which starts in the other are the same.               *)
LEMMA SamePiece ==
    ASSUME NEW cs \in Seq(Chunk), NEW p, NEW t, AtIn(cs, p, t), NEW q, NEW u, AtIn(cs, q, u),
           p.chunk = q.chunk, q.off <= p.off, p.off <= q.off + q.len
    PROVE  p = q /\ t = u
<1> PICK j \in Nat : IsKth(cs, p, t, j)
    BY DEF AtIn
<1> PICK k \in Nat : IsKth(cs, q, u, k)
    BY DEF AtIn
<1>1. /\ p.off \in Nat /\ p.len \in Nat /\ q.off \in Nat /\ q.len \in Nat
      /\ j = k => p = q /\ t = u
      /\ j < k => p.off + p.len + 1 <= q.off
      /\ k < j => q.off + q.len + 1 <= p.off
      BY PiecesApart
<1>2. ~(j < k) /\ ~(k < j)
      BY <1>1
<1> QED BY <1>1, <1>2

(* A piece is one line: there is no newline in it.                         *)
LEMMA NoNewlineInPiece ==
    ASSUME BuildInv, NEW q, NEW u, AtIn(chunks, q, u), NEW end, end \in {q.off, q.off + q.len}
    PROVE  Build!Newlines(q.chunk, q.off, end) = {}
<1> SUFFICES ASSUME NEW e \in Build!Stored(q.chunk),
                    q.off <= e.piece.off + e.piece.len, e.piece.off + e.piece.len < end
             PROVE  FALSE
    BY DEF Build!Newlines
<1>1. chunks \in Seq(Chunk)
      BY DEF BuildInv, BuildType
<1>2. q.chunk \in DOMAIN chunks
      BY DEF AtIn, IsKth
<1>3. e.piece.chunk = q.chunk /\ AtIn(chunks, e.piece, e.text)
      BY <1>2, StoredIffAt
<1>4. PICK j \in Nat : IsKth(chunks, e.piece, e.text, j)
      BY <1>3 DEF AtIn
<1>5. PICK k \in Nat : IsKth(chunks, q, u, k)
      BY DEF AtIn
<1> DEFINE p == e.piece
<1>6. /\ p.off \in Nat /\ p.len \in Nat /\ q.off \in Nat /\ q.len \in Nat
      /\ j = k => p = q /\ e.text = u
      /\ j < k => p.off + p.len + 1 <= q.off
      /\ k < j => q.off + q.len + 1 <= p.off
      BY <1>1, <1>3, <1>4, <1>5, PiecesApart
<1>7. q.off <= p.off + p.len /\ p.off + p.len < end
      OBVIOUS
<1> HIDE DEF p
<1> QED BY <1>6, <1>7

(* So the number try_match computes is the number of the piece.            *)
LEMMA LineNumbersExact ==
    ASSUME BuildInv, NEW content \in Seq(PieceSet),
           \A m \in DOMAIN content : \E u : AtIn(chunks, content[m], u),
           NEW p, NEW t, AtIn(chunks, p, t), NEW n
    PROVE  n \in Build!LineNumbers(content, p) <=> n \in DOMAIN content /\ content[n] = p
<1> DEFINE within(m) == /\ content[m].chunk = p.chunk
                        /\ content[m].off <= p.off /\ p.off <= content[m].off + content[m].len
           newlines(m, end) == Build!Newlines(content[m].chunk, content[m].off, end)
           inside(m) == UNION {{l} \X newlines(l, content[l].off + content[l].len) : l \in 1 .. (m - 1)}
           number(m) == m + Build!Cardinality(inside(m)) + Build!Cardinality(newlines(m, p.off))
<1>1. Build!LineNumbers(content, p) = {number(m) : m \in {l \in DOMAIN content : within(l)}}
      BY DEF Build!LineNumbers
<1>2. chunks \in Seq(Chunk) /\ DOMAIN content = 1 .. Len(content) /\ Len(content) \in Nat
      BY DEF BuildInv, BuildType
<1>3. ASSUME NEW m \in DOMAIN content
      PROVE  within(m) <=> content[m] = p
  <2>1. PICK u : AtIn(chunks, content[m], u)
        OBVIOUS
  <2>2. within(m) => content[m] = p
        BY <1>2, <2>1, SamePiece
  <2>3. PICK k \in Nat : IsKth(chunks, p, t, k)
        BY DEF AtIn
  <2>4. p.off \in Nat /\ p.len \in Nat
        BY <1>2, <2>3, PiecesApart
  <2> QED BY <2>2, <2>4
<1>4. ASSUME NEW m \in DOMAIN content
      PROVE  newlines(m, content[m].off + content[m].len) = {} /\ newlines(m, content[m].off) = {}
  <2>1. PICK u : AtIn(chunks, content[m], u)
        OBVIOUS
  <2> QED BY <2>1, NoNewlineInPiece
<1>5. ASSUME NEW m \in DOMAIN content, content[m] = p
      PROVE  number(m) = m
  <2>1. inside(m) = {}
    <3>1. \A l \in 1 .. (m - 1) : l \in DOMAIN content
          BY <1>2
    <3>2. \A l \in 1 .. (m - 1) : newlines(l, content[l].off + content[l].len) = {}
          BY <1>4, <3>1
    <3> HIDE DEF newlines
    <3>3. \A l \in 1 .. (m - 1) : {l} \X newlines(l, content[l].off + content[l].len) = {}
          BY <3>2
    <3> QED BY <3>3
  <2>2. newlines(m, p.off) = {}
        BY <1>4, <1>5
  <2>3. Build!Cardinality({}) = 0
        BY BuildSets, FS_EmptySet
  <2>4. m \in Nat
        BY <1>2
  <2> HIDE DEF inside, newlines
  <2> QED BY <2>1, <2>2, <2>3, <2>4
<1> HIDE DEF within, newlines, inside, number
<1>6. n \in Build!LineNumbers(content, p) <=> \E m \in DOMAIN content : within(m) /\ n = number(m)
      BY <1>1
<1>7. (\E m \in DOMAIN content : within(m) /\ n = number(m)) <=> \E m \in DOMAIN content : content[m] = p /\ n = m
      BY <1>3, <1>5
<1> QED BY <1>6, <1>7

LEMMA FoundFromInv ==
    ASSUME BuildInv, NoByteTail
    PROVE  Build!EveryLineFound
<1> SUFFICES ASSUME NEW i \in DOMAIN indexed, ~indexed[i].warned, NEW n \in DOMAIN indexed[i].input.lines
             PROVE  LET found == {e \in Build!AllStored : n \in Build!LineNumbers(indexed[i].content, e.piece)}
                    IN  /\ Build!Cardinality(found) = 1
                        /\ \A e \in found : e.text = Build!Indexable(indexed[i].input.lines[n])
    BY DEF Build!EveryLineFound
<1> DEFINE content == indexed[i].content
           ls == indexed[i].input.lines
           t == Build!Indexable(ls[n])
           found == {e \in Build!AllStored : n \in Build!LineNumbers(content, e.piece)}
           line == [text |-> t, piece |-> content[n]]
<1>1. indexed[i] \in [input : Known, content : Seq(PieceSet), warned : BOOLEAN] /\ chunks \in Seq(Chunk)
  <2> DEFINE S == [input : Known, content : Seq(PieceSet), warned : BOOLEAN]
  <2>1. indexed \in Seq(S) /\ chunks \in Seq(Chunk)
        BY DEF BuildInv, BuildType
  <2> HIDE DEF S
  <2>2. indexed[i] \in S
        BY <2>1
  <2> QED BY <2>1, <2>2 DEF S
<1>2. content \in Seq(PieceSet) /\ ls \in Seq(Build!Text)
  <2>1. content \in Seq(PieceSet) /\ indexed[i].input \in Known
        BY <1>1
  <2> QED BY <2>1, IndexerFacts DEF Known, EmptyFile
<1>3. Len(content) = Len(ls) /\ \A k \in 1 .. Len(content) : AtIn(chunks, content[k], Build!Indexable(ls[k]))
      BY DEF BuildInv, PieceInv, LinesAt
<1>4. n \in DOMAIN content /\ AtIn(chunks, content[n], t)
      BY <1>2, <1>3
<1> HIDE DEF content, ls, t
<1>5. \A m \in DOMAIN content : \E u : AtIn(chunks, content[m], u)
      BY <1>2, <1>3
<1>6. line.text = t /\ line.piece = content[n] /\ line = [text |-> line.text, piece |-> line.piece]
      OBVIOUS
<1> HIDE DEF line
<1>7. line \in found
  <2>1. line \in Build!AllStored
        BY <1>4, <1>6, AllStoredIffAt
  <2>2. n \in Build!LineNumbers(content, content[n])
        BY <1>2, <1>4, <1>5, LineNumbersExact
  <2> QED BY <1>6, <2>1, <2>2
<1>8. ASSUME NEW e \in found PROVE e = line
  <2>1. e = [text |-> e.text, piece |-> e.piece] /\ AtIn(chunks, e.piece, e.text)
        BY <1>8, AllStoredIffAt
  <2>2. content[n] = e.piece
        BY <1>2, <1>5, <1>8, <2>1, LineNumbersExact
  <2>3. PICK k \in Nat : IsKth(chunks, e.piece, e.text, k)
        BY <2>1 DEF AtIn
  <2>4. e.piece.off \in Nat /\ e.piece.len \in Nat
        BY <1>1, <2>3, PiecesApart
  <2>5. e.piece.off <= e.piece.off /\ e.piece.off <= e.piece.off + e.piece.len
        BY <2>4
  <2>6. e.text = t
        BY <1>1, <1>4, <2>1, <2>2, <2>5, SamePiece
  <2> QED BY <1>6, <2>1, <2>2, <2>6
<1>9. found = {line}
      BY <1>7, <1>8
<1> HIDE DEF found
<1>10. Build!Cardinality(found) = 1
       BY <1>9, BuildSets, FS_Singleton
<1>11. \A e \in found : e.text = t
       BY <1>6, <1>9
<1> QED BY <1>10, <1>11 DEF found, content, ls, t

(***************************************************************************)
(* index_file, chunk_allocator and try_match: as long as no file ends in a *)
(* last line of a single byte without a newline (which index_file skips,   *)
(* see the run indexer_tail), every line of every file that is indexed     *)
(* with its content is found again, at its own number and through exactly  *)
(* one stored line; what lines_ remembers lies in the current chunk; and   *)
(* every chunk is handed to one finalizer and sorted when finalize()       *)
(* returns.                                                                *)
(***************************************************************************)
THEOREM EveryLineIsFound ==
    ASSUME NoByteTail
    PROVE  Spec => []IndexedWhole
<1>1. (part = "Build" => BuildInv) => IndexedWhole
      BY FoundFromInv, LookupsFromInv, SortedFromInv DEF IndexedWhole
<1> QED BY <1>1, SpecBuildInv, PTL

-----------------------------------------------------------------------------
(* The inductive invariant of the server and the indexer: no Reload names  *)
(* a file that was not there, and a file is loaded after the request that  *)
(* led to it.                                                              *)
ServeInv ==
    /\ file.gen \in Nat /\ asked \in Nat /\ loaded.gen \in Nat /\ promise \in BOOLEAN
    /\ asked <= file.gen
    /\ spc \in {"loading", "loaded", "serving", "stopping"}
    /\ spc = "loaded" \/ (spc = "serving" /\ ~promise) => loaded.gen >= asked

LEMMA ServeNext == ServeInv /\ Serve!Next => ServeInv'
<1> SUFFICES ASSUME ServeInv, Serve!Next PROVE ServeInv'
    OBVIOUS
<1> USE DEF ServeInv, Serve!server_vars, Serve!frontend_vars
<1>1. CASE \E t \in Time : Serve!Replace(t)
      BY <1>1 DEF Serve!Replace, Serve!Index
<1>2. CASE Serve!Reload
      BY <1>2 DEF Serve!Reload
<1>3. CASE Serve!Load
      BY <1>3 DEF Serve!Load
<1>4. CASE Serve!Serve \/ Serve!Stopped
      BY <1>4 DEF Serve!Serve, Serve!Stopped
<1>5. CASE Serve!AddWatch \/ Serve!Shutdown
      BY <1>5 DEF Serve!AddWatch, Serve!Shutdown
<1>6. CASE Serve!FrontendStep
      BY <1>6 DEF Serve!FrontendStep, Serve!QuickInfo, Serve!QuickInfoFails, Serve!Decide, Serve!GetInfo
<1> QED BY <1>1, <1>2, <1>3, <1>4, <1>5, <1>6 DEF Serve!Next, Serve!ServerStep

(***************************************************************************)
(* codesearch.cc's main loop and the Reload RPC: whenever the server       *)
(* serves with no request outstanding, it serves the file that was there   *)
(* when the last Reload returned OK, or a newer one.                       *)
(***************************************************************************)
THEOREM ReloadIsHonoured == Spec => [](part = "Serve" => Serve!ReloadHonoured)
<1>1. Init => (part = "Serve" => ServeInv)
  <2>1. ASSUME Serve!Init PROVE ServeInv
    <3>1. file.gen = 1 /\ asked = 0 /\ loaded.gen = 0 /\ spc = "loading"
          BY <2>1 DEF Serve!Init, Serve!Index, Serve!NoIndex
    <3>2. promise \in BOOLEAN
          BY <2>1, Zenon DEF Serve!Init
    <3> QED BY <3>1, <3>2 DEF ServeInv
  <2> QED BY <2>1 DEF Init
<1>2. (part = "Serve" => ServeInv) /\ [Next]_all => (part = "Serve" => ServeInv)'
  <2> SUFFICES ASSUME part = "Serve" => ServeInv, [Next]_all, part' = "Serve"
               PROVE  ServeInv'
      OBVIOUS
  <2>1. CASE ServeStep(Serve!Next)
        BY <2>1, ServeNext DEF ServeStep
  <2>2. CASE BoundsStep(Bounds!Next) \/ BuildStep(Build!Next)
        BY <2>2 DEF BoundsStep, BuildStep
  <2>3. CASE UNCHANGED all
        BY <2>3 DEF all, serveVars, ServeInv
  <2> QED BY <2>1, <2>2, <2>3 DEF Next
<1>3. (part = "Serve" => ServeInv) => (part = "Serve" => Serve!ReloadHonoured)
      BY DEF ServeInv, Serve!ReloadHonoured
<1> QED BY <1>1, <1>2, <1>3, PTL DEF Spec

-----------------------------------------------------------------------------
(* The matches in a line.                                                  *)

LEMMA BoundsSets == \A S : Bounds!Cardinality(S) = Cardinality(S)
BY DEF Bounds!Cardinality, Cardinality

LEMMA LeastElement ==
    ASSUME NEW T \in SUBSET Nat, T # {}
    PROVE  \E x \in T : \A y \in T : x <= y
<1> DEFINE R == OpToRel(<, Nat)
<1>1. \E x \in T : \A y \in T : ~(<<y, x>> \in R)
      BY WFMin, NatLessThanWellFounded, Zenon
<1>2. \A x, y \in Nat : y < x => <<y, x>> \in R
      BY DEF OpToRel
<1> HIDE DEF R
<1>3. PICK x \in T : \A y \in T : ~(<<y, x>> \in R)
      BY <1>1
<1>4. \A y \in T : x <= y
  <2> TAKE y \in T
  <2>1. x \in Nat /\ y \in Nat /\ ~(y < x)
        BY <1>2, <1>3
  <2> QED BY <2>1
<1> QED BY <1>4

LEMMA GreatestBelow ==
    ASSUME NEW N \in Nat, NEW T \in SUBSET Nat, T # {}, \A t \in T : t <= N
    PROVE  \E x \in T : \A y \in T : y <= x
<1> DEFINE U == {k \in Nat : N - k \in T}
<1>1. U \in SUBSET Nat /\ U # {}
  <2>1. PICK t \in T : TRUE
        OBVIOUS
  <2>2. N - t \in Nat /\ N - (N - t) = t
        BY <2>1
  <2>3. N - t \in U
        BY <2>1, <2>2
  <2> QED BY <2>3
<1>2. PICK k \in U : \A j \in U : k <= j
  <2> HIDE DEF U
  <2> QED BY <1>1, LeastElement
<1>3. \A y \in T : N - y \in U
      OBVIOUS
<1>4. \A y \in T : y <= N - k
      BY <1>2, <1>3
<1> QED BY <1>2, <1>4

(***************************************************************************)
(* The line and the regular expression, which do not change: there is a    *)
(* match, and none of them is empty.                                       *)
(***************************************************************************)
Chars == 0 .. Len(width)
IsMatch(c) == c \in Chars /\ len[c] # -1

LineInv ==
    /\ width \in Seq(1 .. 4)
    /\ len \in [Chars -> Nat \cup {-1}]
    /\ \A c \in Chars : len[c] # 0 /\ c + len[c] <= Len(width)
    /\ \E c \in Chars : IsMatch(c)

LEMMA LineFacts ==
    ASSUME LineInv
    PROVE  /\ Len(width) \in Nat
           /\ \A k \in 1 .. Len(width) : width[k] \in 1 .. 4
           /\ \A c \in Chars : c \in Nat /\ len[c] \in Int
           /\ \A c : IsMatch(c) => /\ len[c] \in Nat /\ len[c] > 0
                                   /\ c + len[c] \in Chars /\ c + len[c] <= Len(width) /\ c \in Nat
<1>1. Len(width) \in Nat /\ \A k \in 1 .. Len(width) : width[k] \in 1 .. 4
      BY DEF LineInv
<1>2. \A c \in Chars : c \in Nat /\ len[c] \in Nat \cup {-1} /\ len[c] # 0 /\ c + len[c] <= Len(width)
      BY <1>1 DEF LineInv, Chars
<1>3. \A c \in Chars : len[c] \in Int
      BY <1>2
<1>4. ASSUME NEW c, IsMatch(c)
      PROVE  /\ len[c] \in Nat /\ len[c] > 0
             /\ c + len[c] \in Chars /\ c + len[c] <= Len(width) /\ c \in Nat
      BY <1>1, <1>2, <1>4 DEF IsMatch, Chars
<1> QED BY <1>1, <1>2, <1>3, <1>4

(* The bytes of the first c characters.                                    *)
LEMMA BytesOfFinite ==
    ASSUME LineInv, NEW c \in Chars
    PROVE  /\ IsFiniteSet(Bounds!BytesOf(c)) /\ Bounds!Off(c) = Cardinality(Bounds!BytesOf(c))
           /\ Bounds!Off(c) \in Nat
<1> DEFINE I == 1 .. c
           f == [j \in I |-> {j} \X (1 .. width[j])]
           T == {{j} \X (1 .. width[j]) : j \in I}
<1>0. c \in Nat /\ \A j \in I : width[j] \in Nat
      BY LineFacts DEF Chars
<1>1. IsFiniteSet(I)
      BY <1>0, FS_Interval
<1>2. f \in Surjection(I, T)
      BY DEF Surjection
<1>3. IsFiniteSet(T)
      BY <1>1, <1>2, FS_Surjection
<1>4. \A j \in I : IsFiniteSet({j} \X (1 .. width[j]))
  <2> TAKE j \in I
  <2>1. IsFiniteSet(1 .. width[j])
        BY <1>0, FS_Interval
  <2>2. IsFiniteSet({j})
        BY FS_Singleton
  <2> QED BY <2>1, <2>2, FS_Product
<1>5. \A S \in T : IsFiniteSet(S)
      BY <1>4
<1>6. IsFiniteSet(UNION T)
      BY <1>3, <1>5, FS_UNION
<1>7. Bounds!BytesOf(c) = UNION T
      BY DEF Bounds!BytesOf
<1>8. IsFiniteSet(Bounds!BytesOf(c))
      BY <1>6, <1>7
<1>9. Bounds!Off(c) = Cardinality(Bounds!BytesOf(c))
      BY BoundsSets DEF Bounds!Off
<1> HIDE DEF I, f, T
<1> QED BY <1>8, <1>9, FS_CardinalityType

LEMMA OffNext ==
    ASSUME LineInv, NEW c \in Chars, c + 1 \in Chars
    PROVE  Bounds!Off(c) + 1 <= Bounds!Off(c + 1)
<1> DEFINE A == Bounds!BytesOf(c)
           e == <<c + 1, 1>>
<1>0. c \in Nat /\ c + 1 \in 1 .. Len(width) /\ width[c + 1] \in 1 .. 4
      BY LineFacts DEF Chars
<1>1. IsFiniteSet(A) /\ Bounds!Off(c) = Cardinality(A) /\ Cardinality(A) \in Nat
      BY BytesOfFinite
<1>2. IsFiniteSet(Bounds!BytesOf(c + 1)) /\ Bounds!Off(c + 1) = Cardinality(Bounds!BytesOf(c + 1))
      BY BytesOfFinite
<1>3. e \notin A
      BY <1>0 DEF Bounds!BytesOf
<1>4. A \cup {e} \subseteq Bounds!BytesOf(c + 1)
  <2>1. 1 .. c \subseteq 1 .. (c + 1) /\ c + 1 \in 1 .. (c + 1)
        BY <1>0
  <2>2. A \subseteq Bounds!BytesOf(c + 1)
        BY <2>1 DEF Bounds!BytesOf
  <2>3. 1 \in 1 .. width[c + 1]
        BY <1>0
  <2>4. e \in Bounds!BytesOf(c + 1)
        BY <2>1, <2>3 DEF Bounds!BytesOf
  <2> QED BY <2>2, <2>4
<1> HIDE DEF A, e
<1>5. Cardinality(A \cup {e}) = Cardinality(A) + 1
      BY <1>1, <1>3, FS_AddElement
<1>6. Cardinality(A \cup {e}) <= Cardinality(Bounds!BytesOf(c + 1))
      BY <1>2, <1>4, FS_Subset
<1> QED BY <1>1, <1>2, <1>5, <1>6

(* Every character has a byte.                                             *)
LEMMA OffGrows ==
    ASSUME LineInv, NEW c \in Chars, NEW d \in Chars, c <= d
    PROVE  Bounds!Off(c) + (d - c) <= Bounds!Off(d)
<1> DEFINE T == {x \in Chars : c <= x /\ ~(Bounds!Off(c) + (x - c) <= Bounds!Off(x))}
<1>1. \A x \in Chars : x \in Nat /\ Bounds!Off(x) \in Nat
      BY LineFacts, BytesOfFinite
<1>2. T \in SUBSET Nat
      BY <1>1
<1>3. T = {}
  <2> SUFFICES ASSUME T # {} PROVE FALSE
      OBVIOUS
  <2>1. PICK x \in T : \A y \in T : x <= y
    <3> HIDE DEF T
    <3> QED BY <1>2, LeastElement
  <2>2. x \in Chars /\ c <= x /\ ~(Bounds!Off(c) + (x - c) <= Bounds!Off(x))
        OBVIOUS
  <2>3. x # c
    <3> SUFFICES ASSUME x = c PROVE FALSE
        OBVIOUS
    <3>1. x - c = 0 /\ Bounds!Off(c) \in Nat
          BY <1>1
    <3> QED BY <2>2, <3>1
  <2> DEFINE y == x - 1
  <2>4. y \in Chars /\ c <= y /\ y + 1 = x /\ ~(x <= y)
        BY <1>1, <2>2, <2>3, LineFacts DEF Chars
  <2>5. y \notin T
        BY <2>1, <2>4
  <2>6. Bounds!Off(c) + (y - c) <= Bounds!Off(y)
        BY <2>4, <2>5
  <2>7. Bounds!Off(y) + 1 <= Bounds!Off(x)
        BY <2>2, <2>4, OffNext
  <2>8. y \in Nat /\ x \in Nat /\ c \in Nat /\ Bounds!Off(c) \in Nat /\ Bounds!Off(y) \in Nat /\ Bounds!Off(x) \in Nat
        BY <1>1, <2>2, <2>4
  <2> HIDE DEF T, y
  <2> QED BY <2>2, <2>4, <2>6, <2>7, <2>8
<1>4. d \notin T
      BY <1>3
<1> QED BY <1>4

LEMMA OffOrder ==
    ASSUME LineInv, NEW c \in Chars, NEW d \in Chars
    PROVE  Bounds!Off(c) >= Bounds!Off(d) <=> c >= d
<1>1. c \in Nat /\ d \in Nat /\ Bounds!Off(c) \in Nat /\ Bounds!Off(d) \in Nat
      BY LineFacts, BytesOfFinite
<1>2. CASE c >= d
      BY <1>1, <1>2, OffGrows
<1>3. CASE c < d
  <2>1. Bounds!Off(c) + (d - c) <= Bounds!Off(d)
        BY <1>1, <1>3, OffGrows
  <2> QED BY <1>1, <1>3, <2>1
<1> QED BY <1>1, <1>2, <1>3

LEMMA OneByteAll ==
    ASSUME LineInv, Bounds!OneByteTo(Len(width)), NEW c \in Chars
    PROVE  Bounds!Off(c) = c
<1>1. 0 \in Chars /\ Len(width) \in Chars /\ Len(width) \in Nat /\ c \in Nat /\ c <= Len(width)
      BY LineFacts DEF Chars
<1>2. Bounds!Off(Len(width)) = Len(width)
      BY DEF Bounds!OneByteTo
<1>3. Bounds!Off(c) + (Len(width) - c) <= Bounds!Off(Len(width))
      BY <1>1, OffGrows
<1>4. Bounds!Off(0) + (c - 0) <= Bounds!Off(c)
      BY <1>1, OffGrows
<1>5. Bounds!Off(c) \in Nat /\ Bounds!Off(0) \in Nat
      BY <1>1, BytesOfFinite
<1> QED BY <1>1, <1>2, <1>3, <1>4, <1>5

-----------------------------------------------------------------------------
(***************************************************************************)
(* A chain of matches: the first of the line, and then always the leftmost *)
(* one behind the end of the last.  A chain that cannot be continued is    *)
(* the set of all matches.                                                 *)
(***************************************************************************)
First == Bounds!Leftmost(Bounds!MatchesFrom(0))
After(c) == {d \in Chars : len[d] # -1 /\ d >= c + len[c] /\ d > c}

Chain(S, last) ==
    /\ S \subseteq Chars /\ First \in S /\ last \in S
    /\ \A c \in S : IsMatch(c) /\ c <= last
    /\ \A c \in S : c # last =>
           /\ After(c) # {} /\ Bounds!Leftmost(After(c)) \in S
           /\ \A d \in S : d > c => Bounds!Leftmost(After(c)) <= d

LEMMA LeftmostIs ==
    ASSUME LineInv, NEW T, T \subseteq Chars, T # {}
    PROVE  Bounds!Leftmost(T) \in T /\ \A d \in T : Bounds!Leftmost(T) <= d
<1>1. T \in SUBSET Nat
      BY LineFacts
<1>2. \E x \in T : \A y \in T : x <= y
      BY <1>1, LeastElement
<1> QED BY <1>2 DEF Bounds!Leftmost

LEMMA LeftmostOnly ==
    ASSUME LineInv, NEW T, T \subseteq Chars, NEW x \in T, \A y \in T : x <= y
    PROVE  Bounds!Leftmost(T) = x
<1>1. Bounds!Leftmost(T) \in T /\ Bounds!Leftmost(T) <= x
      BY LeftmostIs
<1>2. \A y \in T : y \in Nat
      BY LineFacts
<1> QED BY <1>1, <1>2

LEMMA FirstIs ==
    ASSUME LineInv
    PROVE  /\ Bounds!MatchesFrom(0) = {c \in Chars : len[c] # -1}
           /\ IsMatch(First) /\ \A c : IsMatch(c) => First <= c
<1>1. Bounds!MatchesFrom(0) = {c \in Chars : len[c] # -1}
  <2>1. \A c \in Chars : Bounds!Off(c) >= 0
        BY BytesOfFinite
  <2> QED BY <2>1 DEF Bounds!MatchesFrom, Bounds!Chars, Chars
<1>2. Bounds!MatchesFrom(0) # {} /\ Bounds!MatchesFrom(0) \subseteq Chars
      BY <1>1 DEF LineInv, IsMatch
<1>3. First \in Bounds!MatchesFrom(0) /\ \A d \in Bounds!MatchesFrom(0) : First <= d
      BY <1>2, LeftmostIs DEF First
<1> QED BY <1>1, <1>3 DEF IsMatch

(* What IsMatchSet says, in the words used here.                           *)
LEMMA MatchSetIs ==
    ASSUME NEW S
    PROVE  Bounds!IsMatchSet(S) <=>
             /\ First \in S /\ \A c \in S : len[c] # -1
             /\ \A c \in S : IF After(c) = {} THEN {d \in S : d > c} = {}
                             ELSE /\ {d \in S : d > c} # {}
                                  /\ Bounds!Leftmost({d \in S : d > c}) = Bounds!Leftmost(After(c))
BY DEF Bounds!IsMatchSet, First, After, Bounds!Chars, Chars

LEMMA ChainEnds ==
    ASSUME LineInv, NEW S, NEW last, Chain(S, last), After(last) = {}
    PROVE  Bounds!IsMatchSet(S)
<1>1. \A c \in S : c \in Nat
      BY LineFacts DEF Chain
<1>2. ASSUME NEW c \in S
      PROVE  IF After(c) = {} THEN {d \in S : d > c} = {}
             ELSE /\ {d \in S : d > c} # {}
                  /\ Bounds!Leftmost({d \in S : d > c}) = Bounds!Leftmost(After(c))
  <2>1. CASE c = last
        BY <1>1, <2>1 DEF Chain
  <2>2. CASE c # last
    <3> DEFINE x == Bounds!Leftmost(After(c))
               T == {d \in S : d > c}
    <3>1. After(c) # {} /\ x \in S /\ \A d \in S : d > c => x <= d
          BY <2>2 DEF Chain
    <3>2. x \in After(c)
      <4>1. After(c) \subseteq Chars
            BY DEF After
      <4> QED BY <3>1, <4>1, LeftmostIs
    <3>3. x > c
          BY <3>2 DEF After
    <3> HIDE DEF x
    <3>4. x \in T /\ T \subseteq Chars /\ \A y \in T : x <= y
          BY <3>1, <3>3 DEF Chain
    <3> HIDE DEF T
    <3>5. Bounds!Leftmost(T) = x
          BY <3>4, LeftmostOnly
    <3> QED BY <3>1, <3>4, <3>5 DEF x, T
  <2> QED BY <2>1, <2>2
<1>3. First \in S /\ \A c \in S : len[c] # -1
      BY DEF Chain, IsMatch
<1> QED BY <1>2, <1>3, MatchSetIs

(* One match set contains every other up to any position, so all are equal.*)
LEMMA NextIsShared ==
    ASSUME LineInv, NEW S, S \subseteq Chars, Bounds!IsMatchSet(S),
           NEW T, T \subseteq Chars, Bounds!IsMatchSet(T),
           NEW x \in S, \A y \in S : y < x => y \in T
    PROVE  x \in T
<1>1. \A c \in S : c \in Nat /\ IsMatch(c)
      BY LineFacts, MatchSetIs DEF IsMatch
<1>2. IsMatch(First) /\ First <= x /\ First \in S /\ First \in T
      BY <1>1, FirstIs, MatchSetIs
<1>3. CASE x = First
      BY <1>2, <1>3
<1>4. CASE x # First
  <2> DEFINE U == {y \in S : y < x}
  <2>1. U \in SUBSET Nat /\ U # {} /\ \A y \in U : y <= x
        BY <1>1, <1>2, <1>4
  <2>2. PICK c \in U : \A y \in U : y <= c
    <3> HIDE DEF U
    <3> QED BY <1>1, <2>1, GreatestBelow
  <2>3. c \in S /\ c \in T /\ c < x /\ c \in Nat
        BY <1>1
  <2> DEFINE A == {d \in S : d > c}
             B == {d \in T : d > c}
  <2>4. x \in A /\ A \subseteq Chars
        BY <1>1, <2>3
  <2>5. \A y \in A : x <= y
    <3> TAKE y \in A
    <3>1. y \in S /\ y > c /\ y \in Nat /\ x \in Nat
          BY <1>1
    <3>2. y \notin U
          BY <2>2, <2>3, <3>1
    <3> QED BY <3>1, <3>2
  <2>6. After(c) # {} /\ Bounds!Leftmost(A) = Bounds!Leftmost(After(c))
        BY <2>3, <2>4, MatchSetIs
  <2>7. B # {} /\ Bounds!Leftmost(B) = Bounds!Leftmost(After(c))
        BY <2>3, <2>6, MatchSetIs
  <2>8. B \subseteq T /\ B \subseteq Chars
        OBVIOUS
  <2> HIDE DEF A, B, U
  <2>9. Bounds!Leftmost(A) = x
        BY <2>4, <2>5, LeftmostOnly
  <2>10. Bounds!Leftmost(B) \in B
        BY <2>7, <2>8, LeftmostIs
  <2> QED BY <2>6, <2>7, <2>8, <2>9, <2>10
<1> QED BY <1>3, <1>4

LEMMA MatchSetUnique ==
    ASSUME LineInv, NEW S, S \subseteq Chars, Bounds!IsMatchSet(S),
           NEW T, T \subseteq Chars, Bounds!IsMatchSet(T)
    PROVE  S = T
<1> DEFINE D == {x \in Chars : (x \in S) # (x \in T)}
<1>1. D \in SUBSET Nat
      BY LineFacts
<1>2. D = {}
  <2> SUFFICES ASSUME D # {} PROVE FALSE
      OBVIOUS
  <2>1. PICK x \in D : \A y \in D : x <= y
    <3> HIDE DEF D
    <3> QED BY <1>1, LeastElement
  <2>2. \A y \in Chars : y < x => (y \in S <=> y \in T)
    <3> TAKE y \in Chars
    <3> HAVE y < x
    <3>1. x \in Nat /\ y \in Nat
          BY <1>1, LineFacts
    <3>2. y \notin D
          BY <2>1, <3>1
    <3> QED BY <3>2
  <2>3. CASE x \in S
    <3>1. x \in T
          BY <2>2, <2>3, NextIsShared
    <3> QED BY <2>1, <2>3, <3>1
  <2>4. CASE x \in T
    <3>1. x \in S
          BY <2>2, <2>4, NextIsShared
    <3> QED BY <2>1, <2>4, <3>1
  <2> QED BY <2>1, <2>3, <2>4
<1> QED BY <1>2

LEMMA ChainIsAll ==
    ASSUME LineInv, NEW S, NEW last, Chain(S, last), After(last) = {}
    PROVE  Bounds!AllMatches = S
<1>1. S \in SUBSET Bounds!Chars /\ Bounds!IsMatchSet(S)
      BY ChainEnds DEF Chain, Bounds!Chars, Chars
<1> DEFINE T == Bounds!AllMatches
<1>2. T \in SUBSET Bounds!Chars /\ Bounds!IsMatchSet(T)
      BY <1>1 DEF Bounds!AllMatches
<1> HIDE DEF T
<1>3. S = T
      BY <1>1, <1>2, MatchSetUnique DEF Bounds!Chars, Chars
<1> QED BY <1>3 DEF T

LEMMA ChainGrows ==
    ASSUME LineInv, NEW S, NEW last, Chain(S, last), After(last) # {},
           NEW x, x = Bounds!Leftmost(After(last))
    PROVE  Chain(S \cup {x}, x) /\ x \notin S /\ x \in After(last) /\ IsMatch(x) /\ x >= last + len[last]
<1>1. x \in After(last)
  <2>1. After(last) \subseteq Chars
        BY DEF After
  <2> QED BY <2>1, LeftmostIs
<1>2. IsMatch(x) /\ x > last /\ x >= last + len[last] /\ x \in Nat
      BY <1>1, LineFacts DEF After, IsMatch
<1>3. \A c \in S : c \in Nat /\ c <= last /\ IsMatch(c)
      BY LineFacts DEF Chain
<1>4. \A c \in S : c < x
      BY <1>2, <1>3 DEF Chain
<1>5. x \notin S
      BY <1>2, <1>4
<1>6. \A c \in S \cup {x} : IsMatch(c) /\ c <= x /\ c \in Chars
      BY <1>2, <1>3, <1>4 DEF IsMatch
<1>7. ASSUME NEW c \in S \cup {x}, c # x
      PROVE  /\ After(c) # {} /\ Bounds!Leftmost(After(c)) \in S \cup {x}
             /\ \A d \in S \cup {x} : d > c => Bounds!Leftmost(After(c)) <= d
  <2>1. CASE c = last
    <3>1. \A d \in S : ~(d > c)
          BY <1>3, <2>1 DEF Chain
    <3> QED BY <1>2, <2>1, <3>1
  <2>2. CASE c # last
    <3> DEFINE y == Bounds!Leftmost(After(c))
    <3>1. c \in S /\ After(c) # {} /\ y \in S /\ \A d \in S : d > c => y <= d
          BY <1>7, <2>2 DEF Chain
    <3>2. y <= x
          BY <1>2, <1>3, <1>4, <3>1
    <3> QED BY <3>1, <3>2
  <2> QED BY <2>1, <2>2
<1> QED BY <1>1, <1>2, <1>5, <1>6, <1>7 DEF Chain

(* Searching from the end of a match finds what is behind it.              *)
LEMMA FromEnd ==
    ASSUME LineInv, NEW last, IsMatch(last), startPos = Bounds!Off(last + len[last])
    PROVE  /\ Bounds!MatchesFrom(startPos) = After(last)
           /\ startPos >= Bounds!LineLen => After(last) = {}
<1> DEFINE e == last + len[last]
<1>1. e \in Chars /\ e \in Nat /\ last \in Nat /\ last < e
      BY LineFacts
<1>2. \A c \in Chars : (Bounds!Off(c) >= Bounds!Off(e) <=> c >= e) /\ c \in Nat
      BY <1>1, OffOrder, LineFacts
<1>3. \A c \in Chars : c >= e => c > last
      BY <1>1, <1>2
<1>4. Bounds!MatchesFrom(startPos) = After(last)
      BY <1>2, <1>3 DEF Bounds!MatchesFrom, Bounds!Chars, Chars, After
<1>5. ASSUME startPos >= Bounds!LineLen, NEW d \in After(last) PROVE FALSE
  <2>1. Len(width) \in Chars /\ Len(width) \in Nat
        BY LineFacts DEF Chars
  <2>2. e >= Len(width)
        BY <1>1, <1>5, <2>1, OffOrder DEF Bounds!LineLen
  <2>3. IsMatch(d) /\ d >= e
        BY DEF After, IsMatch
  <2>4. d \in Nat /\ len[d] \in Nat /\ len[d] > 0 /\ d + len[d] <= Len(width)
        BY <2>3, LineFacts
  <2> QED BY <1>1, <2>1, <2>2, <2>3, <2>4
<1> QED BY <1>4, <1>5

-----------------------------------------------------------------------------
(* The bounds of the matches of a chain, on a line of one-byte characters. *)

BoundSet == [left : Nat, right : Nat]

InBounds(bs, x) == \E j \in 1 .. Len(bs) : bs[j].left <= x /\ x < bs[j].right
InMatches(S, x) == \E c \in S : c <= x /\ x < c + len[c]

BoundsFor(bs, S, last) ==
    /\ \A j \in 1 .. Len(bs) : bs[j].left <= bs[j].right
    /\ \A j \in 1 .. Len(bs) : j > 1 => bs[j - 1].right < bs[j].left
    /\ bs[Len(bs)].right = last + len[last]
    /\ \A x \in Int : InBounds(bs, x) <=> InMatches(S, x)

LEMMA BoundAppended ==
    ASSUME LineInv, NEW S, NEW last, IsMatch(last), NEW bs \in Seq(BoundSet), Len(bs) > 0,
           BoundsFor(bs, S, last), NEW x, IsMatch(x), x >= last + len[last],
           last + len[last] # x
    PROVE  BoundsFor(Append(bs, [left |-> x, right |-> x + len[x]]), S \cup {x}, x)
<1> DEFINE b == [left |-> x, right |-> x + len[x]]
           cs == Append(bs, b)
           n == Len(bs)
<1>1. /\ x \in Nat /\ len[x] \in Nat /\ len[x] > 0 /\ last + len[last] \in Nat /\ last + len[last] < x
      /\ b.left = x /\ b.right = x + len[x]
      BY LineFacts
<1>2. /\ n \in Nat /\ n > 0 /\ Len(cs) = n + 1 /\ cs[n + 1] = b
      /\ \A j \in 1 .. n : cs[j] = bs[j]
      OBVIOUS
<1>3. \A j \in 1 .. (n + 1) : (j \in 1 .. n /\ cs[j] = bs[j]) \/ (j = n + 1 /\ cs[j] = b)
      BY <1>2
<1>4. 1 .. n \subseteq 1 .. (n + 1) /\ n + 1 \in 1 .. (n + 1) /\ (n + 1) - 1 = n /\ n \in 1 .. n
      BY <1>2
<1> HIDE DEF b, cs, n
<1>5. \A j \in 1 .. Len(cs) : cs[j].left <= cs[j].right
      BY <1>1, <1>2, <1>3 DEF BoundsFor, n
<1>6. ASSUME NEW j \in 1 .. Len(cs), j > 1 PROVE cs[j - 1].right < cs[j].left
  <2>1. CASE j \in 1 .. n
    <3>1. j - 1 \in 1 .. n
          BY <1>2, <1>6, <2>1
    <3> QED BY <1>2, <1>6, <2>1, <3>1 DEF BoundsFor, n
  <2>2. CASE j = n + 1
    <3>1. cs[j - 1] = bs[n] /\ cs[j] = b
          BY <1>2, <1>4, <2>2
    <3>2. bs[n].right = last + len[last]
          BY DEF BoundsFor, n
    <3> QED BY <1>1, <3>1, <3>2
  <2> QED BY <1>2, <1>3, <1>6, <2>1, <2>2
<1>7. \A y \in Int : InBounds(cs, y) <=> InMatches(S \cup {x}, y)
  <2> TAKE y \in Int
  <2>1. InBounds(cs, y) <=> InBounds(bs, y) \/ (b.left <= y /\ y < b.right)
        BY <1>2, <1>3, <1>4 DEF InBounds, n
  <2>2. InMatches(S \cup {x}, y) <=> InMatches(S, y) \/ (x <= y /\ y < x + len[x])
        BY DEF InMatches
  <2> QED BY <1>1, <2>1, <2>2 DEF BoundsFor
<1>8. cs[Len(cs)].right = x + len[x]
      BY <1>1, <1>2
<1> QED BY <1>5, <1>6, <1>7, <1>8 DEF BoundsFor, cs, b

LEMMA BoundExtended ==
    ASSUME LineInv, NEW S, NEW last, IsMatch(last), NEW bs \in Seq(BoundSet), Len(bs) > 0,
           BoundsFor(bs, S, last), NEW x, IsMatch(x), last + len[last] = x
    PROVE  BoundsFor([bs EXCEPT ![Len(bs)].right = x + len[x]], S \cup {x}, x)
<1> DEFINE n == Len(bs)
           r == x + len[x]
           cs == [bs EXCEPT ![n].right = r]
<1>1. x \in Nat /\ len[x] \in Nat /\ len[x] > 0 /\ r \in Nat /\ x < r
      BY LineFacts
<1>2. n \in Nat /\ n > 0 /\ n \in 1 .. n /\ \A j \in 1 .. n : bs[j] \in BoundSet
      OBVIOUS
<1>3. /\ Len(cs) = n /\ \A j \in 1 .. n : j # n => cs[j] = bs[j]
      /\ cs[n].left = bs[n].left /\ cs[n].right = r
      BY <1>2 DEF BoundSet
<1>4. bs[n].right = x /\ bs[n].left <= x /\ bs[n].left \in Nat
      BY <1>2 DEF BoundsFor, BoundSet
<1> HIDE DEF cs, n, r
<1>5. \A j \in 1 .. n : cs[j].left = bs[j].left /\ (j # n => cs[j].right = bs[j].right)
      BY <1>3
<1>6. \A j \in 1 .. n : cs[j].left <= cs[j].right
      BY <1>1, <1>3, <1>4, <1>5 DEF BoundsFor, n
<1>7. \A j \in 1 .. n : j > 1 => cs[j - 1].right < cs[j].left
  <2> TAKE j \in 1 .. n
  <2> HAVE j > 1
  <2>1. j - 1 \in 1 .. n /\ j - 1 # n
        BY <1>2
  <2> QED BY <1>5, <2>1 DEF BoundsFor, n
<1>8. \A y \in Int : InBounds(cs, y) <=> InMatches(S \cup {x}, y)
  <2> TAKE y \in Int
  <2>1. InBounds(cs, y) <=> InBounds(bs, y) \/ (x <= y /\ y < r)
    <3>1. \A j \in 1 .. n : j # n =>
             ((cs[j].left <= y /\ y < cs[j].right) <=> (bs[j].left <= y /\ y < bs[j].right))
          BY <1>5
    <3>2. (cs[n].left <= y /\ y < cs[n].right)
             <=> (bs[n].left <= y /\ y < bs[n].right) \/ (x <= y /\ y < r)
          BY <1>1, <1>3, <1>4
    <3> QED BY <1>2, <1>3, <3>1, <3>2 DEF InBounds, n
  <2>2. InMatches(S \cup {x}, y) <=> InMatches(S, y) \/ (x <= y /\ y < r)
        BY DEF InMatches, r
  <2> QED BY <2>1, <2>2 DEF BoundsFor
<1> QED BY <1>3, <1>6, <1>7, <1>8 DEF BoundsFor, cs, r, n

-----------------------------------------------------------------------------
(***************************************************************************)
(* The inductive invariant of try_match.  While the loop runs, the matches *)
(* found are a chain that ends where the search continues; what has been   *)
(* cached or posted without being cut short is exact.                      *)
(***************************************************************************)
OneByteFirst == Bounds!OneByteTo(First + len[First])
OneByteLine == Bounds!OneByteTo(Len(width))

Exact(r) ==
    /\ OneByteFirst => r.num = Bounds!Cardinality(Bounds!AllMatches)
    /\ OneByteLine =>
        /\ \A j \in DOMAIN r.bounds : j > 1 => r.bounds[j - 1].right < r.bounds[j].left
        /\ UNION {r.bounds[j].left .. (r.bounds[j].right - 1) : j \in DOMAIN r.bounds} = Bounds!Covered

Found(S, last) ==
    /\ Chain(S, last) /\ IsFiniteSet(S) /\ num = Cardinality(S)
    /\ startPos = Bounds!Off(last + len[last])
    /\ OneByteLine => BoundsFor(bounds, S, last)

BoundsType ==
    /\ bounds \in Seq(BoundSet) /\ (bounds_pc = "find" => Len(bounds) > 0)
    /\ num \in Nat /\ cut \in BOOLEAN
    /\ cache = <<>> \/ \E e \in [bounds : Seq(BoundSet), num : Nat] : cache = <<e>>
    /\ results \in Seq([bounds : Seq(BoundSet), num : Nat, cut : BOOLEAN])

BoundsInv ==
    /\ LineInv /\ BoundsType
    /\ bounds_pc = "find" /\ ~cut /\ OneByteFirst => \E S, last : Found(S, last)
    /\ bounds_pc = "post" /\ ~cut => Exact([bounds |-> bounds, num |-> num])
    /\ cache # <<>> /\ ~cut => Exact(cache[1])
    /\ \A i \in 1 .. Len(results) : ~results[i].cut => Exact(results[i])

LEMMA OneByteLineFirst == ASSUME LineInv, OneByteLine PROVE OneByteFirst
<1>1. First + len[First] \in Chars
      BY FirstIs, LineFacts
<1> QED BY <1>1, OneByteAll DEF OneByteLine, OneByteFirst, Bounds!OneByteTo

LEMMA BoundsInitially == Bounds!NoEmptyMatch /\ Bounds!Init => BoundsInv
<1> SUFFICES ASSUME Bounds!NoEmptyMatch, Bounds!Init PROVE BoundsInv
    OBVIOUS
<1>1. MaxChars \in Nat /\ Widths \subseteq 1 .. 4 /\ MatchLens \subseteq Nat
      BY Assumptions DEF Bounds!LineBoundsAssumption
<1>2. PICK n \in 1 .. MaxChars : width \in [1 .. n -> Widths] /\ len \in [0 .. n -> MatchLens \cup {-1}]
      BY DEF Bounds!Init
<1>3. n \in Nat
      BY <1>1
<1>4. width \in Seq(1 .. 4) /\ Len(width) = n
  <2>1. width \in [1 .. n -> 1 .. 4]
        BY <1>1, <1>2
  <2> QED BY <1>3, <2>1
<1>5. Chars = 0 .. n /\ Bounds!Chars = Chars
      BY <1>4 DEF Chars, Bounds!Chars
<1>6. len \in [Chars -> Nat \cup {-1}] /\ \A c \in Chars : len[c] # 0
  <2>1. \A c \in Chars : len[c] # 0
        BY <1>5 DEF Bounds!NoEmptyMatch
  <2>2. \A m \in MatchLens \cup {-1} : m \in Nat \cup {-1}
        BY <1>1
  <2> QED BY <1>2, <1>5, <2>1, <2>2
<1>7. \A c \in Chars : c + len[c] <= Len(width)
      BY <1>5 DEF Bounds!Init
<1>8. \E c \in Chars : IsMatch(c)
      BY <1>5 DEF Bounds!Init, Bounds!MatchesFrom, IsMatch
<1>9. LineInv
      BY <1>4, <1>6, <1>7, <1>8 DEF LineInv
<1>10. /\ bounds = <<>> /\ num = 0 /\ cut = FALSE /\ bounds_pc = "idle" /\ cache = <<>> /\ results = <<>>
       BY DEF Bounds!Init
<1>11. BoundsType
  <2>1. bounds \in Seq(BoundSet) /\ results \in Seq([bounds : Seq(BoundSet), num : Nat, cut : BOOLEAN])
        BY <1>10
  <2>2. cut \in BOOLEAN
        BY <1>10
  <2> QED BY <1>10, <2>1, <2>2 DEF BoundsType
<1> QED BY <1>9, <1>10, <1>11 DEF BoundsInv

(* The first bound is a chain of one match.                                *)
LEMMA FirstFound ==
    ASSUME LineInv, NEW b, b = [left |-> First, right |-> First + len[First]]
    PROVE  /\ b \in BoundSet
           /\ Chain({First}, First) /\ IsFiniteSet({First}) /\ Cardinality({First}) = 1
           /\ BoundsFor(<<b>>, {First}, First)
<1>1. IsMatch(First) /\ First \in Nat /\ len[First] \in Nat /\ First + len[First] \in Nat
      BY FirstIs, LineFacts
<1>2. IsFiniteSet({First}) /\ Cardinality({First}) = 1
      BY FS_Singleton
<1>3. Chain({First}, First)
      BY <1>1 DEF Chain, IsMatch
<1>4. b \in BoundSet /\ b.left = First /\ b.right = First + len[First]
      BY <1>1 DEF BoundSet
<1>5. Len(<<b>>) = 1 /\ <<b>>[1] = b /\ 1 .. 1 = {1}
      OBVIOUS
<1> DEFINE bs == <<b>>
<1> HIDE DEF bs
<1>6. Len(bs) = 1 /\ bs[1] = b /\ \A j \in 1 .. Len(bs) : j = 1
      BY <1>5 DEF bs
<1>7. \A x \in Int : InBounds(bs, x) <=> InMatches({First}, x)
      BY <1>4, <1>6 DEF InBounds, InMatches
<1>8. BoundsFor(bs, {First}, First)
  <2>1. \A j \in 1 .. Len(bs) : bs[j].left <= bs[j].right /\ ~(j > 1)
        BY <1>1, <1>4, <1>6
  <2>2. bs[Len(bs)].right = First + len[First]
        BY <1>4, <1>6
  <2> QED BY <1>7, <2>1, <2>2 DEF BoundsFor
<1> QED BY <1>2, <1>3, <1>4, <1>8 DEF bs

(* A chain that ends is exact.                                             *)
LEMMA FoundIsExact ==
    ASSUME LineInv, bounds \in Seq(BoundSet), OneByteFirst => \E S, last : Found(S, last) /\ After(last) = {}
    PROVE  Exact([bounds |-> bounds, num |-> num])
<1> DEFINE r == [bounds |-> bounds, num |-> num]
<1>1. r.bounds = bounds /\ r.num = num /\ DOMAIN bounds = 1 .. Len(bounds)
      OBVIOUS
<1>2. CASE ~OneByteFirst
      BY <1>2, OneByteLineFirst DEF Exact
<1>3. CASE OneByteFirst
  <2>1. PICK S, last : Found(S, last) /\ After(last) = {}
        BY <1>3
  <2>2. Bounds!AllMatches = S
        BY <2>1, ChainIsAll DEF Found
  <2>3. num = Bounds!Cardinality(Bounds!AllMatches)
        BY <2>1, <2>2, BoundsSets DEF Found
  <2>4. ASSUME OneByteLine
        PROVE  /\ \A j \in DOMAIN bounds : j > 1 => bounds[j - 1].right < bounds[j].left
               /\ UNION {bounds[j].left .. (bounds[j].right - 1) : j \in DOMAIN bounds} = Bounds!Covered
    <3>1. BoundsFor(bounds, S, last)
          BY <2>1, <2>4 DEF Found
    <3>2. \A j \in 1 .. Len(bounds) : bounds[j].left \in Nat /\ bounds[j].right \in Nat
      <4>1. \A j \in 1 .. Len(bounds) : bounds[j] \in BoundSet
            OBVIOUS
      <4> QED BY <4>1 DEF BoundSet
    <3>3. \A c \in S : c \in Nat /\ len[c] \in Nat
          BY <2>1, LineFacts DEF Found, Chain
    <3>4. \A x : x \in UNION {bounds[j].left .. (bounds[j].right - 1) : j \in 1 .. Len(bounds)}
                   <=> x \in Int /\ InBounds(bounds, x)
          BY <3>2 DEF InBounds
    <3>5. \A x : x \in UNION {c .. (c + len[c] - 1) : c \in S} <=> x \in Int /\ InMatches(S, x)
          BY <3>3 DEF InMatches
    <3>6. \A x \in Int : InBounds(bounds, x) <=> InMatches(S, x)
          BY <3>1 DEF BoundsFor
    <3>7. UNION {bounds[j].left .. (bounds[j].right - 1) : j \in 1 .. Len(bounds)}
            = UNION {c .. (c + len[c] - 1) : c \in S}
          BY <3>4, <3>5, <3>6
    <3> QED BY <1>1, <2>2, <3>1, <3>7 DEF BoundsFor, Bounds!Covered
  <2> QED BY <1>1, <2>3, <2>4 DEF Exact
<1> QED BY <1>2, <1>3

(***************************************************************************)
(* A step leaves the line alone, and with it all that is said of its       *)
(* matches.                                                                *)
(***************************************************************************)
LineKept == width' = width /\ len' = len

FoundNow(S, last) ==
    /\ Chain(S, last) /\ IsFiniteSet(S) /\ num' = Cardinality(S)
    /\ startPos' = Bounds!Off(last + len[last])
    /\ OneByteLine => BoundsFor(bounds', S, last)

LEMMA LineStays ==
    ASSUME LineKept
    PROVE  /\ LineInv' = LineInv /\ OneByteFirst' = OneByteFirst /\ OneByteLine' = OneByteLine
           /\ Bounds!AllMatches' = Bounds!AllMatches /\ Bounds!Covered' = Bounds!Covered
           /\ \A c : Bounds!Off(c)' = Bounds!Off(c)
           /\ \A S, last : Chain(S, last)' = Chain(S, last)
           /\ \A bs, S, last : BoundsFor(bs, S, last)' = BoundsFor(bs, S, last)
<1>1. width' = width /\ len' = len
      BY DEF LineKept
<1>2. Chars' = Chars /\ Bounds!Chars' = Bounds!Chars /\ \A c : IsMatch(c)' = IsMatch(c)
      BY <1>1 DEF Chars, Bounds!Chars, IsMatch
<1>3. LineInv' = LineInv
      BY <1>1, <1>2 DEF LineInv
<1>4. \A c : Bounds!Off(c)' = Bounds!Off(c)
      BY <1>1 DEF Bounds!Off, Bounds!BytesOf
<1>5. \A p : Bounds!MatchesFrom(p)' = Bounds!MatchesFrom(p)
      BY <1>1, <1>2, <1>4 DEF Bounds!MatchesFrom
<1>6. First' = First
      BY <1>5 DEF First
<1>7. OneByteFirst' = OneByteFirst /\ OneByteLine' = OneByteLine
      BY <1>1, <1>4, <1>6 DEF OneByteFirst, OneByteLine, Bounds!OneByteTo
<1>8. \A c : After(c)' = After(c)
      BY <1>1, <1>2 DEF After
<1>9. \A S, last : Chain(S, last)' = Chain(S, last)
      BY <1>2, <1>6, <1>8 DEF Chain
<1>10. \A bs, S, last : BoundsFor(bs, S, last)' = BoundsFor(bs, S, last)
      BY <1>1 DEF BoundsFor, InBounds, InMatches
<1>11. Bounds!AllMatches' = Bounds!AllMatches
      BY <1>1 DEF Bounds!AllMatches, Bounds!IsMatchSet, Bounds!MatchesFrom, Bounds!Off, Bounds!BytesOf, Bounds!Chars
<1>12. Bounds!Covered' = Bounds!Covered
      BY <1>1, <1>11 DEF Bounds!Covered
<1> QED BY <1>3, <1>4, <1>7, <1>9, <1>10, <1>11, <1>12

LEMMA BoundsFrame ==
    ASSUME BoundsInv, LineKept, BoundsType',
           bounds_pc' = "find" /\ ~cut' /\ OneByteFirst => \E S, last : FoundNow(S, last),
           bounds_pc' = "post" /\ ~cut' => Exact([bounds |-> bounds', num |-> num']),
           cache' # <<>> /\ ~cut' => Exact(cache'[1]),
           \A i \in 1 .. Len(results') : ~results'[i].cut => Exact(results'[i])
    PROVE  BoundsInv'
<1>1. \A r : Exact(r)' = Exact(r)
      BY LineStays DEF Exact
<1>2. \A S, last : FoundNow(S, last) => Found(S, last)'
  <2>1. len' = len
        BY DEF LineKept
  <2> QED BY <2>1, LineStays DEF FoundNow, Found
<1> QED BY <1>1, <1>2, LineStays DEF BoundsInv

LEMMA StoredIsExact ==
    ASSUME BoundsInv, cut' = cut, cache' = cache, results' = results
    PROVE  /\ cache' # <<>> /\ ~cut' => Exact(cache'[1])
           /\ \A i \in 1 .. Len(results') : ~results'[i].cut => Exact(results'[i])
BY DEF BoundsInv

LEMMA TryMatchKeeps ==
    ASSUME BoundsInv, Bounds!TryMatch
    PROVE  BoundsInv'
<1> DEFINE b == [left |-> First, right |-> First + len[First]]
<1>1. LineInv /\ BoundsType
      BY DEF BoundsInv
<1>2. /\ UNCHANGED <<width, len, cut, cache, results>> /\ ~cut
      /\ \/ /\ cache # <<>> /\ bounds' = cache[1].bounds /\ num' = cache[1].num /\ bounds_pc' = "post"
         \/ bounds' = <<b>> /\ num' = 1 /\ startPos' = First + len[First] /\ bounds_pc' = "find"
      BY DEF Bounds!TryMatch, Bounds!Bound, First
<1>3. LineKept
      BY <1>2 DEF LineKept
<1>4. /\ b \in BoundSet /\ Chain({First}, First) /\ IsFiniteSet({First}) /\ Cardinality({First}) = 1
      /\ BoundsFor(<<b>>, {First}, First)
      BY <1>1, FirstFound
<1> HIDE DEF b
<1>5. CASE cache # <<>> /\ bounds' = cache[1].bounds /\ num' = cache[1].num /\ bounds_pc' = "post"
  <2>1. PICK e \in [bounds : Seq(BoundSet), num : Nat] : cache = <<e>>
        BY <1>1, <1>5 DEF BoundsType
  <2>2. cache[1] = e /\ e = [bounds |-> e.bounds, num |-> e.num] /\ e.bounds \in Seq(BoundSet) /\ e.num \in Nat
        BY <2>1
  <2>3. Exact([bounds |-> bounds', num |-> num'])
        BY <1>2, <1>5, <2>2 DEF BoundsInv
  <2>4. BoundsType'
        BY <1>1, <1>2, <1>5, <2>2 DEF BoundsType
  <2> QED BY <1>2, <1>3, <1>5, <2>3, <2>4, BoundsFrame, StoredIsExact
<1>6. CASE bounds' = <<b>> /\ num' = 1 /\ startPos' = First + len[First] /\ bounds_pc' = "find"
  <2>1. BoundsType'
    <3>1. bounds' \in Seq(BoundSet) /\ Len(bounds') > 0 /\ num' \in Nat
          BY <1>4, <1>6
    <3> QED BY <1>1, <1>2, <3>1 DEF BoundsType
  <2>2. OneByteFirst => FoundNow({First}, First)
    <3>1. OneByteFirst => startPos' = Bounds!Off(First + len[First])
          BY <1>6 DEF OneByteFirst, Bounds!OneByteTo
    <3> QED BY <1>4, <1>6, <3>1 DEF FoundNow
  <2> QED BY <1>2, <1>3, <1>6, <2>1, <2>2, BoundsFrame, StoredIsExact
<1> QED BY <1>2, <1>5, <1>6

LEMMA FindNextKeeps ==
    ASSUME BoundsInv, Bounds!FindNext
    PROVE  BoundsInv'
<1> DEFINE x == Bounds!Leftmost(Bounds!MatchesFrom(startPos))
           l == Bounds!Off(x)
           r == Bounds!Off(x + len[x])
           n == Len(bounds)
<1>1. LineInv /\ BoundsType /\ bounds_pc = "find" /\ ~cut
      BY DEF BoundsInv, Bounds!FindNext
<1>2. bounds \in Seq(BoundSet) /\ n \in Nat /\ n > 0 /\ num \in Nat /\ bounds[n] \in BoundSet
      BY <1>1 DEF BoundsType
<1>3. /\ UNCHANGED <<width, len, cut, cache, results, bounds_pc>>
      /\ num' = num + 1 /\ startPos' = r /\ Bounds!MatchesFrom(startPos) # {}
      /\ bounds' = IF bounds[n].right = l
                   THEN [bounds EXCEPT ![n].right = r]
                   ELSE Append(bounds, [left |-> l, right |-> r])
      BY DEF Bounds!FindNext, Bounds!Bound, Bounds!Last
<1>4. LineKept
      BY <1>3 DEF LineKept
<1>5. IsMatch(x)
  <2>1. Bounds!MatchesFrom(startPos) \subseteq Chars
        BY DEF Bounds!MatchesFrom, Bounds!Chars, Chars
  <2>2. x \in Bounds!MatchesFrom(startPos)
        BY <1>1, <1>3, <2>1, LeftmostIs
  <2> QED BY <2>1, <2>2 DEF Bounds!MatchesFrom, IsMatch
<1>6. l \in Nat /\ r \in Nat /\ x \in Chars /\ x + len[x] \in Chars
  <2>1. x \in Chars /\ x + len[x] \in Chars
        BY <1>1, <1>5, LineFacts DEF IsMatch
  <2> QED BY <1>1, <2>1, BytesOfFinite
<1> HIDE DEF x, l, r, n
<1>7. BoundsType'
  <2>1. bounds' \in Seq(BoundSet) /\ Len(bounds') > 0
    <3>1. CASE bounds[n].right = l
      <4>1. [bounds[n] EXCEPT !.right = r] \in BoundSet
            BY <1>2, <1>6 DEF BoundSet
      <4>2. n \in 1 .. Len(bounds)
            BY <1>2 DEF n
      <4>3. bounds' = [bounds EXCEPT ![n] = [bounds[n] EXCEPT !.right = r]]
            BY <1>3, <3>1
      <4> QED BY <1>2, <4>1, <4>2, <4>3 DEF n
    <3>2. CASE bounds[n].right # l
      <4>1. [left |-> l, right |-> r] \in BoundSet
            BY <1>6 DEF BoundSet
      <4> QED BY <1>2, <1>3, <3>2, <4>1
    <3> QED BY <3>1, <3>2
  <2> QED BY <1>1, <1>2, <1>3, <2>1 DEF BoundsType
<1>8. ASSUME OneByteFirst PROVE \E S, last : FoundNow(S, last)
  <2>1. PICK S, last : Found(S, last)
        BY <1>1, <1>8 DEF BoundsInv
  <2>2. /\ Chain(S, last) /\ IsFiniteSet(S) /\ num = Cardinality(S) /\ IsMatch(last)
        /\ startPos = Bounds!Off(last + len[last])
        BY <2>1 DEF Found, Chain
  <2>3. Bounds!MatchesFrom(startPos) = After(last)
        BY <1>1, <2>2, FromEnd
  <2>4. Chain(S \cup {x}, x) /\ x \notin S /\ x >= last + len[last]
        BY <1>1, <1>3, <2>2, <2>3, ChainGrows DEF x
  <2>5. IsFiniteSet(S \cup {x}) /\ Cardinality(S \cup {x}) = num + 1
        BY <2>2, <2>4, FS_AddElement
  <2>6. ASSUME OneByteLine PROVE BoundsFor(bounds', S \cup {x}, x)
    <3>1. l = x /\ r = x + len[x]
          BY <1>1, <1>6, <2>6, OneByteAll DEF OneByteLine, l, r
    <3>2. BoundsFor(bounds, S, last) /\ bounds[n].right = last + len[last]
          BY <2>1, <2>6 DEF Found, BoundsFor, n
    <3>3. CASE last + len[last] = x
      <4>1. bounds' = [bounds EXCEPT ![Len(bounds)].right = x + len[x]]
            BY <1>3, <3>1, <3>2, <3>3 DEF n
      <4> QED BY <1>1, <1>2, <1>5, <2>2, <3>2, <3>3, <4>1, BoundExtended DEF n
    <3>4. CASE last + len[last] # x
      <4>1. bounds' = Append(bounds, [left |-> x, right |-> x + len[x]])
            BY <1>3, <3>1, <3>2, <3>4
      <4> QED BY <1>1, <1>2, <1>5, <2>2, <2>4, <3>2, <3>4, <4>1, BoundAppended DEF n
    <3> QED BY <3>3, <3>4
  <2>7. FoundNow(S \cup {x}, x)
        BY <1>3, <2>4, <2>5, <2>6 DEF FoundNow, r
  <2> QED BY <2>7
<1> QED BY <1>1, <1>3, <1>4, <1>7, <1>8, BoundsFrame, StoredIsExact

LEMMA BoundsNext == BoundsInv /\ Bounds!Next => BoundsInv'
<1> SUFFICES ASSUME BoundsInv, Bounds!Next PROVE BoundsInv'
    OBVIOUS
<1>0. LineInv /\ BoundsType
      BY DEF BoundsInv
<1>1. CASE Bounds!TryMatch
      BY <1>1, TryMatchKeeps
<1>2. CASE Bounds!FindNext
      BY <1>2, FindNextKeeps
<1>3. CASE Bounds!ExitEarly
  <2>1. /\ cut' = TRUE /\ bounds_pc = "find"
        /\ UNCHANGED <<width, len, startPos, bounds, num, bounds_pc, cache, results>>
        BY <1>3 DEF Bounds!ExitEarly
  <2>2. BoundsType'
        BY <1>0, <2>1 DEF BoundsType
  <2>3. LineKept
        BY <2>1 DEF LineKept
  <2>4. \A i \in 1 .. Len(results') : ~results'[i].cut => Exact(results'[i])
        BY <2>1 DEF BoundsInv
  <2> QED BY <2>1, <2>2, <2>3, <2>4, BoundsFrame
<1>4. CASE Bounds!FillCache
  <2> DEFINE e == [bounds |-> bounds, num |-> num]
  <2>1. /\ bounds_pc = "find" /\ (cut \/ startPos >= Bounds!LineLen \/ Bounds!MatchesFrom(startPos) = {})
        /\ cache' = <<e>> /\ bounds_pc' = "post"
        /\ UNCHANGED <<width, len, startPos, bounds, num, cut, results>>
        BY <1>4 DEF Bounds!FillCache
  <2>2. ASSUME ~cut PROVE Exact(e)
    <3>1. ASSUME OneByteFirst PROVE \E S, last : Found(S, last) /\ After(last) = {}
      <4>1. PICK S, last : Found(S, last)
            BY <2>1, <2>2, <3>1 DEF BoundsInv
      <4>2. IsMatch(last) /\ startPos = Bounds!Off(last + len[last])
            BY <4>1 DEF Found, Chain
      <4>3. After(last) = {}
            BY <1>0, <2>1, <2>2, <4>2, FromEnd
      <4> QED BY <4>1, <4>3
    <3> QED BY <1>0, <3>1, FoundIsExact DEF BoundsType
  <2>3. e \in [bounds : Seq(BoundSet), num : Nat] /\ cache'[1] = e
        BY <1>0, <2>1 DEF BoundsType
  <2>4. BoundsType'
        BY <1>0, <2>1, <2>3 DEF BoundsType
  <2>5. LineKept
        BY <2>1 DEF LineKept
  <2>6. \A i \in 1 .. Len(results') : ~results'[i].cut => Exact(results'[i])
        BY <2>1 DEF BoundsInv
  <2>7. [bounds |-> bounds', num |-> num'] = e
        BY <2>1
  <2> HIDE DEF e
  <2> QED BY <2>1, <2>2, <2>3, <2>4, <2>5, <2>6, <2>7, BoundsFrame
<1>5. CASE Bounds!Post
  <2> DEFINE e == [bounds |-> bounds, num |-> num, cut |-> cut]
             n == Len(results)
  <2>1. /\ bounds_pc = "post" /\ bounds_pc' = "idle" /\ results' = Append(results, e)
        /\ UNCHANGED <<width, len, startPos, bounds, num, cut, cache>>
        BY <1>5 DEF Bounds!Post
  <2>2. e \in [bounds : Seq(BoundSet), num : Nat, cut : BOOLEAN] /\ results \in Seq([bounds : Seq(BoundSet), num : Nat, cut : BOOLEAN])
        BY <1>0 DEF BoundsType
  <2>3. e.bounds = bounds /\ e.num = num /\ e.cut = cut
        OBVIOUS
  <2>4. ~e.cut => Exact(e)
    <3>1. ~cut => Exact([bounds |-> bounds, num |-> num])
          BY <2>1 DEF BoundsInv
    <3> QED BY <2>3, <3>1 DEF Exact
  <2> HIDE DEF e
  <2>5. /\ results' \in Seq([bounds : Seq(BoundSet), num : Nat, cut : BOOLEAN]) /\ Len(results') = n + 1
        /\ n \in Nat /\ results'[n + 1] = e /\ \A i \in 1 .. n : results'[i] = results[i]
        BY <2>1, <2>2
  <2>6. BoundsType'
        BY <1>0, <2>1, <2>5 DEF BoundsType
  <2>7. LineKept
        BY <2>1 DEF LineKept
  <2>8. ASSUME NEW i \in 1 .. Len(results'), ~results'[i].cut PROVE Exact(results'[i])
    <3>1. CASE i \in 1 .. n
          BY <2>5, <2>8, <3>1 DEF BoundsInv
    <3>2. CASE i = n + 1
          BY <2>4, <2>5, <2>8, <3>2
    <3> QED BY <2>5, <3>1, <3>2
  <2>9. cache' # <<>> /\ ~cut' => Exact(cache'[1])
        BY <2>1 DEF BoundsInv
  <2> QED BY <2>1, <2>6, <2>7, <2>8, <2>9, BoundsFrame
<1> QED BY <1>1, <1>2, <1>3, <1>4, <1>5 DEF Bounds!Next

LEMMA BoundsStutter == ASSUME BoundsInv, UNCHANGED boundsVars PROVE BoundsInv'
<1>1. /\ UNCHANGED <<width, len, startPos, bounds, num, cut, bounds_pc, cache, results>>
      BY DEF boundsVars
<1>2. LineKept /\ BoundsType'
      BY <1>1 DEF LineKept, BoundsType, BoundsInv
<1>3. \A S, last : Found(S, last) => FoundNow(S, last)
      BY <1>1 DEF Found, FoundNow
<1>4. bounds_pc' = "find" /\ ~cut' /\ OneByteFirst => \E S, last : FoundNow(S, last)
      BY <1>1, <1>3 DEF BoundsInv
<1>5. bounds_pc' = "post" /\ ~cut' => Exact([bounds |-> bounds', num |-> num'])
      BY <1>1 DEF BoundsInv
<1> QED BY <1>1, <1>2, <1>4, <1>5, BoundsFrame, StoredIsExact

(* The line and the expression stay what they are.                         *)
LEMMA EmptyMatchStays ==
    ASSUME Bounds!Next \/ UNCHANGED boundsVars
    PROVE  Bounds!NoEmptyMatch' = Bounds!NoEmptyMatch
<1>1. width' = width /\ len' = len
      BY DEF Bounds!Next, Bounds!TryMatch, Bounds!FindNext, Bounds!ExitEarly, Bounds!FillCache,
             Bounds!Post, boundsVars
<1> QED BY <1>1 DEF Bounds!NoEmptyMatch, Bounds!Chars

(***************************************************************************)
(* find_matches_in_line, for any line where the expression has no empty    *)
(* match: what try_match posts without being cut short,                    *)
(* from the loop or from the cache, counts every match once if the         *)
(* characters up to the end of the first are of one byte, and if all are   *)
(* the bounds are apart and cover the matches and nothing else.            *)
(***************************************************************************)
THEOREM BoundsAreExact == Spec => []BoundsExact
<1> DEFINE Inv == part = "Bounds" /\ Bounds!NoEmptyMatch => BoundsInv
<1>1. Init => Inv
      BY BoundsInitially DEF Init
<1>2. Inv /\ [Next]_all => Inv'
  <2> SUFFICES ASSUME Inv, [Next]_all, part' = "Bounds", Bounds!NoEmptyMatch'
               PROVE  BoundsInv'
      OBVIOUS
  <2>1. CASE BoundsStep(Bounds!Next)
    <3>1. part = "Bounds" /\ Bounds!Next
          BY <2>1 DEF BoundsStep
    <3>2. Bounds!NoEmptyMatch
          BY <3>1, EmptyMatchStays
    <3> QED BY <3>1, <3>2, BoundsNext
  <2>2. CASE BuildStep(Build!Next) \/ ServeStep(Serve!Next)
        BY <2>2 DEF BuildStep, ServeStep
  <2>3. CASE UNCHANGED all
    <3>1. part = "Bounds" /\ UNCHANGED boundsVars
          BY <2>3 DEF all
    <3>2. Bounds!NoEmptyMatch
          BY <3>1, EmptyMatchStays
    <3> QED BY <3>1, <3>2, BoundsStutter
  <2> QED BY <2>1, <2>2, <2>3 DEF Next
<1>3. Inv => BoundsExact
  <2> SUFFICES ASSUME BoundsInv, Bounds!NoEmptyMatch PROVE Bounds!BoundsExact
      BY DEF BoundsExact, Bounds!BoundsExact
  <2>1. DOMAIN results = 1 .. Len(results)
        BY DEF BoundsInv, BoundsType
  <2>2. \A i \in DOMAIN results : ~results[i].cut => Exact(results[i])
        BY <2>1 DEF BoundsInv
  <2> QED BY <2>2 DEF Bounds!BoundsExact, Exact, OneByteFirst, OneByteLine, First
<1> QED BY <1>1, <1>2, <1>3, PTL DEF Spec
================================================================================
