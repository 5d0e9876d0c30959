------------------------------ MODULE Backend -------------------------------
(***************************************************************************)
(* The index of the backend, checked in one run: how files are indexed and *)
(* chunks finalized, how the bounds of the matches in a line are found,    *)
(* and how a new index file comes to be served. The parts do not share     *)
(* state: an initial state picks the one that runs.                        *)
(***************************************************************************)
EXTENDS Naturals, Sequences

CONSTANTS
  LenOf, Blank, NulText, Inputs, Finalizer, line_limit, chunk_size,
  MaxPieces, compress, MaxFiles, MaxChars, Widths, MatchLens, MaxCalls,
  Modes, Time, MaxGen

VARIABLES
  part,   \* the part that runs
  build_pc, input, at, prev, lines_, pieces, indexed, chunks, queue, closed,
  wpc, wchunk,
  width, len, calls, startPos, bounds, num, cut, bounds_pc, cache, results,
  mode, file, ipc, asked, spc, loaded, promise, watch, event, missed, fpc, quick,
  isUp, info

Build == INSTANCE Indexer WITH pc <- build_pc
Bounds == INSTANCE LineBounds WITH pc <- bounds_pc
Serve == INSTANCE IndexReload

ASSUME Assumptions == Build!IndexerAssumption /\ Bounds!LineBoundsAssumption /\ Serve!IndexReloadAssumption

buildVars == <<build_pc, input, at, prev, lines_, pieces, indexed, chunks,
               queue, closed, wpc, wchunk>>
boundsVars == <<width, len, calls, startPos, bounds, num, cut, bounds_pc,
                cache, results>>
serveVars == <<mode, file, ipc, asked, spc, loaded, promise, watch, event, missed,
               fpc, quick, isUp, info>>
all == <<part, buildVars, boundsVars, serveVars>>

\* the parts that do not run keep still
off == "off"
OffBuild == build_pc = off /\ input = off /\ at = off /\ prev = off /\
            lines_ = off /\ pieces = off /\ indexed = off /\ chunks = off /\
            queue = off /\ closed = off /\ wpc = off /\ wchunk = off
OffBounds == width = off /\ len = off /\ calls = off /\ startPos = off /\
             bounds = off /\ num = off /\ cut = off /\ bounds_pc = off /\
             cache = off /\ results = off
OffServe == mode = off /\ file = off /\ ipc = off /\ asked = off /\
            spc = off /\ loaded = off /\ promise = off /\ watch = off /\
            event = off /\ missed = off /\ fpc = off /\ quick = off /\ isUp = off /\
            info = off

Init ==
  \/ part = "Build" /\ Build!Init /\ OffBounds /\ OffServe
  \/ part = "Bounds" /\ Bounds!Init /\ OffBuild /\ OffServe
  \/ part = "Serve" /\ Serve!Init /\ OffBuild /\ OffBounds

BuildStep(A) ==
  /\ part = "Build" /\ A
  /\ UNCHANGED <<part, boundsVars, serveVars>>
BoundsStep(A) ==
  /\ part = "Bounds" /\ A
  /\ UNCHANGED <<part, buildVars, serveVars>>
ServeStep(A) ==
  /\ part = "Serve" /\ A
  /\ UNCHANGED <<part, buildVars, boundsVars>>

Next ==
  \/ BuildStep(Build!Next)
  \/ BoundsStep(Bounds!Next)
  \/ ServeStep(Serve!Next)

Spec == Init /\ [][Next]_all
        \* the fairness of each part (only one runs, so the parts can share a WF)
        /\ WF_all(\/ BuildStep(Build!Joined)
                  \/ BoundsStep(Bounds!TryMatch \/ Bounds!FindNext \/ Bounds!FillCache \/ Bounds!Post)
                  \/ ServeStep(Serve!ServerStep))
        /\ \A w \in Finalizer : WF_all(BuildStep(Build!FinalizerStep(w)))
        /\ WF_all(ServeStep(Serve!FrontendStep))
        /\ SF_all(ServeStep(Serve!Reload))

-----------------------------------------------------------------------------
\* Indexer: every line of a file is found again in its chunks, lines are looked
\* up in the current chunk only, and every chunk is sorted once.
IndexedWhole ==
  part = "Build" =>
    Build!EveryLineFound /\ Build!LookupsStayInCurrent /\ Build!SortedOnce

\* Indexer.QueuedIsFrozen: a queued chunk is not written to any more.
QueuedIsFrozen == [][part = "Build" => Build!FrozenStep]_all

\* LineBounds.BoundsExact: the bounds posted are the matches of the line.
BoundsExact == part = "Bounds" => Bounds!BoundsExact

\* IndexReload: after a Reload the server serves that file or a newer one, it
\* comes to serve a file that was announced, ends on the one that is there unless
\* its watch came too late for it, and the frontend on its description.
IndexFollows ==
  /\ [](part = "Serve" => Serve!ReloadHonoured)
  /\ \A g \in 1 .. MaxGen :
       (part = "Serve" /\ Serve!Announced(g)) ~> (part = "Serve" /\ Serve!Serves(g))
  /\ <>[](part = "Serve" => Serve!ServesFile /\ Serve!Described)

\* Indexer.FinalizeReturns and LineBounds.EveryCallPosts: finalize() returns and
\* so does the search for the matches of a line, unless it stands at an empty
\* match before the end of the line.
CallsReturn ==
  (\/ part = "Build" /\ build_pc = "join"
   \/ part = "Bounds" /\ bounds_pc = "find")
    ~> (\/ part = "Build" /\ build_pc = "final"
        \/ part = "Bounds" /\ (bounds_pc = "post" \/ Bounds!AtEmptyMatch))
=============================================================================
