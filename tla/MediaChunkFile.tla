--------------------------- MODULE MediaChunkFile ---------------------------
(***************************************************************************)
(* The capture file of a call: chunks are queued in memory and written in  *)
(* batches while the call lasts, and read back one by one afterwards.  A   *)
(* chunk is a number; every chunk counts 1 toward the size of a batch.     *)
(***************************************************************************)
EXTENDS Naturals, Sequences, SequencesExt

CONSTANT BatchSize         \* CaptureFileBatchSizeKByte, in chunks

ASSUME BatchBound == BatchSize \in Nat

\* The stream accepts nothing more once it is bad.  torn is what follows the
\* last whole chunk on disk: nothing, a piece of a header, or a header and a
\* piece of its data.
NewFile ==
  [open |-> TRUE, queue |-> << >>, dataSize |-> 0, disk |-> << >>, bad |-> FALSE,
   torn |-> "no"]

\* Slip: a chunk stays in the queue when it is written.
FlushedTwice(f) ==
  {[f EXCEPT !.disk = IF f.bad THEN @ ELSE @ \o f.queue, !.dataSize = 0]}

\* A flush whose stream fails at a chunk, which is dropped and ends the loop;
\* what the stream held back by then is lost.
FailedFlush(f, at, kept, piece) ==
  [f EXCEPT !.queue = SubSeq(@, at + 1, Len(@)), !.dataSize = 0, !.bad = TRUE,
            !.disk = SubSeq(@ \o f.queue, 1, kept), !.torn = piece]

\* What FlushToDisk can leave: all is written, or the stream fails and some
\* beginning of the file is on disk; a bad stream takes nothing.
FlushToDisk(f) ==
  IF f.bad
  THEN {[f EXCEPT !.queue = IF @ = << >> THEN @ ELSE Tail(@), !.dataSize = 0]}
  ELSE {[f EXCEPT !.queue = << >>, !.dataSize = 0, !.disk = @ \o f.queue]}
       \cup {FailedFlush(f, at, kept, piece) :
               at \in 1..Len(f.queue), kept \in 0..(Len(f.disk) + Len(f.queue) - 1),
               piece \in {"no", "header", "data"}}

\* WriteChunk: the chunk is queued; a batch that exceeds its size is written.
\* An error is thrown to AudioTape::Write, which counts it and goes on.
WriteChunk(f, chunk) ==
  LET queued == [f EXCEPT !.queue = Append(@, chunk), !.dataSize = @ + 1] IN
    IF queued.dataSize > BatchSize THEN FlushToDisk(queued) ELSE {queued}

\* Close reports no error of its last flush.
Close(f) == {[g EXCEPT !.open = FALSE] : g \in FlushToDisk(f)}

\* ReadChunkMono after n chunks: the next one, the end of the file, which a torn
\* header is taken for, or an exception for a chunk without all its data.
ReadChunkMono(f, n) ==
  IF n < Len(f.disk) THEN "chunk"
  ELSE IF f.torn = "data" THEN "incomplete" ELSE "end"
=============================================================================
