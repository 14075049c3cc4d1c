------------------------------ MODULE FileSend ------------------------------
(***************************************************************************)
(* One file on its way: send_file (core/src/core.cpp), which reads the     *)
(* file chunk by chunk while others may write to it, the arithmetic of     *)
(* core/src/transfer/chunker.cpp, and the receiver's FileReceiveState.     *)
(*                                                                         *)
(* A file is the sequence of its bytes; a checksum is the content it was   *)
(* computed on.  Chunks may overtake each other and come twice             *)
(* (FileReceiveState accepts both), and a message may be lost.             *)
(***************************************************************************)
EXTENDS Integers, Sequences, FiniteSets

CONSTANTS
  ChunkSize,  \* kChunkSizeBytes
  MaxSize,    \* bound on the size of the file
  Bytes,      \* values of a byte
  Hole,       \* the byte a skipped part of the staging file reads as
  MaxEdits,   \* bound on writes to the file while it is sent
  MaxMoves    \* bound on chunks that come twice or overtake another

ASSUME FileSendAssumption ==
  /\ ChunkSize \in Nat \ {0}
  /\ MaxSize \in Nat
  /\ MaxEdits \in Nat
  /\ MaxMoves \in Nat

VARIABLES
  file,     \* the file at the sender
  sending,  \* where send_file is
  offer,    \* total_size_bytes and total_chunks of the FileStart
  next,     \* the chunk send_file reads next
  channel,  \* messages on their way
  state,    \* the receiver: "none", "open", "delivered", "discarded"
  staged,   \* the staging file
  mask,     \* received_mask_
  edits, moves,
  lost      \* history: a message was lost

sender == <<file, sending, offer, next>>
receiver == <<state, staged, mask>>
vars == <<sender, channel, receiver, edits, moves, lost>>

Contents == UNION {[1 .. n -> Bytes] : n \in 0 .. MaxSize}

-----------------------------------------------------------------------------
(* chunker.cpp *)

\* Mutant: the last, partial chunk is not counted.
WholeChunks(size, chunk) == IF size = 0 THEN 1 ELSE size \div chunk

\* total_chunks_for_size: an empty file has one, empty, chunk.
TotalChunks(size, chunk) ==
  IF size = 0 THEN 1 ELSE (size + chunk - 1) \div chunk

AtMost(a, b) == IF a <= b THEN a ELSE b

\* Mutant: the rest of the file.
ReadRest(content, index, chunk) ==
  SubSeq(content, index * chunk + 1, Len(content))

\* read_file_chunk: what the file holds there now, up to its end.
ReadChunk(content, index, chunk) ==
  SubSeq(content, index * chunk + 1, AtMost((index + 1) * chunk, Len(content)))

\* write_chunk: seek, and write over or past what is there.
WriteAt(content, offset, data) ==
  LET end == offset + Len(data)
  IN  IF data = <<>> THEN content
      ELSE [b \in 1 .. (IF end >= Len(content) THEN end ELSE Len(content)) |->
              IF b > offset /\ b <= end THEN data[b - offset]
              ELSE IF b <= Len(content) THEN content[b] ELSE Hole]

-----------------------------------------------------------------------------
Init ==
  /\ file \in Contents
  /\ sending = "idle"
  /\ offer = [size |-> 0, total |-> 0]
  /\ next = 0
  /\ channel = <<>>
  /\ state = "none"
  /\ staged = <<>>
  /\ mask = {}
  /\ edits = 0
  /\ moves = 0
  /\ lost = FALSE

\* send_file: the FileStart, from the size the file has now.
SendStart ==
  /\ sending = "idle"
  /\ offer' = [size |-> Len(file), total |-> TotalChunks(Len(file), ChunkSize)]
  /\ channel' = Append(channel, [type |-> "start", offer |-> offer'])
  /\ sending' = "chunks"
  /\ UNCHANGED <<file, next, receiver, edits, moves, lost>>

\* Mutant: one chunk too many.
SendOneMore ==
  /\ sending = "chunks"
  /\ next <= offer.total
  /\ channel' = Append(channel, [type |-> "chunk", index |-> next,
                                 data |-> ReadChunk(file, next, ChunkSize)])
  /\ next' = next + 1
  /\ UNCHANGED <<file, sending, offer, receiver, edits, moves, lost>>

\* send_file: the next chunk of the loop.
SendChunk ==
  /\ sending = "chunks"
  /\ next < offer.total
  /\ channel' = Append(channel, [type |-> "chunk", index |-> next,
                                 data |-> ReadChunk(file, next, ChunkSize)])
  /\ next' = next + 1
  /\ UNCHANGED <<file, sending, offer, receiver, edits, moves, lost>>

\* send_file: the FileEnd, with the checksum of the file as it is now.
SendEnd ==
  /\ sending = "chunks"
  /\ next = offer.total
  /\ channel' = Append(channel, [type |-> "end", sum |-> file])
  /\ sending' = "done"
  /\ UNCHANGED <<file, offer, next, receiver, edits, moves, lost>>

\* Another program writes to the file.
Edit ==
  /\ sending = "chunks"
  /\ edits < MaxEdits
  /\ edits' = edits + 1
  /\ file' \in Contents \ {file}
  /\ UNCHANGED <<sending, offer, next, channel, receiver, moves, lost>>

\* What handle_file_start asks of an offer before it looks at its tables.
Legitimate(o) ==
  /\ o.size > 0
  /\ o.total = TotalChunks(o.size, ChunkSize)

\* The message that the receiver handles next.
Receive(type) ==
  /\ channel # <<>>
  /\ Head(channel).type = type
  /\ channel' = Tail(channel)
  /\ UNCHANGED <<sender, edits, moves, lost>>

\* handle_file_start; a transfer that is already known is not opened again.
ReceiveStart ==
  /\ Receive("start")
  /\ IF state = "none" /\ Legitimate(Head(channel).offer)
       THEN state' = "open" ELSE state' = state
  /\ UNCHANGED <<staged, mask>>

\* handle_file_chunk and write_chunk.
ReceiveChunk ==
  /\ Receive("chunk")
  /\ LET c == Head(channel)
     IN  IF state = "open" /\ c.index < offer.total
           THEN /\ staged' = WriteAt(staged, c.index * ChunkSize, c.data)
                /\ mask' = mask \union {c.index}
           ELSE UNCHANGED <<staged, mask>>
  /\ UNCHANGED state

\* Mutant: the checksum is not compared.
Filled(sum) == Cardinality(mask) >= offer.total

\* all_received, and the comparison of checksums.
Complete(sum) == Cardinality(mask) >= offer.total /\ staged = sum

\* handle_file_end: all_received, then the checksum.
ReceiveEnd ==
  /\ Receive("end")
  /\ state' = IF state # "open" THEN state
              ELSE IF Complete(Head(channel).sum) THEN "delivered"
              ELSE "discarded"
  /\ UNCHANGED <<staged, mask>>

\* A chunk comes twice.
Repeat(i) ==
  /\ moves < MaxMoves
  /\ channel[i].type = "chunk"
  /\ channel' = SubSeq(channel, 1, i) \o SubSeq(channel, i, Len(channel))
  /\ moves' = moves + 1
  /\ UNCHANGED <<sender, receiver, edits, lost>>

\* A chunk overtakes the one before it.
Overtake(i) ==
  /\ moves < MaxMoves
  /\ i + 1 \in DOMAIN channel
  /\ channel[i].type = "chunk" /\ channel[i + 1].type = "chunk"
  /\ channel' = [channel EXCEPT ![i] = channel[i + 1], ![i + 1] = channel[i]]
  /\ moves' = moves + 1
  /\ UNCHANGED <<sender, receiver, edits, lost>>

\* A connection breaks and takes a message with it.
Lose(i) ==
  /\ ~lost
  /\ lost' = TRUE
  /\ channel' = SubSeq(channel, 1, i - 1) \o SubSeq(channel, i + 1, Len(channel))
  /\ UNCHANGED <<sender, receiver, edits, moves>>

Next ==
  \/ SendStart \/ SendChunk \/ SendEnd
  \/ Edit
  \/ ReceiveStart \/ ReceiveChunk \/ ReceiveEnd
  \/ \E i \in DOMAIN channel : Repeat(i) \/ Overtake(i) \/ Lose(i)

Spec == Init /\ [][Next]_vars

-----------------------------------------------------------------------------
(* Properties *)

\* Types of the variables.
TypeOK ==
  /\ file \in Contents
  /\ sending \in {"idle", "chunks", "done"}
  /\ offer.size \in 0 .. MaxSize
  /\ next \in 0 .. offer.total
  /\ state \in {"none", "open", "delivered", "discarded"}
  /\ staged \in Seq(Bytes \union {Hole})
  /\ mask \subseteq 0 .. (offer.total - 1)
  /\ edits \in 0 .. MaxEdits
  /\ moves \in 0 .. MaxMoves
  /\ lost \in BOOLEAN

\* A file that nobody wrote to while it was sent, and of which no message was
\* lost, arrives byte for byte: the chunks of read_file_chunk cover the file, and
\* write_chunk puts each where it belongs, in whatever order and however often
\* they come.
UnchangedArrives ==
  (sending = "done" /\ channel = <<>> /\ edits = 0 /\ ~lost /\ offer.size > 0)
    => state = "delivered" /\ staged = file

\* A file that changed under send_file arrives as it was when the checksum was
\* computed, or not at all: never as a mixture of what the chunks saw.
NoMixture == state = "delivered" => staged = file

\* However much the file grows while it is sent, the receiver stages no more than
\* the chunks of the offer it accepted: the caps, which count announced sizes, are
\* off by less than a chunk for each file.
WithinOffer ==
  state # "none" => Len(staged) <= offer.total * ChunkSize
=============================================================================
