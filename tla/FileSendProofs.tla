--------------------------- MODULE FileSendProofs ---------------------------
(***************************************************************************)
(* Proofs about FileSend, for files and chunks of every size, any number   *)
(* of writes to the file and any number of chunks that come twice or       *)
(* overtake each other.                                                    *)
(***************************************************************************)
EXTENDS FileSend, FiniteSetTheorems, TLAPS

-----------------------------------------------------------------------------
(* The arithmetic of chunker.cpp *)

LEMMA Division ==
  ASSUME NEW a \in Nat, NEW c \in Nat \ {0}
  PROVE  /\ a \div c \in Nat
         /\ c * (a \div c) <= a
         /\ a < c * (a \div c) + c
OBVIOUS

\* Chunks in order: a later one begins where the one before ends, or after it.
LEMMA Places ==
  ASSUME NEW i \in Nat, NEW n \in Nat, NEW c \in Nat, i < n
  PROVE  /\ i * c \in Nat /\ (i + 1) * c = i * c + c
         /\ n * c \in Nat /\ (i + 1) * c <= n * c
OBVIOUS

\* total_chunks_for_size: the last chunk is not empty, and no byte comes after it.
LEMMA TotalIsEnough ==
  ASSUME NEW size \in Nat, NEW c \in Nat \ {0}
  PROVE  /\ TotalChunks(size, c) \in Nat \ {0}
         /\ size <= TotalChunks(size, c) * c
         /\ size > 0 => (TotalChunks(size, c) - 1) * c < size
<1>1. CASE size = 0
  BY <1>1 DEF TotalChunks
<1>2. CASE size > 0
  <2> DEFINE t == (size + c - 1) \div c
  <2>1. size + c - 1 \in Nat
    BY <1>2
  <2>2. t \in Nat /\ c * t <= size + c - 1 /\ size + c - 1 < c * t + c
    BY <2>1, Division
  <2>3. TotalChunks(size, c) = t
    BY <1>2 DEF TotalChunks
  <2> HIDE DEF t
  <2>4. t * c = c * t /\ (t - 1) * c = c * t - c /\ c * t \in Nat
    BY <2>2
  <2>5. size <= t * c /\ (t - 1) * c < size
    BY <2>2, <2>4
  <2>6. t # 0
    BY <1>2, <2>5
  <2> QED
    BY <2>2, <2>3, <2>5, <2>6
<1> QED
  BY <1>1, <1>2

\* Every byte of the file lies in one of its chunks.
LEMMA ByteHasChunk ==
  ASSUME NEW size \in Nat, NEW c \in Nat \ {0}, NEW b \in 1 .. size
  PROVE  \E k \in 0 .. (TotalChunks(size, c) - 1) : k * c < b /\ b <= (k + 1) * c
<1> DEFINE k == (b - 1) \div c
           t == TotalChunks(size, c)
<1>1. b - 1 \in Nat
  OBVIOUS
<1>2. k \in Nat /\ c * k <= b - 1 /\ b - 1 < c * k + c
  BY <1>1, Division
<1>3. t \in Nat /\ size <= t * c
  BY TotalIsEnough
<1> HIDE DEF k, t
<1>4. c * k = k * c /\ (k + 1) * c = k * c + c /\ k * c \in Nat
  BY <1>2
<1>5. k < t
  <2>1. SUFFICES ASSUME t <= k PROVE FALSE
    BY <1>2, <1>3
  <2>2. t * c <= k * c
    BY <1>2, <1>3, <2>1
  <2> QED
    BY <1>2, <1>3, <1>4, <2>2
<1>6. k \in 0 .. (t - 1)
  BY <1>2, <1>3, <1>5
<1> QED
  BY <1>2, <1>4, <1>6 DEF t

\* read_file_chunk: at most a chunk, of the bytes at its place.
LEMMA ChunkRead ==
  ASSUME NEW S, NEW content \in Seq(S), NEW i \in Nat, NEW c \in Nat \ {0}
  PROVE  /\ ReadChunk(content, i, c) \in Seq(S)
         /\ Len(ReadChunk(content, i, c)) <= c
         /\ \A j \in 1 .. Len(ReadChunk(content, i, c)) :
              /\ i * c + j \in 1 .. Len(content)
              /\ ReadChunk(content, i, c)[j] = content[i * c + j]
         /\ \A b \in 1 .. Len(content) :
              (i * c < b /\ b <= (i + 1) * c) =>
                b - i * c \in 1 .. Len(ReadChunk(content, i, c))
<1> DEFINE o == i * c
           e == AtMost((i + 1) * c, Len(content))
<1>1. o \in Nat /\ (i + 1) * c = o + c
  OBVIOUS
<1>2. e \in Nat /\ e <= o + c /\ e <= Len(content) /\ (e = o + c \/ e = Len(content))
  BY <1>1 DEF AtMost
<1>3. ReadChunk(content, i, c) = SubSeq(content, o + 1, e)
  BY DEF ReadChunk
<1> HIDE DEF o, e
<1>4. SubSeq(content, o + 1, e) \in Seq(S)
  BY <1>1, <1>2
<1>5. Len(SubSeq(content, o + 1, e)) = IF o + 1 <= e THEN e - o ELSE 0
  BY <1>1, <1>2
<1>6. \A j \in 1 .. Len(SubSeq(content, o + 1, e)) :
        SubSeq(content, o + 1, e)[j] = content[o + j]
  BY <1>1, <1>2, <1>5
<1> QED
  BY <1>1, <1>2, <1>3, <1>4, <1>5, <1>6 DEF o

\* write_chunk: the bytes of the chunk at their place, the others as they were.
LEMMA ChunkWritten ==
  ASSUME NEW S, Hole \in S, NEW content \in Seq(S), NEW o \in Nat, NEW data \in Seq(S)
  PROVE  /\ WriteAt(content, o, data) \in Seq(S)
         /\ Len(WriteAt(content, o, data)) =
              IF data # <<>> /\ o + Len(data) > Len(content) THEN o + Len(data)
                                                             ELSE Len(content)
         /\ \A b \in 1 .. Len(WriteAt(content, o, data)) :
              WriteAt(content, o, data)[b] =
                IF b > o /\ b <= o + Len(data) THEN data[b - o]
                ELSE IF b <= Len(content) THEN content[b] ELSE Hole
<1>1. CASE data = <<>>
  BY <1>1 DEF WriteAt
<1>2. CASE data # <<>>
  <2> DEFINE end == o + Len(data)
             n == IF end >= Len(content) THEN end ELSE Len(content)
             f == [b \in 1 .. n |->
                     IF b > o /\ b <= end THEN data[b - o]
                     ELSE IF b <= Len(content) THEN content[b] ELSE Hole]
  <2>1. WriteAt(content, o, data) = f
    BY <1>2 DEF WriteAt
  <2>2. n \in Nat /\ Len(data) \in Nat /\ Len(content) \in Nat
    OBVIOUS
  <2>3. \A b \in 1 .. n : f[b] \in S
    OBVIOUS
  <2>4. f \in Seq(S) /\ Len(f) = n
    BY <2>2, <2>3
  <2> QED
    BY <1>2, <2>1, <2>2, <2>4
<1> QED
  BY <1>1, <1>2

-----------------------------------------------------------------------------
(* The invariant *)

Offers == [size : 0 .. MaxSize, total : Nat]
Packets ==
  [type : {"start"}, offer : Offers]
    \union [type : {"chunk"}, index : Nat, data : Seq(Bytes)]
    \union [type : {"end"}, sum : Contents]

Types == TypeOK /\ offer \in Offers /\ channel \in Seq(Packets)

\* How far send_file is.
Sender ==
  /\ sending = "idle" =>
       channel = <<>> /\ state = "none" /\ next = 0 /\ edits = 0 /\ offer.total = 0
  /\ sending # "idle" =>
       /\ offer.total = TotalChunks(offer.size, ChunkSize)
       /\ edits = 0 => Len(file) = offer.size
  /\ sending = "done" => next = offer.total
  /\ state # "none" => offer.size > 0 /\ sending # "idle"

\* What a message on its way says, and what it waits behind: the start is the first,
\* the end the last.
InOrder(i) ==
  /\ channel[i].type = "start" => i = 1 /\ channel[i].offer = offer /\ state = "none"
  /\ channel[i].type = "chunk" =>
       /\ channel[i].index < next
       /\ Len(channel[i].data) <= ChunkSize
       /\ edits = 0 => channel[i].data = ReadChunk(file, channel[i].index, ChunkSize)
  /\ channel[i].type = "end" =>
       /\ i = Len(channel) /\ channel[i].sum = file
       /\ sending = "done" /\ state \in {"none", "open"}
AllInOrder == \A i \in DOMAIN channel : InOrder(i)

\* The bytes of chunk k are staged.
IsStaged(k) ==
  \A b \in 1 .. Len(file) :
    (k * ChunkSize < b /\ b <= (k + 1) * ChunkSize) =>
      b <= Len(staged) /\ staged[b] = file[b]

\* What the receiver has staged.
Receiver ==
  /\ state = "none" => staged = <<>> /\ mask = {}
  /\ Len(staged) <= offer.total * ChunkSize
  /\ edits = 0 => Len(staged) <= Len(file) /\ \A k \in mask : IsStaged(k)
  /\ state = "delivered" => staged = file
  /\ state \in {"delivered", "discarded"} => sending = "done"

OnItsWay(type) == \E i \in DOMAIN channel : channel[i].type = type
ChunkOnItsWay(k) ==
  \E i \in DOMAIN channel : channel[i].type = "chunk" /\ channel[i].index = k

\* As long as nothing is lost, every message is on its way or handled.
NothingMissing ==
  (~lost /\ sending # "idle" /\ offer.size > 0) =>
    /\ state = "none" => OnItsWay("start")
    /\ state \in {"none", "open"} =>
         /\ \A k \in 0 .. (next - 1) : k \in mask \/ ChunkOnItsWay(k)
         /\ sending = "done" => OnItsWay("end")
    /\ edits = 0 => state # "discarded"

TransferInv == Types /\ Sender /\ AllInOrder /\ Receiver /\ NothingMissing

-----------------------------------------------------------------------------
(* What an action does to the messages on their way *)

LEMMA ContentSize ==
  ASSUME NEW c \in Contents
  PROVE  c \in Seq(Bytes) /\ Len(c) \in 0 .. MaxSize
<1>1. PICK n \in 0 .. MaxSize : c \in [1 .. n -> Bytes]
  BY DEF Contents
<1>2. n \in Nat
  BY FileSendAssumption
<1>3. c \in Seq(Bytes) /\ Len(c) = n
  BY <1>1, <1>2
<1> QED
  BY <1>1, <1>3

LEMMA Sent ==
  ASSUME NEW S, NEW s \in Seq(S), NEW m \in S
  PROVE  /\ Append(s, m) \in Seq(S)
         /\ Len(Append(s, m)) = Len(s) + 1
         /\ Append(s, m)[Len(s) + 1] = m
         /\ \A j \in 1 .. Len(s) : Append(s, m)[j] = s[j]
OBVIOUS

LEMMA Taken ==
  ASSUME NEW S, NEW s \in Seq(S), s # <<>>
  PROVE  /\ Tail(s) \in Seq(S)
         /\ 1 \in 1 .. Len(s) /\ Head(s) = s[1]
         /\ Len(Tail(s)) = Len(s) - 1
         /\ \A j \in 1 .. Len(Tail(s)) : j + 1 \in 1 .. Len(s) /\ Tail(s)[j] = s[j + 1]
         /\ \A j \in 2 .. Len(s) : j - 1 \in 1 .. Len(Tail(s)) /\ Tail(s)[j - 1] = s[j]
OBVIOUS

LEMMA Joined ==
  ASSUME NEW S, NEW s \in Seq(S), NEW t \in Seq(S)
  PROVE  /\ s \o t \in Seq(S) /\ Len(s \o t) = Len(s) + Len(t)
         /\ \A j \in 1 .. Len(s \o t) :
              (s \o t)[j] = IF j <= Len(s) THEN s[j] ELSE t[j - Len(s)]
OBVIOUS

LEMMA Repeated ==
  ASSUME NEW S, NEW s \in Seq(S), NEW i \in 1 .. Len(s)
  PROVE  LET r == SubSeq(s, 1, i) \o SubSeq(s, i, Len(s))
         IN  /\ r \in Seq(S) /\ Len(r) = Len(s) + 1
             /\ \A j \in 1 .. Len(r) : r[j] = IF j <= i THEN s[j] ELSE s[j - 1]
<1> DEFINE a == SubSeq(s, 1, i)
           z == SubSeq(s, i, Len(s))
<1>1. a \in Seq(S) /\ Len(a) = i /\ \A j \in 1 .. i : a[j] = s[j]
  OBVIOUS
<1>2. z \in Seq(S) /\ Len(z) = Len(s) - i + 1
      /\ \A j \in 1 .. Len(z) : z[j] = s[i + j - 1]
  OBVIOUS
<1> HIDE DEF a, z
<1>3. /\ a \o z \in Seq(S) /\ Len(a \o z) = Len(a) + Len(z)
      /\ \A j \in 1 .. Len(a \o z) :
           (a \o z)[j] = IF j <= Len(a) THEN a[j] ELSE z[j - Len(a)]
  BY <1>1, <1>2, Joined
<1>4. \A j \in 1 .. Len(a \o z) : j > i => (a \o z)[j] = s[j - 1]
  BY <1>1, <1>2, <1>3
<1>5. \A j \in 1 .. Len(a \o z) : j <= i => (a \o z)[j] = s[j]
  BY <1>1, <1>2, <1>3
<1>6. /\ a \o z \in Seq(S) /\ Len(a \o z) = Len(s) + 1
      /\ \A j \in 1 .. Len(a \o z) : (a \o z)[j] = IF j <= i THEN s[j] ELSE s[j - 1]
  BY <1>1, <1>2, <1>3, <1>4, <1>5
<1> QED
  BY <1>6 DEF a, z

LEMMA Removed ==
  ASSUME NEW S, NEW s \in Seq(S), NEW i \in 1 .. Len(s)
  PROVE  LET r == SubSeq(s, 1, i - 1) \o SubSeq(s, i + 1, Len(s))
         IN  /\ r \in Seq(S) /\ Len(r) = Len(s) - 1
             /\ \A j \in 1 .. Len(r) : r[j] = IF j < i THEN s[j] ELSE s[j + 1]
<1> DEFINE a == SubSeq(s, 1, i - 1)
           z == SubSeq(s, i + 1, Len(s))
<1>1. a \in Seq(S) /\ Len(a) = i - 1 /\ \A j \in 1 .. (i - 1) : a[j] = s[j]
  OBVIOUS
<1>2. z \in Seq(S) /\ Len(z) = Len(s) - i
      /\ \A j \in 1 .. Len(z) : z[j] = s[i + j]
  OBVIOUS
<1> HIDE DEF a, z
<1>3. /\ a \o z \in Seq(S) /\ Len(a \o z) = Len(a) + Len(z)
      /\ \A j \in 1 .. Len(a \o z) :
           (a \o z)[j] = IF j <= Len(a) THEN a[j] ELSE z[j - Len(a)]
  BY <1>1, <1>2, Joined
<1>4. \A j \in 1 .. Len(a \o z) : j >= i => (a \o z)[j] = s[j + 1]
  BY <1>1, <1>2, <1>3
<1>5. \A j \in 1 .. Len(a \o z) : j < i => (a \o z)[j] = s[j]
  BY <1>1, <1>2, <1>3
<1>6. /\ a \o z \in Seq(S) /\ Len(a \o z) = Len(s) - 1
      /\ \A j \in 1 .. Len(a \o z) : (a \o z)[j] = IF j < i THEN s[j] ELSE s[j + 1]
  BY <1>1, <1>2, <1>3, <1>4, <1>5
<1> QED
  BY <1>6 DEF a, z

LEMMA Swapped ==
  ASSUME NEW S, NEW s \in Seq(S), NEW i \in 1 .. Len(s), i + 1 \in 1 .. Len(s)
  PROVE  LET r == [s EXCEPT ![i] = s[i + 1], ![i + 1] = s[i]]
         IN  /\ r \in Seq(S) /\ Len(r) = Len(s)
             /\ \A j \in 1 .. Len(r) :
                  r[j] = IF j = i THEN s[i + 1] ELSE IF j = i + 1 THEN s[i] ELSE s[j]
OBVIOUS

-----------------------------------------------------------------------------
(* Every action keeps the invariant *)

\* What the channel holds: the fields of a message, by its type.
LEMMA PacketFields ==
  ASSUME NEW p \in Packets
  PROVE  /\ p.type \in {"start", "chunk", "end"}
         /\ p.type = "start" => p.offer \in Offers
         /\ p.type = "chunk" => p.index \in Nat /\ p.data \in Seq(Bytes)
         /\ p.type = "end" => p.sum \in Contents
BY DEF Packets

LEMMA SmallFacts ==
  ASSUME TransferInv
  PROVE  /\ ChunkSize \in Nat \ {0}
         /\ offer.total \in Nat /\ offer.size \in Nat /\ next \in Nat
         /\ file \in Seq(Bytes)
         /\ \A i \in 1 .. Len(channel) : channel[i] \in Packets
BY FileSendAssumption, ContentSize DEF TransferInv, Types, TypeOK, Offers

LEMMA InitInv == Init => TransferInv
<1> SUFFICES ASSUME Init PROVE TransferInv
  OBVIOUS
<1>1. file \in Seq(Bytes) /\ ChunkSize \in Nat
  BY ContentSize, FileSendAssumption DEF Init
<1>2. Types
  <2>1. TypeOK
    <3>1. staged \in Seq(Bytes \union {Hole}) /\ mask \subseteq 0 .. (offer.total - 1)
      BY DEF Init
    <3>2. offer.size \in 0 .. MaxSize /\ next \in 0 .. offer.total
      BY FileSendAssumption DEF Init
    <3>3. edits \in 0 .. MaxEdits /\ moves \in 0 .. MaxMoves
      BY FileSendAssumption DEF Init
    <3>4. lost \in BOOLEAN
      BY DEF Init
    <3>5. /\ file \in Contents /\ sending \in {"idle", "chunks", "done"}
          /\ state \in {"none", "open", "delivered", "discarded"}
      BY DEF Init
    <3> QED
      BY <3>1, <3>2, <3>3, <3>4, <3>5 DEF TypeOK
  <2>2. offer \in Offers
    BY FileSendAssumption DEF Init, Offers
  <2>3. channel \in Seq(Packets)
    BY DEF Init
  <2> QED
    BY <2>1, <2>2, <2>3 DEF Types
<1>3. Sender /\ AllInOrder /\ NothingMissing
  BY FileSendAssumption DEF Init, Sender, AllInOrder, NothingMissing
<1>4. Receiver
  BY <1>1 DEF Init, Receiver
<1> QED
  BY <1>2, <1>3, <1>4 DEF TransferInv

LEMMA SendStartStep == TransferInv /\ SendStart => TransferInv'
<1> SUFFICES ASSUME TransferInv, SendStart PROVE TransferInv'
  OBVIOUS
<1> USE SmallFacts DEF SendStart, receiver
<1>1. Len(file) \in 0 .. MaxSize /\ TotalChunks(Len(file), ChunkSize) \in Nat \ {0}
  <2>1. Len(file) \in 0 .. MaxSize /\ Len(file) \in Nat
    BY ContentSize DEF TransferInv, Types, TypeOK
  <2> QED
    BY <2>1, TotalIsEnough
<1>2. /\ channel = <<>> /\ state = "none" /\ next = 0 /\ edits = 0
      /\ staged = <<>> /\ mask = {}
  BY DEF TransferInv, Sender, Receiver
<1> DEFINE p == [type |-> "start", offer |-> offer']
<1>3. offer' \in Offers /\ offer'.size = Len(file)
      /\ offer'.total = TotalChunks(Len(file), ChunkSize)
  BY <1>1 DEF Offers
<1>4. p \in Packets
  BY <1>3 DEF Packets
<1>5. channel' \in Seq(Packets) /\ Len(channel') = 1 /\ channel'[1] = p
  BY <1>2, <1>4, Sent DEF TransferInv, Types
<1>6. Types'
  BY <1>1, <1>2, <1>3, <1>5 DEF TransferInv, Types, TypeOK
<1>7. Sender'
  BY <1>2, <1>3 DEF TransferInv, Sender
<1>8. AllInOrder'
  BY <1>2, <1>3, <1>5 DEF AllInOrder, InOrder
<1>9. Receiver'
  BY <1>2, <1>3, <1>1 DEF TransferInv, Receiver
<1>10. NothingMissing'
  BY <1>2, <1>5 DEF NothingMissing, OnItsWay
<1> QED
  BY <1>6, <1>7, <1>8, <1>9, <1>10 DEF TransferInv

LEMMA SendChunkStep == TransferInv /\ SendChunk => TransferInv'
<1> SUFFICES ASSUME TransferInv, SendChunk PROVE TransferInv'
  OBVIOUS
<1> USE SmallFacts DEF SendChunk, receiver
<1> DEFINE d == ReadChunk(file, next, ChunkSize)
           p == [type |-> "chunk", index |-> next, data |-> d]
<1>1. d \in Seq(Bytes) /\ Len(d) <= ChunkSize
  BY ChunkRead
<1>2. p \in Packets
  BY <1>1 DEF Packets
<1> HIDE DEF d
<1>3. /\ channel' \in Seq(Packets) /\ Len(channel') = Len(channel) + 1
      /\ channel'[Len(channel) + 1] = p
      /\ \A j \in 1 .. Len(channel) : channel'[j] = channel[j]
  BY <1>2, Sent DEF TransferInv, Types, d
<1>4. Types'
  BY <1>3 DEF TransferInv, Types, TypeOK
<1>5. Sender'
  BY DEF TransferInv, Sender
<1>6. AllInOrder'
  <2> SUFFICES ASSUME NEW i \in 1 .. Len(channel') PROVE InOrder(i)'
    BY <1>3 DEF AllInOrder
  <2>1. CASE i = Len(channel) + 1
    BY <1>1, <1>3, <2>1 DEF InOrder, d
  <2>2. CASE i \in 1 .. Len(channel)
    <3>1. InOrder(i) /\ channel'[i] = channel[i] /\ channel[i].type # "end"
      BY <1>3, <2>2 DEF TransferInv, AllInOrder, InOrder
    <3>2. channel[i].type = "chunk" => channel[i].index \in Nat
      BY <2>2, PacketFields
    <3> QED
      BY <3>1, <3>2 DEF InOrder
  <2> QED
    BY <1>3, <2>1, <2>2
<1>7. Receiver'
  BY DEF TransferInv, Receiver, IsStaged
<1>8. /\ \A type : OnItsWay(type) => OnItsWay(type)'
      /\ \A k : ChunkOnItsWay(k) => ChunkOnItsWay(k)'
  <2>1. DOMAIN channel = 1 .. Len(channel) /\ Len(channel) \in Nat
    BY DEF TransferInv, Types
  <2>2. DOMAIN channel' = 1 .. (Len(channel) + 1)
    BY <1>3
  <2> QED
    BY <1>3, <2>1, <2>2 DEF OnItsWay, ChunkOnItsWay
<1>9. NothingMissing'
  <2> SUFFICES ASSUME ~lost, offer.size > 0
               PROVE  NothingMissing'
    BY DEF NothingMissing
  <2>1. state = "none" => OnItsWay("start")'
    <3>1. state = "none" => OnItsWay("start")
      BY DEF TransferInv, NothingMissing
    <3> QED
      BY <1>8, <3>1
  <2>2. ASSUME NEW k \in 0 .. (next' - 1), state \in {"none", "open"}
        PROVE  k \in mask \/ ChunkOnItsWay(k)'
    <3>1. CASE k = next
      BY <1>3, <3>1 DEF ChunkOnItsWay
    <3>2. CASE k \in 0 .. (next - 1)
      <4>1. k \in mask \/ ChunkOnItsWay(k)
        BY <2>2, <3>2 DEF TransferInv, NothingMissing
      <4> QED
        BY <1>8, <4>1
    <3> QED
      BY <3>1, <3>2
  <2>3. edits = 0 => state # "discarded"
    BY DEF TransferInv, NothingMissing
  <2> QED
    BY <2>1, <2>2, <2>3 DEF NothingMissing
<1> QED
  BY <1>4, <1>5, <1>6, <1>7, <1>9 DEF TransferInv

LEMMA SendEndStep == TransferInv /\ SendEnd => TransferInv'
<1> SUFFICES ASSUME TransferInv, SendEnd PROVE TransferInv'
  OBVIOUS
<1> USE SmallFacts DEF SendEnd, receiver
<1> DEFINE p == [type |-> "end", sum |-> file]
<1>1. p \in Packets
  BY DEF Packets, TransferInv, Types, TypeOK
<1>2. /\ channel' \in Seq(Packets) /\ Len(channel') = Len(channel) + 1
      /\ channel'[Len(channel) + 1] = p
      /\ \A j \in 1 .. Len(channel) : channel'[j] = channel[j]
  BY <1>1, Sent DEF TransferInv, Types
<1>3. Types'
  BY <1>2 DEF TransferInv, Types, TypeOK
<1>4. Sender'
  BY DEF TransferInv, Sender
<1>5. AllInOrder'
  <2> SUFFICES ASSUME NEW i \in 1 .. Len(channel') PROVE InOrder(i)'
    BY <1>2 DEF AllInOrder
  <2>1. CASE i = Len(channel) + 1
    <3>1. state \in {"none", "open"}
      BY DEF TransferInv, Types, TypeOK, Receiver
    <3> QED
      BY <1>2, <2>1, <3>1 DEF InOrder
  <2>2. CASE i \in 1 .. Len(channel)
    <3>1. InOrder(i) /\ channel'[i] = channel[i] /\ channel[i].type # "end"
      BY <1>2, <2>2 DEF TransferInv, AllInOrder, InOrder
    <3> QED
      BY <3>1 DEF InOrder
  <2> QED
    BY <1>2, <2>1, <2>2
<1>6. Receiver'
  BY DEF TransferInv, Receiver, IsStaged
<1>7. /\ \A type : OnItsWay(type) => OnItsWay(type)'
      /\ \A k : ChunkOnItsWay(k) => ChunkOnItsWay(k)'
  <2>1. DOMAIN channel = 1 .. Len(channel) /\ Len(channel) \in Nat
    BY DEF TransferInv, Types
  <2>2. DOMAIN channel' = 1 .. (Len(channel) + 1)
    BY <1>2
  <2> QED
    BY <1>2, <2>1, <2>2 DEF OnItsWay, ChunkOnItsWay
<1>8. NothingMissing'
  <2> SUFFICES ASSUME ~lost, offer.size > 0
               PROVE  NothingMissing'
    BY DEF NothingMissing
  <2>1. state = "none" => OnItsWay("start")'
    <3>1. state = "none" => OnItsWay("start")
      BY DEF TransferInv, NothingMissing
    <3> QED
      BY <1>7, <3>1
  <2>2. ASSUME NEW k \in 0 .. (next' - 1), state \in {"none", "open"}
        PROVE  k \in mask \/ ChunkOnItsWay(k)'
    <3>1. k \in mask \/ ChunkOnItsWay(k)
      BY <2>2 DEF TransferInv, NothingMissing
    <3> QED
      BY <1>7, <3>1
  <2>3. edits = 0 => state # "discarded"
    BY DEF TransferInv, NothingMissing
  <2>4. OnItsWay("end")'
    BY <1>2 DEF OnItsWay
  <2> QED
    BY <2>1, <2>2, <2>3, <2>4 DEF NothingMissing
<1> QED
  BY <1>3, <1>4, <1>5, <1>6, <1>8 DEF TransferInv

LEMMA EditStep == TransferInv /\ Edit => TransferInv'
<1> SUFFICES ASSUME TransferInv, Edit PROVE TransferInv'
  OBVIOUS
<1> USE SmallFacts, FileSendAssumption DEF Edit, receiver
<1>1. edits \in Nat /\ edits' \in Nat \ {0}
  BY DEF TransferInv, Types, TypeOK
<1>2. Types'
  BY DEF TransferInv, Types, TypeOK
<1>3. Sender'
  BY <1>1 DEF TransferInv, Sender
<1>4. AllInOrder'
  BY <1>1 DEF TransferInv, AllInOrder, InOrder
<1>5. Receiver'
  BY <1>1 DEF TransferInv, Receiver
<1>6. NothingMissing'
  BY <1>1 DEF TransferInv, NothingMissing, OnItsWay, ChunkOnItsWay
<1> QED
  BY <1>2, <1>3, <1>4, <1>5, <1>6 DEF TransferInv

\* What the receiver leaves on its way when it takes a message.
LEMMA Handled ==
  ASSUME TransferInv, NEW type \in {"start", "chunk", "end"}, Receive(type)
  PROVE  /\ channel' \in Seq(Packets) /\ Len(channel') = Len(channel) - 1
         /\ 1 \in 1 .. Len(channel) /\ Head(channel) = channel[1]
         /\ channel[1] \in Packets /\ channel[1].type = type /\ InOrder(1)
         /\ \A i \in 1 .. Len(channel') :
              i + 1 \in 1 .. Len(channel) /\ channel'[i] = channel[i + 1]
         /\ \A x \in {"start", "chunk", "end"} \ {type} : OnItsWay(x) => OnItsWay(x)'
         /\ \A k \in Nat : ChunkOnItsWay(k) =>
              ChunkOnItsWay(k)' \/ (type = "chunk" /\ channel[1].index = k)
<1> USE SmallFacts DEF Receive
<1>1. /\ channel' \in Seq(Packets) /\ Len(channel') = Len(channel) - 1
      /\ 1 \in 1 .. Len(channel) /\ Head(channel) = channel[1]
      /\ \A i \in 1 .. Len(channel') :
           i + 1 \in 1 .. Len(channel) /\ channel'[i] = channel[i + 1]
      /\ \A i \in 2 .. Len(channel) :
           i - 1 \in 1 .. Len(channel') /\ channel'[i - 1] = channel[i]
  BY Taken DEF TransferInv, Types
<1>2. channel[1] \in Packets /\ channel[1].type = type /\ InOrder(1)
  BY <1>1 DEF TransferInv, AllInOrder
<1>3. \A i \in DOMAIN channel : i = 1 \/ i \in 2 .. Len(channel)
  BY DEF TransferInv, Types
<1>4. \A i \in 2 .. Len(channel) : i - 1 \in DOMAIN channel'
  BY <1>1
<1>5. ASSUME NEW x \in {"start", "chunk", "end"} \ {type}, OnItsWay(x)
      PROVE  OnItsWay(x)'
  <2>1. PICK i \in DOMAIN channel : channel[i].type = x
    BY <1>5 DEF OnItsWay
  <2>2. i \in 2 .. Len(channel)
    BY <1>2, <1>3, <2>1
  <2> QED
    BY <1>1, <1>4, <2>1, <2>2 DEF OnItsWay
<1>6. ASSUME NEW k \in Nat, ChunkOnItsWay(k)
      PROVE  ChunkOnItsWay(k)' \/ (type = "chunk" /\ channel[1].index = k)
  <2>1. PICK i \in DOMAIN channel : channel[i].type = "chunk" /\ channel[i].index = k
    BY <1>6 DEF ChunkOnItsWay
  <2>2. CASE i = 1
    BY <1>2, <2>1, <2>2
  <2>3. CASE i \in 2 .. Len(channel)
    BY <1>1, <1>4, <2>1, <2>3 DEF ChunkOnItsWay
  <2> QED
    BY <1>3, <2>2, <2>3
<1> QED
  BY <1>1, <1>2, <1>5, <1>6

LEMMA StillInOrder ==
  ASSUME TransferInv, NEW type \in {"start", "chunk", "end"}, Receive(type),
         state \in {"none", "open"} => state' \in {"none", "open"}
  PROVE  AllInOrder'
<1> SUFFICES ASSUME NEW i \in 1 .. Len(channel') PROVE InOrder(i)'
  BY Handled DEF AllInOrder
<1>1. i + 1 \in 1 .. Len(channel) /\ channel'[i] = channel[i + 1]
      /\ Len(channel') = Len(channel) - 1
  BY Handled
<1>2. InOrder(i + 1) /\ i + 1 # 1 /\ channel \in Seq(Packets)
  BY <1>1 DEF TransferInv, Types, AllInOrder
<1>3. UNCHANGED sender /\ UNCHANGED edits
  BY DEF Receive
<1>4. channel'[i].type # "start"
  BY <1>1, <1>2 DEF InOrder
<1>5. CASE channel'[i].type = "chunk"
  BY <1>1, <1>2, <1>3, <1>5 DEF InOrder, sender
<1>6. CASE channel'[i].type = "end"
  <2>1. i = Len(channel')
    BY <1>1, <1>2, <1>6 DEF InOrder
  <2> QED
    BY <1>1, <1>2, <1>3, <1>6, <2>1 DEF InOrder, sender
<1> QED
  BY <1>4, <1>5, <1>6 DEF InOrder

LEMMA ReceiveStartStep == TransferInv /\ ReceiveStart => TransferInv'
<1> SUFFICES ASSUME TransferInv, ReceiveStart PROVE TransferInv'
  OBVIOUS
<1> USE SmallFacts DEF sender
<1>1. /\ Receive("start") /\ UNCHANGED <<sender, staged, mask, edits, moves, lost>>
      /\ channel' \in Seq(Packets)
      /\ channel[1].offer = offer /\ state = "none" /\ Head(channel) = channel[1]
  BY Handled DEF ReceiveStart, Receive, InOrder
<1>2. state' = IF Legitimate(offer) THEN "open" ELSE "none"
  BY <1>1 DEF ReceiveStart
<1>3. sending # "idle"
  BY <1>1, Handled DEF TransferInv, Sender
<1>4. Legitimate(offer) <=> offer.size > 0
  BY <1>3 DEF Legitimate, TransferInv, Sender
<1>5. Types'
  BY <1>1, <1>2 DEF TransferInv, Types, TypeOK
<1>6. Sender'
  BY <1>1, <1>2, <1>3, <1>4 DEF TransferInv, Sender
<1>7. AllInOrder'
  BY <1>1, <1>2, StillInOrder
<1>8. Receiver'
  BY <1>1, <1>2 DEF TransferInv, Receiver, IsStaged
<1>9. NothingMissing'
  <2> SUFFICES ASSUME ~lost, offer.size > 0 PROVE NothingMissing'
    BY <1>1 DEF NothingMissing
  <2>1. state' = "open"
    BY <1>2, <1>4
  <2>2. ASSUME NEW k \in 0 .. (next - 1) PROVE k \in mask \/ ChunkOnItsWay(k)'
    BY <1>1, <1>3, Handled DEF TransferInv, NothingMissing
  <2>3. sending = "done" => OnItsWay("end")'
    BY <1>1, <1>3, Handled DEF TransferInv, NothingMissing
  <2> QED
    BY <1>1, <2>1, <2>2, <2>3 DEF NothingMissing
<1> QED
  BY <1>5, <1>6, <1>7, <1>8, <1>9 DEF TransferInv

\* A chunk that is staged leaves the others staged, and is staged itself.
LEMMA ChunkStaged ==
  ASSUME TransferInv, NEW i \in Nat, NEW data \in Seq(Bytes), i < offer.total,
         Len(data) <= ChunkSize,
         staged' = WriteAt(staged, i * ChunkSize, data)
  PROVE  /\ staged' \in Seq(Bytes \union {Hole})
         /\ Len(staged') <= offer.total * ChunkSize
         /\ (edits = 0 /\ data = ReadChunk(file, i, ChunkSize)) =>
              /\ Len(staged') <= Len(file)
              /\ file' = file => \A k \in mask \union {i} : IsStaged(k)'
<1> DEFINE o == i * ChunkSize
<1>0. ChunkSize \in Nat \ {0} /\ offer.total \in Nat /\ file \in Seq(Bytes)
  BY SmallFacts
<1>1. o \in Nat /\ (i + 1) * ChunkSize = o + ChunkSize
      /\ (i + 1) * ChunkSize <= offer.total * ChunkSize
      /\ offer.total * ChunkSize \in Nat
  BY <1>0, Places
<1>2. staged \in Seq(Bytes \union {Hole}) /\ data \in Seq(Bytes \union {Hole})
      /\ Len(staged) <= offer.total * ChunkSize
  BY DEF TransferInv, Types, TypeOK, Receiver
<1> HIDE DEF o
<1>3. /\ staged' \in Seq(Bytes \union {Hole})
      /\ Len(staged') = IF data # <<>> /\ o + Len(data) > Len(staged) THEN o + Len(data)
                                                                      ELSE Len(staged)
      /\ \A b \in 1 .. Len(staged') :
           staged'[b] = IF b > o /\ b <= o + Len(data) THEN data[b - o]
                        ELSE IF b <= Len(staged) THEN staged[b] ELSE Hole
  <2>1. staged' = WriteAt(staged, o, data)
    BY DEF o
  <2>2. o \in Nat
    BY <1>1
  <2> DEFINE S == Bytes \union {Hole}
             w == WriteAt(staged, o, data)
  <2>3. /\ w \in Seq(S)
        /\ Len(w) = IF data # <<>> /\ o + Len(data) > Len(staged) THEN o + Len(data)
                                                                  ELSE Len(staged)
        /\ \A b \in 1 .. Len(w) :
             w[b] = IF b > o /\ b <= o + Len(data) THEN data[b - o]
                    ELSE IF b <= Len(staged) THEN staged[b] ELSE Hole
    <3>1. Hole \in S /\ staged \in Seq(S) /\ data \in Seq(S)
      BY <1>2
    <3> HIDE DEF S
    <3> QED
      BY <2>2, <3>1, ChunkWritten
  <2>4. staged' = w
    BY <2>1
  <2> HIDE DEF w
  <2> QED
    BY <2>3, <2>4
<1>4. Len(staged') <= offer.total * ChunkSize
  <2> DEFINE all == offer.total * ChunkSize
  <2>1. Len(staged) \in Nat /\ Len(data) \in Nat
    BY <1>2
  <2>2. o + Len(data) <= all /\ Len(staged) <= all /\ all \in Nat
    <3>1. o + ChunkSize <= all /\ all \in Nat /\ Len(staged) <= all
      BY <1>1, <1>2
    <3> HIDE DEF all
    <3> QED
      BY <1>0, <1>1, <2>1, <3>1
  <2> HIDE DEF all
  <2> QED
    BY <1>3, <2>1, <2>2 DEF all
<1>5. ASSUME edits = 0, data = ReadChunk(file, i, ChunkSize)
      PROVE  /\ Len(staged') <= Len(file)
             /\ file' = file => \A k \in mask \union {i} : IsStaged(k)'
  <2>1. /\ \A j \in 1 .. Len(data) : o + j \in 1 .. Len(file) /\ data[j] = file[o + j]
        /\ \A b \in 1 .. Len(file) :
             (o < b /\ b <= o + ChunkSize) => b - o \in 1 .. Len(data)
    <3> DEFINE r == ReadChunk(file, i, ChunkSize)
    <3>1. /\ \A j \in 1 .. Len(r) :
               i * ChunkSize + j \in 1 .. Len(file) /\ r[j] = file[i * ChunkSize + j]
          /\ \A b \in 1 .. Len(file) :
               (i * ChunkSize < b /\ b <= (i + 1) * ChunkSize) =>
                 b - i * ChunkSize \in 1 .. Len(r)
      BY <1>0, ChunkRead
    <3>2. r = data
      BY <1>5
    <3> HIDE DEF r
    <3> QED
      BY <1>1, <3>1, <3>2 DEF o
  <2>2. Len(staged) <= Len(file) /\ \A k \in mask : IsStaged(k)
    BY <1>5 DEF TransferInv, Receiver
  <2>3. data # <<>> => o + Len(data) \in 1 .. Len(file)
    BY <2>1
  <2>4. Len(staged') <= Len(file) /\ Len(staged) <= Len(staged')
    <3>1. Len(staged) \in Nat /\ Len(data) \in Nat /\ Len(file) \in Nat
      BY <1>0, <1>2
    <3> QED
      BY <1>1, <1>3, <2>2, <2>3, <3>1
  <2>5. ASSUME file' = file, NEW k \in mask \union {i} PROVE IsStaged(k)'
    <3>1. k \in Nat
      BY DEF TransferInv, Types, TypeOK
    <3> SUFFICES ASSUME NEW b \in 1 .. Len(file), k * ChunkSize < b,
                        b <= (k + 1) * ChunkSize
                 PROVE  b <= Len(staged') /\ staged'[b] = file[b]
      BY <2>5 DEF IsStaged
    <3>2. CASE o < b /\ b <= o + Len(data)
      <4>1. b - o \in 1 .. Len(data) /\ o + (b - o) = b
        BY <1>1, <3>2
      <4>2. data[b - o] = file[b]
        BY <2>1, <4>1
      <4>3. b \in 1 .. Len(staged')
        BY <1>1, <1>2, <1>3, <3>2, <4>1
      <4> QED
        BY <1>3, <3>2, <4>2, <4>3
    <3>3. CASE ~(o < b /\ b <= o + Len(data))
      <4>1. k # i
        BY <1>1, <2>1, <3>3 DEF o
      <4>2. b <= Len(staged) /\ staged[b] = file[b]
        BY <2>2, <4>1 DEF IsStaged
      <4>3. b \in 1 .. Len(staged')
        BY <1>2, <1>3, <2>4, <4>2
      <4> QED
        BY <1>3, <3>3, <4>2, <4>3
    <3> QED
      BY <3>2, <3>3
  <2> QED
    BY <2>4, <2>5
<1> QED
  BY <1>3, <1>4, <1>5

LEMMA ReceiveChunkStep == TransferInv /\ ReceiveChunk => TransferInv'
<1> SUFFICES ASSUME TransferInv, ReceiveChunk PROVE TransferInv'
  OBVIOUS
<1> USE SmallFacts DEF sender
<1> DEFINE c == channel[1]
<1>1. /\ Receive("chunk") /\ UNCHANGED <<sender, state, edits, moves, lost>>
      /\ channel' \in Seq(Packets) /\ Head(channel) = c
      /\ c.index \in Nat /\ c.data \in Seq(Bytes) /\ c.index < next
      /\ Len(c.data) <= ChunkSize
      /\ edits = 0 => c.data = ReadChunk(file, c.index, ChunkSize)
  BY Handled, PacketFields DEF ReceiveChunk, Receive, InOrder
<1>2. next <= offer.total
  BY DEF TransferInv, Types, TypeOK
<1>3. \/ /\ state = "open"
         /\ staged' = WriteAt(staged, c.index * ChunkSize, c.data)
         /\ mask' = mask \union {c.index}
      \/ state # "open" /\ UNCHANGED <<staged, mask>>
  BY <1>1, <1>2 DEF ReceiveChunk
<1> HIDE DEF c
<1>4. /\ staged' \in Seq(Bytes \union {Hole})
      /\ Len(staged') <= offer.total * ChunkSize
      /\ edits = 0 => Len(staged') <= Len(file) /\ \A k \in mask' : IsStaged(k)'
  <2>1. CASE state = "open"
    <3>1. c.index < offer.total /\ staged' = WriteAt(staged, c.index * ChunkSize, c.data)
      BY <1>1, <1>2, <1>3, <2>1
    <3>2. /\ staged' \in Seq(Bytes \union {Hole})
          /\ Len(staged') <= offer.total * ChunkSize
          /\ (edits = 0 /\ c.data = ReadChunk(file, c.index, ChunkSize)) =>
               /\ Len(staged') <= Len(file)
               /\ file' = file => \A k \in mask \union {c.index} : IsStaged(k)'
      BY <1>1, <3>1, ChunkStaged
    <3>3. file' = file /\ mask' = mask \union {c.index}
      BY <1>1, <1>3, <2>1
    <3> QED
      BY <1>1, <3>2, <3>3
  <2>2. CASE state # "open"
    BY <1>1, <1>3, <2>2 DEF TransferInv, Types, TypeOK, Receiver, IsStaged
  <2> QED
    BY <2>1, <2>2
<1>5. Types'
  <2>1. mask' \subseteq 0 .. (offer.total - 1)
    <3>1. mask \subseteq 0 .. (offer.total - 1)
      BY DEF TransferInv, Types, TypeOK
    <3>2. c.index \in 0 .. (offer.total - 1)
      BY <1>1, <1>2
    <3> QED
      BY <1>3, <3>1, <3>2
  <2> QED
    BY <1>1, <1>4, <2>1 DEF TransferInv, Types, TypeOK
<1>6. Sender'
  <2>1. sending # "idle"
    BY <1>1, Handled DEF TransferInv, Sender
  <2> QED
    BY <1>1, <2>1 DEF TransferInv, Sender
<1>7. AllInOrder'
  BY <1>1, StillInOrder
<1>8. Receiver'
  BY <1>1, <1>3, <1>4 DEF TransferInv, Receiver
<1>9. NothingMissing'
  <2> SUFFICES ASSUME ~lost, sending # "idle", offer.size > 0 PROVE NothingMissing'
    BY <1>1 DEF NothingMissing
  <2>1. state = "none" => OnItsWay("start")'
    BY <1>1, Handled DEF TransferInv, NothingMissing
  <2>2. ASSUME state \in {"none", "open"}, NEW k \in 0 .. (next - 1)
        PROVE  k \in mask' \/ ChunkOnItsWay(k)'
    <3>1. state = "open"
      <4>1. ASSUME state = "none" PROVE FALSE
        <5>1. PICK i \in DOMAIN channel : channel[i].type = "start"
          BY <4>1 DEF TransferInv, NothingMissing, OnItsWay
        <5> QED
          BY <1>1, <5>1, Handled DEF TransferInv, AllInOrder, InOrder
      <4> QED
        BY <2>2, <4>1
    <3>2. k \in mask \/ ChunkOnItsWay(k)
      BY <3>1 DEF TransferInv, NothingMissing
    <3> QED
      BY <1>1, <1>3, <3>1, <3>2, Handled DEF c
  <2>3. (state \in {"none", "open"} /\ sending = "done") => OnItsWay("end")'
    BY <1>1, Handled DEF TransferInv, NothingMissing
  <2> QED
    BY <1>1, <2>1, <2>2, <2>3 DEF TransferInv, NothingMissing
<1> QED
  BY <1>5, <1>6, <1>7, <1>8, <1>9 DEF TransferInv

LEMMA ChunksCounted ==
  ASSUME NEW n \in Nat \ {0}
  PROVE  Cardinality(0 .. (n - 1)) = n
<1>1. 0 \in Int /\ n - 1 \in Int /\ ~(0 > n - 1) /\ (n - 1) - 0 + 1 = n
  OBVIOUS
<1>2. Cardinality(0 .. (n - 1)) = IF 0 > n - 1 THEN 0 ELSE (n - 1) - 0 + 1
  BY <1>1, FS_Interval
<1> QED
  BY <1>1, <1>2

\* The checks of handle_file_end find everything there: each chunk came before the
\* end, and each byte of the file is in one of them.
LEMMA AllThere ==
  ASSUME TransferInv, ~lost, edits = 0, sending = "done", state = "open",
         Len(channel) = 1, channel[1].type = "end"
  PROVE  Complete(file)
<1> USE SmallFacts
<1>1. /\ next = offer.total /\ offer.size > 0 /\ Len(file) = offer.size
      /\ offer.total = TotalChunks(offer.size, ChunkSize)
  BY DEF TransferInv, Sender
<1>2. mask = 0 .. (offer.total - 1)
  <2>1. \A k \in 0 .. (next - 1) : k \in mask \/ ChunkOnItsWay(k)
    BY <1>1 DEF TransferInv, NothingMissing
  <2>2. DOMAIN channel = 1 .. 1
    BY DEF TransferInv, Types
  <2>3. \A k : ~ChunkOnItsWay(k)
    BY <2>2 DEF ChunkOnItsWay
  <2>4. mask \subseteq 0 .. (offer.total - 1)
    BY DEF TransferInv, Types, TypeOK
  <2> QED
    BY <1>1, <2>1, <2>3, <2>4
<1>3. Cardinality(mask) >= offer.total
  <2> DEFINE total == TotalChunks(offer.size, ChunkSize)
  <2>0. total \in Nat \ {0}
    BY TotalIsEnough
  <2>1. offer.total \in Nat \ {0}
    BY <1>1, <2>0
  <2>2. Cardinality(0 .. (offer.total - 1)) = offer.total
    BY <2>1, ChunksCounted
  <2> QED
    BY <1>2, <2>1, <2>2
<1>4. staged \in Seq(Bytes \union {Hole}) /\ Len(staged) <= Len(file)
      /\ \A k \in mask : IsStaged(k)
  BY DEF TransferInv, Types, TypeOK, Receiver
<1>5. \A b \in 1 .. Len(file) : b <= Len(staged) /\ staged[b] = file[b]
  <2> TAKE b \in 1 .. Len(file)
  <2>1. PICK k \in 0 .. (offer.total - 1) :
          k * ChunkSize < b /\ b <= (k + 1) * ChunkSize
    BY <1>1, ByteHasChunk
  <2>2. IsStaged(k)
    BY <1>2, <1>4, <2>1
  <2> QED
    BY <2>1, <2>2 DEF IsStaged
<1>6. Len(file) \in Nat /\ Len(staged) \in Nat /\ Len(file) \in 1 .. Len(file)
  BY <1>1, <1>4
<1>7. Len(staged) = Len(file)
  BY <1>4, <1>5, <1>6
<1>8. staged = file
  BY <1>4, <1>5, <1>7
<1> QED
  BY <1>3, <1>8 DEF Complete

LEMMA ReceiveEndStep == TransferInv /\ ReceiveEnd => TransferInv'
<1> SUFFICES ASSUME TransferInv, ReceiveEnd PROVE TransferInv'
  OBVIOUS
<1> USE SmallFacts DEF sender
<1>1. /\ Receive("end") /\ UNCHANGED <<sender, staged, mask, edits, moves, lost>>
      /\ channel' \in Seq(Packets) /\ Head(channel) = channel[1]
      /\ Len(channel) = 1 /\ Len(channel') = 0 /\ channel[1].type = "end"
      /\ channel[1].sum = file /\ sending = "done" /\ state \in {"none", "open"}
  BY Handled DEF ReceiveEnd, Receive, InOrder
<1>2. \/ state = "none" /\ state' = "none"
      \/ state = "open" /\ Complete(file) /\ state' = "delivered"
      \/ state = "open" /\ ~Complete(file) /\ state' = "discarded"
  BY <1>1 DEF ReceiveEnd
<1>3. Types'
  BY <1>1, <1>2 DEF TransferInv, Types, TypeOK
<1>4. Sender'
  BY <1>1, <1>2 DEF TransferInv, Sender
<1>5. AllInOrder'
  BY <1>1 DEF AllInOrder
<1>6. Receiver'
  BY <1>1, <1>2 DEF TransferInv, Receiver, IsStaged, Complete
<1>7. NothingMissing'
  <2> SUFFICES ASSUME ~lost, offer.size > 0 PROVE NothingMissing'
    BY <1>1 DEF NothingMissing
  <2>1. state = "open"
    <3>1. ASSUME state = "none" PROVE FALSE
      <4>1. PICK i \in DOMAIN channel : channel[i].type = "start"
        BY <1>1, <3>1 DEF TransferInv, NothingMissing, OnItsWay
      <4>2. DOMAIN channel = 1 .. 1
        BY <1>1 DEF TransferInv, Types
      <4> QED
        BY <1>1, <4>1, <4>2
    <3> QED
      BY <1>1, <3>1
  <2>2. edits = 0 => state' = "delivered"
    BY <1>1, <1>2, <2>1, AllThere
  <2> QED
    BY <1>1, <1>2, <2>1, <2>2 DEF NothingMissing
<1> QED
  BY <1>3, <1>4, <1>5, <1>6, <1>7 DEF TransferInv

\* Messages that were on their way stay in order when the others close up or make
\* room, and only chunks change places.
LEMMA OthersKeepTheirPlace ==
  ASSUME TransferInv, UNCHANGED <<sender, receiver, edits>>,
         \A i \in DOMAIN channel' : \E j \in DOMAIN channel :
           /\ channel'[i] = channel[j]
           /\ channel[j].type # "chunk" =>
                (j = 1 => i = 1) /\ (j = Len(channel) => i = Len(channel'))
  PROVE  AllInOrder'
<1> SUFFICES ASSUME NEW i \in DOMAIN channel' PROVE InOrder(i)'
  BY DEF AllInOrder
<1>1. PICK j \in DOMAIN channel :
           /\ channel'[i] = channel[j]
           /\ channel[j].type # "chunk" =>
                (j = 1 => i = 1) /\ (j = Len(channel) => i = Len(channel'))
  OBVIOUS
<1>2. InOrder(j)
  BY DEF TransferInv, AllInOrder
<1>3. CASE channel[j].type = "start"
  BY <1>1, <1>2, <1>3 DEF InOrder, sender, receiver
<1>4. CASE channel[j].type = "chunk"
  BY <1>1, <1>2, <1>4 DEF InOrder, sender, receiver
<1>5. CASE channel[j].type = "end"
  BY <1>1, <1>2, <1>5 DEF InOrder, sender, receiver
<1> QED
  BY <1>1, <1>3, <1>4, <1>5 DEF InOrder

\* A move loses nothing.
LEMMA MoveKeeps ==
  ASSUME TransferInv, channel # <<>>, UNCHANGED <<sender, receiver, edits, lost>>,
         moves' \in 0 .. MaxMoves, channel' \in Seq(Packets),
         AllInOrder',
         \A j \in DOMAIN channel : \E i \in DOMAIN channel' : channel'[i] = channel[j]
  PROVE  TransferInv'
<1> USE DEF sender, receiver
<1>1. Types'
  BY DEF TransferInv, Types, TypeOK
<1>2. Sender'
  <2>1. sending # "idle"
    BY DEF TransferInv, Sender
  <2> QED
    BY <2>1 DEF TransferInv, Sender
<1>3. Receiver'
  BY DEF TransferInv, Receiver, IsStaged
<1>4. \A x : OnItsWay(x) => OnItsWay(x)'
  BY DEF OnItsWay
<1>5. \A k : ChunkOnItsWay(k) => ChunkOnItsWay(k)'
  BY DEF ChunkOnItsWay
<1>6. NothingMissing'
  BY <1>4, <1>5 DEF TransferInv, NothingMissing
<1> QED
  BY <1>1, <1>2, <1>3, <1>6 DEF TransferInv

LEMMA RepeatStep ==
  ASSUME TransferInv, NEW i \in DOMAIN channel, Repeat(i)
  PROVE  TransferInv'
<1>1. /\ channel \in Seq(Packets) /\ i \in 1 .. Len(channel)
      /\ Len(channel) \in Nat /\ DOMAIN channel = 1 .. Len(channel)
      /\ channel[i].type = "chunk"
      /\ UNCHANGED <<sender, receiver, edits, lost>>
  BY DEF TransferInv, Types, Repeat
<1>2. /\ channel' \in Seq(Packets) /\ Len(channel') = Len(channel) + 1
      /\ DOMAIN channel' = 1 .. Len(channel')
      /\ \A j \in 1 .. Len(channel') :
           channel'[j] = IF j <= i THEN channel[j] ELSE channel[j - 1]
  <2>1. channel' = SubSeq(channel, 1, i) \o SubSeq(channel, i, Len(channel))
    BY DEF Repeat
  <2> DEFINE r == SubSeq(channel, 1, i) \o SubSeq(channel, i, Len(channel))
  <2>2. /\ r \in Seq(Packets) /\ Len(r) = Len(channel) + 1
        /\ \A j \in 1 .. Len(r) : r[j] = IF j <= i THEN channel[j] ELSE channel[j - 1]
    BY <1>1, Repeated
  <2>3. channel' = r
    BY <2>1
  <2> HIDE DEF r
  <2>4. DOMAIN r = 1 .. Len(r)
    BY <2>2
  <2> QED
    BY <2>2, <2>3, <2>4
<1>3. AllInOrder'
  <2> SUFFICES ASSUME NEW n \in DOMAIN channel'
               PROVE  \E j \in DOMAIN channel :
                        /\ channel'[n] = channel[j]
                        /\ channel[j].type # "chunk" =>
                             (j = 1 => n = 1) /\ (j = Len(channel) => n = Len(channel'))
    BY <1>1, OthersKeepTheirPlace
  <2>1. CASE n <= i
    <3>1. n \in DOMAIN channel /\ channel'[n] = channel[n]
      BY <1>1, <1>2, <2>1
    <3>2. n = Len(channel) => channel[n].type = "chunk"
      BY <1>1, <1>2, <2>1
    <3> USE <3>1
    <3> WITNESS n \in DOMAIN channel
    <3> QED
      BY <3>1, <3>2
  <2>2. CASE n > i
    <3>1. n - 1 \in DOMAIN channel /\ channel'[n] = channel[n - 1]
      BY <1>1, <1>2, <2>2
    <3>2. n - 1 = 1 => channel[n - 1].type = "chunk"
      BY <1>1, <1>2, <2>2
    <3>3. n - 1 = Len(channel) => n = Len(channel')
      BY <1>1, <1>2
    <3> USE <3>1
    <3> WITNESS n - 1 \in DOMAIN channel
    <3> QED
      BY <3>1, <3>2, <3>3
  <2> QED
    BY <1>1, <1>2, <2>1, <2>2
<1>4. ASSUME NEW j \in DOMAIN channel
      PROVE  \E n \in DOMAIN channel' : channel'[n] = channel[j]
  <2>1. CASE j <= i
    BY <1>1, <1>2, <2>1
  <2>2. CASE j > i
    <3>1. j + 1 \in 1 .. Len(channel') /\ channel'[j + 1] = channel[j]
      BY <1>1, <1>2, <2>2
    <3> QED
      BY <1>2, <3>1
  <2> QED
    BY <1>1, <2>1, <2>2
<1>5. moves' \in 0 .. MaxMoves /\ channel # <<>>
  BY <1>1, FileSendAssumption DEF TransferInv, Types, TypeOK, Repeat
<1> QED
  BY <1>1, <1>2, <1>3, <1>4, <1>5, MoveKeeps

LEMMA OvertakeStep ==
  ASSUME TransferInv, NEW i \in DOMAIN channel, Overtake(i)
  PROVE  TransferInv'
<1> USE SmallFacts DEF Overtake, receiver
<1>1. channel \in Seq(Packets) /\ i \in 1 .. Len(channel) /\ i + 1 \in 1 .. Len(channel)
  BY DEF TransferInv, Types
<1>2. /\ channel' \in Seq(Packets) /\ Len(channel') = Len(channel)
      /\ \A j \in 1 .. Len(channel') :
           channel'[j] = IF j = i THEN channel[i + 1]
                         ELSE IF j = i + 1 THEN channel[i] ELSE channel[j]
  BY <1>1, Swapped
<1>3. DOMAIN channel' = 1 .. Len(channel) /\ DOMAIN channel = 1 .. Len(channel)
  BY <1>1, <1>2
<1>4. AllInOrder'
  <2> SUFFICES ASSUME NEW n \in DOMAIN channel'
               PROVE  \E j \in DOMAIN channel :
                        /\ channel'[n] = channel[j]
                        /\ channel[j].type # "chunk" =>
                             (j = 1 => n = 1) /\ (j = Len(channel) => n = Len(channel'))
    BY <1>1, OthersKeepTheirPlace
  <2>1. CASE n = i
    BY <1>1, <1>2, <1>3, <2>1
  <2>2. CASE n = i + 1
    BY <1>1, <1>2, <1>3, <2>2
  <2>3. CASE n # i /\ n # i + 1
    BY <1>1, <1>2, <1>3, <2>3
  <2> QED
    BY <2>1, <2>2, <2>3
<1>5. ASSUME NEW j \in DOMAIN channel
      PROVE  \E n \in DOMAIN channel' : channel'[n] = channel[j]
  <2>1. CASE j = i
    BY <1>1, <1>2, <1>3, <2>1
  <2>2. CASE j = i + 1
    BY <1>1, <1>2, <1>3, <2>2
  <2>3. CASE j # i /\ j # i + 1
    BY <1>1, <1>2, <1>3, <2>3
  <2> QED
    BY <2>1, <2>2, <2>3
<1>6. moves' \in 0 .. MaxMoves /\ channel # <<>>
  <2>1. moves \in 0 .. MaxMoves /\ MaxMoves \in Nat
    BY FileSendAssumption DEF TransferInv, Types, TypeOK
  <2>2. moves' = moves + 1 /\ moves < MaxMoves
    OBVIOUS
  <2> QED
    BY <1>1, <2>1, <2>2
<1> QED
  BY <1>2, <1>4, <1>5, <1>6, MoveKeeps

LEMMA LoseStep ==
  ASSUME TransferInv, NEW i \in DOMAIN channel, Lose(i)
  PROVE  TransferInv'
<1>1. /\ channel \in Seq(Packets) /\ i \in 1 .. Len(channel)
      /\ Len(channel) \in Nat /\ DOMAIN channel = 1 .. Len(channel)
      /\ UNCHANGED <<sender, receiver, edits, moves>>
  BY DEF TransferInv, Types, Lose
<1>2. /\ channel' \in Seq(Packets) /\ Len(channel') = Len(channel) - 1
      /\ DOMAIN channel' = 1 .. Len(channel')
      /\ \A j \in 1 .. Len(channel') :
           channel'[j] = IF j < i THEN channel[j] ELSE channel[j + 1]
  <2> DEFINE r == SubSeq(channel, 1, i - 1) \o SubSeq(channel, i + 1, Len(channel))
  <2>1. /\ r \in Seq(Packets) /\ Len(r) = Len(channel) - 1
        /\ \A j \in 1 .. Len(r) : r[j] = IF j < i THEN channel[j] ELSE channel[j + 1]
    BY <1>1, Removed
  <2>2. channel' = r
    BY DEF Lose
  <2> HIDE DEF r
  <2> QED
    BY <2>1, <2>2
<1>3. AllInOrder'
  <2> SUFFICES ASSUME NEW n \in DOMAIN channel'
               PROVE  \E j \in DOMAIN channel :
                        /\ channel'[n] = channel[j]
                        /\ channel[j].type # "chunk" =>
                             (j = 1 => n = 1) /\ (j = Len(channel) => n = Len(channel'))
    BY <1>1, OthersKeepTheirPlace
  <2>1. CASE n < i
    <3>1. n \in DOMAIN channel /\ channel'[n] = channel[n] /\ n # Len(channel)
      BY <1>1, <1>2, <2>1
    <3> QED
      BY <3>1
  <2>2. CASE n >= i
    <3>1. n + 1 \in DOMAIN channel /\ channel'[n] = channel[n + 1] /\ n + 1 # 1
      BY <1>1, <1>2, <2>2
    <3>2. n + 1 = Len(channel) => n = Len(channel')
      BY <1>1, <1>2
    <3> QED
      BY <3>1, <3>2
  <2> QED
    BY <1>1, <1>2, <2>1, <2>2
<1> USE <1>1 DEF sender, receiver
<1>4. lost' = TRUE
  BY DEF Lose
<1>5. Types'
  BY <1>2, <1>4 DEF TransferInv, Types, TypeOK
<1>6. Sender'
  <2>1. sending # "idle"
    BY <1>1 DEF TransferInv, Sender
  <2> QED
    BY <2>1 DEF TransferInv, Sender
<1>7. Receiver'
  BY DEF TransferInv, Receiver, IsStaged
<1>8. NothingMissing'
  BY <1>4 DEF NothingMissing
<1> QED
  BY <1>3, <1>5, <1>6, <1>7, <1>8 DEF TransferInv

LEMMA TransferStep == TransferInv /\ [Next]_vars => TransferInv'
<1> SUFFICES ASSUME TransferInv, [Next]_vars PROVE TransferInv'
  OBVIOUS
<1>1. CASE SendStart
  BY <1>1, SendStartStep
<1>2. CASE SendChunk
  BY <1>2, SendChunkStep
<1>3. CASE SendEnd
  BY <1>3, SendEndStep
<1>4. CASE Edit
  BY <1>4, EditStep
<1>5. CASE ReceiveStart
  BY <1>5, ReceiveStartStep
<1>6. CASE ReceiveChunk
  BY <1>6, ReceiveChunkStep
<1>7. CASE ReceiveEnd
  BY <1>7, ReceiveEndStep
<1>8. ASSUME NEW i \in DOMAIN channel, Repeat(i) PROVE TransferInv'
  BY <1>8, RepeatStep
<1>9. ASSUME NEW i \in DOMAIN channel, Overtake(i) PROVE TransferInv'
  BY <1>9, OvertakeStep
<1>10. ASSUME NEW i \in DOMAIN channel, Lose(i) PROVE TransferInv'
  BY <1>10, LoseStep
<1>11. CASE UNCHANGED vars
  BY <1>11 DEF vars, sender, receiver, TransferInv, Types, TypeOK, Sender, AllInOrder,
               InOrder, Receiver, IsStaged, NothingMissing, OnItsWay, ChunkOnItsWay
<1> QED
  BY <1>1, <1>2, <1>3, <1>4, <1>5, <1>6, <1>7, <1>8, <1>9, <1>10, <1>11 DEF Next

\* Every message on its way is in its place, and what the receiver holds are the
\* bytes of the chunks it has seen.
THEOREM TransferInvariant == Spec => []TransferInv
<1>1. Init => TransferInv
  BY InitInv
<1>2. TransferInv /\ [Next]_vars => TransferInv'
  BY TransferStep
<1> QED
  BY <1>1, <1>2, PTL DEF Spec

-----------------------------------------------------------------------------
(* What follows *)

\* The variables of send_file and of FileReceiveState keep their types; next never
\* passes the number of chunks announced.
THEOREM TypeCorrect == Spec => []TypeOK
<1>1. TransferInv => TypeOK
  BY DEF TransferInv, Types
<1> QED
  BY <1>1, TransferInvariant, PTL

\* A file nobody wrote to, of which no message is lost, arrives byte for byte,
\* whatever its size, the size of a chunk and the order the chunks come in.
THEOREM UnchangedArrive == Spec => []UnchangedArrives
<1>1. TransferInv => UnchangedArrives
  <2> SUFFICES ASSUME TransferInv, sending = "done", channel = <<>>, edits = 0,
                      ~lost, offer.size > 0
               PROVE  state = "delivered" /\ staged = file
    BY DEF UnchangedArrives
  <2>1. \A type : ~OnItsWay(type)
    BY DEF OnItsWay
  <2>2. state = "delivered"
    BY <2>1 DEF TransferInv, NothingMissing, Types, TypeOK
  <2> QED
    BY <2>2 DEF TransferInv, Receiver
<1> QED
  BY <1>1, TransferInvariant, PTL

\* A file that is delivered has the content the checksum of its FileEnd was
\* computed on, however it changed while its chunks were read.
THEOREM NoMixtures == Spec => []NoMixture
<1>1. TransferInv => NoMixture
  BY DEF TransferInv, Receiver, NoMixture
<1> QED
  BY <1>1, TransferInvariant, PTL

\* The staging file never holds more than the chunks of the offer.
THEOREM StaysWithinOffer == Spec => []WithinOffer
<1>1. TransferInv => WithinOffer
  BY DEF TransferInv, Receiver, WithinOffer
<1> QED
  BY <1>1, TransferInvariant, PTL

=============================================================================
