----------------------------- MODULE FileReceive -----------------------------
(***************************************************************************)
(* The receiving half of CoreImpl (core/src/core.cpp): staging of incoming *)
(* files, the inbox, and what the user does with its items.                *)
(*                                                                         *)
(* Two kinds of threads touch this state.  The transport's I/O thread runs *)
(* the message handlers; the threads of the user interface call            *)
(* act_on_item.  Both take state_mutex_ for the maps, but close, hash,     *)
(* copy and remove the staging files outside of it, so a file is handed    *)
(* from owner to owner: transfer -> I/O thread -> inbox item -> UI thread. *)
(*                                                                         *)
(* A size is counted in chunks (kChunkSizeBytes each), a chunk's data is   *)
(* the version of the source file it was read from, and a checksum names   *)
(* the version it was computed on.  The Reject that goes to a sender is    *)
(* left out: the sender's dispatch_envelope drops it.                      *)
(***************************************************************************)
EXTENDS Integers, FiniteSets, Functions

CONSTANTS
  Devices,       \* peers that may be paired
  Transfers,     \* transfer_id values on the wire
  Envelopes,     \* envelope_id values on the wire
  Files,         \* names of staging files (fresh UUIDs in the code)
  Versions,      \* contents the sender's file may have
  Callers,       \* threads that may call act_on_item
  MaxFileSize,   \* kMaxFileTransferBytes, in chunks
  MaxTransfers,  \* kMaxConcurrentTransfers
  MaxStaging,    \* kMaxStagingBytes, in chunks
  MaxInbox,      \* kMaxInboxItems
  IdleTimeout,   \* kTransferIdleTimeoutMs, in ticks
  MaxNow,        \* bound on the clock
  MaxRestarts    \* bound on the number of restarts

ASSUME SizesAssumption ==
  /\ MaxFileSize \in Nat \ {0}
  /\ MaxTransfers \in Nat \ {0}
  /\ MaxStaging \in Nat
  /\ MaxInbox \in Nat \ {0}
  /\ IdleTimeout \in Nat
  /\ MaxNow \in Nat
  /\ MaxRestarts \in Nat

ASSUME EnvelopesFinite == IsFiniteSet(Envelopes)

VARIABLES
  file_transfers,      \* transfer_id -> FileReceiveState
  file_transfer_meta,  \* transfer_id -> FileTransferMeta
  received_items,      \* envelope_id -> IncomingItem, the inbox
  disk,                \* staging file -> what each written chunk holds
  io,                  \* where handle_file_end is, on the I/O thread
  ui,                  \* where act_on_item is, per calling thread
  paired,              \* devices in device_store_
  now,                 \* now_unix_ms()
  restarts             \* times the process was restarted

tables == <<file_transfers, file_transfer_meta>>
vars == <<file_transfers, file_transfer_meta, received_items, disk, io, ui, paired,
          now, restarts>>

Chunks(n) == 0 .. (n - 1)
Sizes == 1 .. MaxFileSize
Announced == 0 .. (MaxFileSize + 1)  \* sizes a FileStart may carry
Times == 0 .. MaxNow
Content == UNION {[S -> Versions] : S \in SUBSET Chunks(MaxFileSize)}

Transfer == [file : Files, total : Sizes, got : SUBSET Chunks(MaxFileSize)]
Meta == [from : Devices, size : Sizes, last : Times]
TextItem == [kind : {"text"}, from : Devices, at : Times]
FileItem == [kind : {"file"}, from : Devices, at : Times,
             file : Files, size : Sizes]
Item == TextItem \union FileItem

Idle == [pc |-> "idle"]
EndOfFile == [pc : {"closed"}, env : Envelopes, from : Devices, file : Files,
              size : Sizes, got : SUBSET Chunks(MaxFileSize), sum : Versions]
Acting == [pc : {"save", "saved", "reject", "dismiss"},
           env : Envelopes, item : Item]

Init ==
  /\ file_transfers = [t \in {} |-> {}]
  /\ file_transfer_meta = [t \in {} |-> {}]
  /\ received_items = [e \in {} |-> {}]
  /\ disk = [f \in {} |-> {}]
  /\ io = Idle
  /\ ui = [c \in Callers |-> Idle]
  /\ paired = Devices
  /\ now = 0
  /\ restarts = 0

-----------------------------------------------------------------------------
(* Helpers *)

\* f without the keys in K, and f with key k set to v.
Without(f, K) == Restrict(f, DOMAIN f \ K)
Put(f, k, v) == [x \in DOMAIN f \union {k} |-> IF x = k THEN v ELSE f[x]]

IsFile(item) == item.kind = "file"
FilesOf(keys) == {received_items[e].file :
                    e \in {k \in keys : IsFile(received_items[k])}}
FileEntries == {e \in DOMAIN received_items : IsFile(received_items[e])}

\* purge_stale_transfers_locked: the transfers it drops.
StaleTransfers ==
  {t \in DOMAIN file_transfer_meta :
     now - file_transfer_meta[t].last > IdleTimeout}
StaleFiles ==
  {file_transfers[t].file : t \in StaleTransfers \intersect DOMAIN file_transfers}
LiveTransfers == Without(file_transfers, StaleTransfers)
\* Mutant: the purge forgets the metadata.
UnpurgedMeta == file_transfer_meta

LiveMeta == Without(file_transfer_meta, StaleTransfers)

\* What files of these sizes take together: as many as they have chunks.
TotalSize(sizes) ==
  Cardinality(UNION {{k} \X Chunks(sizes[k]) : k \in DOMAIN sizes})

\* Mutant: only the running transfers are counted.
TransferBytes(meta, items) ==
  TotalSize([t \in DOMAIN meta |-> meta[t].size])

\* staged_bytes_locked, over the metadata that is left after the purge.
StagedBytes(meta, items) ==
  TotalSize([t \in DOMAIN meta |-> meta[t].size])
    + TotalSize([e \in {x \in DOMAIN items : IsFile(items[x])} |-> items[e].size])

\* all_received and the comparison of checksums in handle_file_end.
AllReceived(end) == Cardinality(end.got) >= end.size
ChecksumMatches(end) == disk[end.file] = [i \in Chunks(end.size) |-> end.sum]
\* Mutant: the checksum is not compared.
Unverified(end) == AllReceived(end)

Verified(end) == AllReceived(end) /\ ChecksumMatches(end)

\* Mutant: the newest items make room.
KeepsOldest(e, kept) ==
  LET others == DOMAIN received_items \ {e}
  IN  /\ kept \subseteq others
      /\ IF Cardinality(others) < MaxInbox
           THEN kept = others
           ELSE /\ Cardinality(kept) = MaxInbox - 1
                /\ \A k \in kept, v \in others \ kept :
                     received_items[k].at <= received_items[v].at

\* deliver_item: replace the item with the same envelope_id, evict the oldest
\* items while the inbox is full, insert.  kept are the items that stay.
Keeps(e, kept) ==
  LET others == DOMAIN received_items \ {e}
  IN  /\ kept \subseteq others
      /\ IF Cardinality(others) < MaxInbox
           THEN kept = others
           ELSE /\ Cardinality(kept) = MaxInbox - 1
                /\ \A k \in kept, v \in others \ kept :
                     received_items[v].at <= received_items[k].at

\* Mutant: the file of a replaced item stays.
DeliverOver(e, item) ==
  \E kept \in SUBSET DOMAIN received_items :
    /\ Keeps(e, kept)
    /\ received_items' = Put(Restrict(received_items, kept), e, item)
    /\ disk' = Without(disk, FilesOf(DOMAIN received_items \ (kept \union {e})))

Deliver(e, item) ==
  \E kept \in SUBSET DOMAIN received_items :
    /\ Keeps(e, kept)
    /\ received_items' = Put(Restrict(received_items, kept), e, item)
    /\ disk' = Without(disk, FilesOf(DOMAIN received_items \ kept))

-----------------------------------------------------------------------------
(* The I/O thread: one message of a paired device at a time *)

\* handle_text_share and handle_clipboard_text.
HandleText(d, e) ==
  /\ io = Idle
  /\ d \in paired
  /\ Deliver(e, [kind |-> "text", from |-> d, at |-> now])
  /\ UNCHANGED <<tables, io, ui, paired, now, restarts>>

\* Mutant: no upper bound.
AnySize(size) == size > 0

\* handle_file_start refuses an offer of this size without looking further.
Admissible(size) == size > 0 /\ size <= MaxFileSize

\* handle_file_start's checks against the tables, in its order.
Admits(t, size) ==
  /\ Cardinality(DOMAIN LiveTransfers) < MaxTransfers
  /\ t \notin DOMAIN LiveTransfers
  /\ StagedBytes(LiveMeta, received_items) + size <= MaxStaging

HandleFileStart(d, t, size, f) ==
  /\ io = Idle
  /\ d \in paired
  /\ Admissible(size)
  /\ f \notin DOMAIN disk
  /\ IF Admits(t, size)
       THEN /\ file_transfers' = Put(LiveTransfers, t,
                                     [file |-> f, total |-> size, got |-> {}])
            /\ file_transfer_meta' = Put(LiveMeta, t,
                                         [from |-> d, size |-> size, last |-> now])
            /\ disk' = Put(Without(disk, StaleFiles), f, [i \in {} |-> {}])
       ELSE /\ file_transfers' = LiveTransfers
            /\ file_transfer_meta' = LiveMeta
            /\ disk' = Without(disk, StaleFiles)
  /\ UNCHANGED <<received_items, io, ui, paired, now, restarts>>

\* Mutant: the chunk is looked up before the purge.
ChunkBeforePurge(d, t, i, v, stored) ==
  /\ io = Idle
  /\ d \in paired
  /\ t \in DOMAIN file_transfers
  /\ i \in Chunks(file_transfers[t].total)
  /\ file_transfers' = [file_transfers EXCEPT ![t].got = @ \union {i}]
  /\ file_transfer_meta' = [file_transfer_meta EXCEPT ![t].last = now]
  /\ LET f == file_transfers[t].file
         left == disk
     IN  disk' = IF stored THEN [left EXCEPT ![f] = Put(@, i, v)] ELSE left
  /\ UNCHANGED <<received_items, io, ui, paired, now, restarts>>

\* handle_file_chunk, for a transfer that survives the purge.  The write itself
\* may fail (stored = FALSE, the disk is full): write_chunk does not look, and
\* counts the chunk as received.
HandleFileChunk(d, t, i, v, stored) ==
  /\ io = Idle
  /\ d \in paired
  /\ t \in DOMAIN LiveTransfers
  /\ i \in Chunks(LiveTransfers[t].total)
  /\ file_transfers' = [LiveTransfers EXCEPT ![t].got = @ \union {i}]
  /\ file_transfer_meta' = [LiveMeta EXCEPT ![t].last = now]
  /\ LET f == LiveTransfers[t].file
         left == Without(disk, StaleFiles)
     IN  disk' = IF stored THEN [left EXCEPT ![f] = Put(@, i, v)] ELSE left
  /\ UNCHANGED <<received_items, io, ui, paired, now, restarts>>

\* handle_file_chunk returns after its purge: the transfer is unknown, expired,
\* or has no such chunk.
IgnoreFileChunk(d, t, i) ==
  /\ io = Idle
  /\ d \in paired
  /\ t \in DOMAIN LiveTransfers => i \notin Chunks(LiveTransfers[t].total)
  /\ file_transfers' = LiveTransfers
  /\ file_transfer_meta' = LiveMeta
  /\ disk' = Without(disk, StaleFiles)
  /\ UNCHANGED <<received_items, io, ui, paired, now, restarts>>

\* handle_file_end up to the unlock: the transfer leaves both tables.
HandleFileEnd(d, e, t, v) ==
  /\ io = Idle
  /\ d \in paired
  /\ t \in DOMAIN file_transfers
  /\ file_transfers' = Without(file_transfers, {t})
  /\ file_transfer_meta' = Without(file_transfer_meta, {t})
  /\ io' = [pc |-> "closed", env |-> e, from |-> file_transfer_meta[t].from,
            file |-> file_transfers[t].file, size |-> file_transfers[t].total,
            got |-> file_transfers[t].got, sum |-> v]
  /\ UNCHANGED <<received_items, disk, ui, paired, now, restarts>>

\* handle_file_end, the file is incomplete or is not what was announced: it goes,
\* and the sender is told if it is still paired.
DiscardFile ==
  /\ io # Idle
  /\ ~Verified(io)
  /\ disk' = Without(disk, {io.file})
  /\ io' = Idle
  /\ UNCHANGED <<tables, received_items, ui, paired, now, restarts>>

\* handle_file_end, the file is good: deliver_item.
DeliverFile ==
  /\ io # Idle
  /\ Verified(io)
  /\ Deliver(io.env, [kind |-> "file", from |-> io.from, at |-> now,
                      file |-> io.file, size |-> io.size])
  /\ io' = Idle
  /\ UNCHANGED <<tables, ui, paired, now, restarts>>

-----------------------------------------------------------------------------
(* A thread of the user interface in act_on_item *)

\* Mutant: the item stays in the inbox.
ActAndKeep(c, e, action) ==
  /\ ui[c] = Idle
  /\ e \in DOMAIN received_items
  /\ ui' = [ui EXCEPT ![c] = [pc |-> action, env |-> e,
                              item |-> received_items[e]]]
  /\ UNCHANGED <<tables, received_items, disk, io, paired, now, restarts>>

\* The part under state_mutex_: the item leaves the inbox.  (kCopy leaves it
\* there and does nothing else; an unknown envelope_id returns.)
ActOnItem(c, e, action) ==
  /\ ui[c] = Idle
  /\ e \in DOMAIN received_items
  /\ received_items' = Without(received_items, {e})
  /\ ui' = [ui EXCEPT ![c] = [pc |-> action, env |-> e,
                              item |-> received_items[e]]]
  /\ UNCHANGED <<tables, disk, io, paired, now, restarts>>

\* kSave: copy_file succeeded.
CopyOut(c) ==
  /\ ui[c].pc = "save"
  /\ IsFile(ui[c].item)
  /\ ui' = [ui EXCEPT ![c].pc = "saved"]
  /\ UNCHANGED <<tables, received_items, disk, io, paired, now, restarts>>

\* kSave of a text does nothing; kSave of a file whose copy_file failed keeps
\* the staging file and forgets it.
SaveNothing(c) ==
  /\ ui[c].pc = "save"
  /\ ui' = [ui EXCEPT ![c] = Idle]
  /\ UNCHANGED <<tables, received_items, disk, io, paired, now, restarts>>

\* The staging file of an item goes, if it has one.
DiskAfterRemoving(item) ==
  IF IsFile(item) THEN Without(disk, {item.file}) ELSE disk

\* kSave after the copy, and kDismiss.
RemoveStaged(c) ==
  /\ ui[c].pc \in {"saved", "dismiss"}
  /\ disk' = DiskAfterRemoving(ui[c].item)
  /\ ui' = [ui EXCEPT ![c] = Idle]
  /\ UNCHANGED <<tables, received_items, io, paired, now, restarts>>

\* kReject: the file goes, and the sender is told if it is still paired.
RejectItem(c) ==
  /\ ui[c].pc = "reject"
  /\ disk' = DiskAfterRemoving(ui[c].item)
  /\ ui' = [ui EXCEPT ![c] = Idle]
  /\ UNCHANGED <<tables, received_items, io, paired, now, restarts>>

-----------------------------------------------------------------------------
(* The rest of the program and the outside *)

\* remove_device.  Neither transfers nor items of the device are touched.
RemoveDevice(d) ==
  /\ d \in paired
  /\ paired' = paired \ {d}
  /\ UNCHANGED <<tables, received_items, disk, io, ui, now, restarts>>

\* The device is paired again (accept_pairing, handle_pair_response).
PairDevice(d) ==
  /\ d \notin paired
  /\ paired' = paired \union {d}
  /\ UNCHANGED <<tables, received_items, disk, io, ui, now, restarts>>

Tick ==
  /\ now < MaxNow
  /\ now' = now + 1
  /\ UNCHANGED <<tables, received_items, disk, io, ui, paired, restarts>>

\* shutdown or a crash, and a new start: only the devices and the directory of
\* staging files survive, and nothing looks at what the directory holds.
Restart ==
  /\ restarts < MaxRestarts
  /\ restarts' = restarts + 1
  /\ file_transfers' = [t \in {} |-> {}]
  /\ file_transfer_meta' = [t \in {} |-> {}]
  /\ received_items' = [e \in {} |-> {}]
  /\ io' = Idle
  /\ ui' = [c \in Callers |-> Idle]
  /\ UNCHANGED <<disk, paired, now>>

IOThread ==
  \/ \E d \in Devices, e \in Envelopes : HandleText(d, e)
  \/ \E d \in Devices, t \in Transfers, n \in Announced, f \in Files :
       HandleFileStart(d, t, n, f)
  \/ \E d \in Devices, t \in Transfers, i \in Chunks(MaxFileSize),
        v \in Versions, stored \in BOOLEAN : HandleFileChunk(d, t, i, v, stored)
  \/ \E d \in Devices, t \in Transfers, i \in Chunks(MaxFileSize) :
       IgnoreFileChunk(d, t, i)
  \/ \E d \in Devices, e \in Envelopes, t \in Transfers, v \in Versions :
       HandleFileEnd(d, e, t, v)
  \/ DiscardFile
  \/ DeliverFile

UIThread(c) ==
  \/ \E e \in Envelopes, action \in {"save", "reject", "dismiss"} :
       ActOnItem(c, e, action)
  \/ CopyOut(c)
  \/ SaveNothing(c)
  \/ RemoveStaged(c)
  \/ RejectItem(c)

Environment ==
  \/ \E d \in Devices : RemoveDevice(d) \/ PairDevice(d)
  \/ Tick
  \/ Restart

Next == IOThread \/ (\E c \in Callers : UIThread(c)) \/ Environment

Spec == Init /\ [][Next]_vars

-----------------------------------------------------------------------------
(* Who owns a staging file *)

TransferFiles == {file_transfers[t].file : t \in DOMAIN file_transfers}
ItemFiles == {received_items[e].file : e \in FileEntries}
IOFiles == IF io = Idle THEN {} ELSE {io.file}
FileActors == {c \in Callers : ui[c] # Idle /\ IsFile(ui[c].item)}
UIFiles == {ui[c].item.file : c \in FileActors}

Owned == TransferFiles \union ItemFiles \union IOFiles \union UIFiles

\* The stage of each staging file, for the abstract specification.
Stage ==
  [f \in Files |->
     IF f \in TransferFiles THEN "receiving"
     ELSE IF f \in IOFiles THEN "checking"
     ELSE IF f \in ItemFiles THEN "offered"
     ELSE IF f \in UIFiles THEN "taken"
     ELSE IF f \in DOMAIN disk THEN "lost"
     ELSE "none"]

Lifecycle == INSTANCE FileLifecycle WITH stage <- Stage

\* The receiver implements FileLifecycle: no purge, eviction, replacement,
\* refusal or user action leaves a file behind, skips the check, or removes a
\* file that belongs to somebody else.
ImplementsLifecycle == Lifecycle!Spec

\* Types of the variables.
TypeOK ==
  /\ DOMAIN file_transfers \subseteq Transfers
  /\ file_transfers \in [DOMAIN file_transfers -> Transfer]
  /\ DOMAIN file_transfer_meta \subseteq Transfers
  /\ file_transfer_meta \in [DOMAIN file_transfer_meta -> Meta]
  /\ DOMAIN received_items \subseteq Envelopes
  /\ received_items \in [DOMAIN received_items -> Item]
  /\ DOMAIN disk \subseteq Files
  /\ disk \in [DOMAIN disk -> Content]
  /\ io \in {Idle} \union EndOfFile
  /\ ui \in [Callers -> {Idle} \union Acting]
  /\ paired \subseteq Devices
  /\ now \in Times
  /\ restarts \in 0 .. MaxRestarts

\* The two tables of transfers always hold the same transfers, of the same size
\* (handle_file_start, handle_file_end and the purge update both or neither).
TablesAgree ==
  /\ DOMAIN file_transfers = DOMAIN file_transfer_meta
  /\ \A t \in DOMAIN file_transfers :
       file_transfers[t].total = file_transfer_meta[t].size

\* Whoever may still read or remove a staging file finds it on disk: no purge,
\* eviction or replacement removes a file under another owner's hands, such as
\* a copy_file that act_on_item runs without the lock.
NoDanglingFile == Owned \subseteq DOMAIN disk

\* A staging file has one owner: two transfers, items or threads never share one,
\* and a file handed on by handle_file_end or act_on_item is no longer held by
\* the table it was taken from.
OneTransfer == \A t, u \in DOMAIN file_transfers :
                 file_transfers[t].file = file_transfers[u].file => t = u
OneItem == \A e, g \in FileEntries :
             received_items[e].file = received_items[g].file => e = g
OneActor == \A c, b \in FileActors :
              ui[c].item.file = ui[b].item.file => c = b
SingleOwner ==
  /\ OneTransfer
  /\ OneItem
  /\ OneActor
  /\ TransferFiles \intersect (ItemFiles \union IOFiles \union UIFiles) = {}
  /\ ItemFiles \intersect (IOFiles \union UIFiles) = {}
  /\ IOFiles \intersect UIFiles = {}

\* What the inbox offers, and what a save copies, is the whole file in the one
\* version the sender's checksum was computed on.
Intact(item) ==
  IsFile(item) =>
    \E v \in Versions : disk[item.file] = [i \in Chunks(item.size) |-> v]
DeliveredIntact ==
  /\ \A e \in DOMAIN received_items : Intact(received_items[e])
  /\ \A c \in Callers : ui[c] # Idle => Intact(ui[c].item)

\* The caps hold at every moment, for what is really held: the announced sizes of
\* all files that are being received or offered, and of the one in
\* handle_file_end's hands, which staged_bytes_locked sees in neither table.
WithinLimits ==
  /\ Cardinality(DOMAIN file_transfers) <= MaxTransfers
  /\ Cardinality(DOMAIN received_items) <= MaxInbox
  /\ TotalSize([t \in DOMAIN file_transfers |-> file_transfers[t].total])
       + TotalSize([e \in FileEntries |-> received_items[e].size])
       + (IF io = Idle THEN 0 ELSE io.size) <= MaxStaging

\* A transfer that has been idle past the timeout is never refreshed: a late
\* chunk finds it purged, whatever came in between.
NoRevival ==
  [][\A t \in StaleTransfers :
       t \in DOMAIN file_transfer_meta' =>
         file_transfer_meta'[t] = file_transfer_meta[t]
           \/ file_transfers'[t].got = {}]_vars

\* An item leaves the inbox because a user acted on it, because its envelope_id
\* came again, or because the inbox was full, and then an older one never stays
\* in its place.
InboxLoss ==
  [][restarts' = restarts =>
       \A e \in DOMAIN received_items \ DOMAIN received_items' :
         \/ \E c \in Callers : ui'[c] # ui[c] /\ ui'[c].env = e
         \/ /\ Cardinality(DOMAIN received_items) = MaxInbox
            /\ \A g \in DOMAIN received_items \intersect DOMAIN received_items' :
                 received_items'[g] = received_items[g] =>
                   received_items[e].at <= received_items[g].at]_vars
=============================================================================
