------------------------- MODULE FileReceiveProofs -------------------------
(***************************************************************************)
(* Proofs about FileReceive: its types, who owns which staging file, that  *)
(* what is offered stays intact, that expired transfers stay expired, that *)
(* it implements FileLifecycle, that the caps hold, and what may leave the *)
(* inbox.                                                                  *)
(***************************************************************************)
EXTENDS FileReceive, FiniteSetTheorems, TLAPS

-----------------------------------------------------------------------------
(* Lemmas on maps *)

\* Removing keys from a map keeps the other entries as they are.
LEMMA WithoutMap ==
  ASSUME NEW S, NEW D, NEW f \in [D -> S], NEW K
  PROVE  /\ DOMAIN Without(f, K) = D \ K
         /\ Without(f, K) \in [D \ K -> S]
         /\ \A x \in D \ K : Without(f, K)[x] = f[x]
BY DEF Without, Restrict

\* Setting a key of a map adds the key and keeps the other entries.
LEMMA PutMap ==
  ASSUME NEW S, NEW D, NEW f \in [D -> S], NEW k, NEW v \in S
  PROVE  /\ DOMAIN Put(f, k, v) = D \union {k}
         /\ Put(f, k, v) \in [D \union {k} -> S]
         /\ Put(f, k, v)[k] = v
         /\ \A x \in D \ {k} : Put(f, k, v)[x] = f[x]
BY DEF Put

\* Restricting a map to some of its keys keeps their entries.
LEMMA RestrictMap ==
  ASSUME NEW S, NEW D, NEW f \in [D -> S], NEW K \in SUBSET D
  PROVE  /\ DOMAIN Restrict(f, K) = K
         /\ Restrict(f, K) \in [K -> S]
         /\ \A x \in K : Restrict(f, K)[x] = f[x]
BY DEF Restrict

\* A chunk written to a staging file leaves it a content.
LEMMA PutContent ==
  ASSUME NEW g \in Content, NEW i \in Chunks(MaxFileSize), NEW v \in Versions
  PROVE  Put(g, i, v) \in Content
<1>1. PICK S \in SUBSET Chunks(MaxFileSize) : g \in [S -> Versions]
  BY DEF Content
<1>2. Put(g, i, v) \in [S \union {i} -> Versions]
  BY <1>1 DEF Put
<1>3. S \union {i} \in SUBSET Chunks(MaxFileSize)
  BY <1>1
<1> QED BY <1>2, <1>3 DEF Content

-----------------------------------------------------------------------------
(* The type invariant *)

\* What the purge leaves of the tables and of the directory has the same types.
LEMMA PurgeType ==
  ASSUME TypeOK
  PROVE  /\ LiveTransfers \in [DOMAIN file_transfers \ StaleTransfers -> Transfer]
         /\ DOMAIN LiveTransfers = DOMAIN file_transfers \ StaleTransfers
         /\ LiveMeta \in [DOMAIN file_transfer_meta \ StaleTransfers -> Meta]
         /\ DOMAIN LiveMeta = DOMAIN file_transfer_meta \ StaleTransfers
         /\ \A K : /\ Without(disk, K) \in [DOMAIN disk \ K -> Content]
                   /\ DOMAIN Without(disk, K) = DOMAIN disk \ K
BY DEF TypeOK, LiveTransfers, LiveMeta, Without, Restrict

\* deliver_item keeps the inbox and the directory well typed.
LEMMA DeliverType ==
  ASSUME TypeOK, NEW e \in Envelopes, NEW item \in Item, Deliver(e, item)
  PROVE  /\ DOMAIN received_items' \subseteq Envelopes
         /\ received_items' \in [DOMAIN received_items' -> Item]
         /\ DOMAIN disk' \subseteq Files
         /\ disk' \in [DOMAIN disk' -> Content]
<1>1. PICK kept \in SUBSET DOMAIN received_items :
        /\ received_items' = Put(Restrict(received_items, kept), e, item)
        /\ disk' = Without(disk, FilesOf(DOMAIN received_items \ kept))
  BY DEF Deliver
<1>2. Restrict(received_items, kept) \in [kept -> Item]
  BY RestrictMap DEF TypeOK
<1>3. received_items' \in [kept \union {e} -> Item]
  BY <1>1, <1>2, PutMap
<1> QED BY <1>1, <1>3 DEF TypeOK, Without, Restrict

\* A step keeps the types, given that the two tables agree on their keys.
LEMMA TypeStep ==
  ASSUME TypeOK, TablesAgree, [Next]_vars
  PROVE  TypeOK'
<1> USE SizesAssumption
<1> DEFINE TablesType(ft, fm) ==
             /\ DOMAIN ft \subseteq Transfers
             /\ ft \in [DOMAIN ft -> Transfer]
             /\ DOMAIN fm \subseteq Transfers
             /\ fm \in [DOMAIN fm -> Meta]
           DiskType(d) == DOMAIN d \subseteq Files /\ d \in [DOMAIN d -> Content]
<1>a. TablesType(LiveTransfers, LiveMeta)
  BY PurgeType DEF TypeOK
<1>b. ASSUME NEW K PROVE DiskType(Without(disk, K))
  BY DEF TypeOK, Without, Restrict
<1>1. ASSUME NEW d \in Devices, NEW e \in Envelopes, HandleText(d, e)
      PROVE  TypeOK'
  <2>1. [kind |-> "text", from |-> d, at |-> now] \in Item
    BY DEF TypeOK, Item, TextItem
  <2> QED BY <1>1, <2>1, DeliverType DEF HandleText, TypeOK, tables
<1>2. ASSUME NEW d \in Devices, NEW t \in Transfers, NEW n \in Announced,
             NEW f \in Files, HandleFileStart(d, t, n, f)
      PROVE  TypeOK'
  <2>0. n \in Sizes
    BY <1>2 DEF HandleFileStart, Admissible, Announced, Sizes
  <2>1. [file |-> f, total |-> n, got |-> {}] \in Transfer
    BY <2>0 DEF Transfer
  <2>2. [from |-> d, size |-> n, last |-> now] \in Meta
    BY <2>0 DEF Meta, TypeOK
  <2>3. [i \in {} |-> {}] \in Content
    <3>1. [i \in {} |-> {}] \in [{} -> Versions] /\ {} \in SUBSET Chunks(MaxFileSize)
      OBVIOUS
    <3> QED BY <3>1 DEF Content
  <2>4. TablesType(file_transfers', file_transfer_meta')
    <3>1. CASE Admits(t, n)
      <4> DEFINE tr == [file |-> f, total |-> n, got |-> {}]
                 me == [from |-> d, size |-> n, last |-> now]
                 lt == LiveTransfers
                 lm == LiveMeta
      <4>1. /\ file_transfers' = Put(lt, t, tr)
            /\ file_transfer_meta' = Put(lm, t, me)
        BY <1>2, <3>1 DEF HandleFileStart
      <4>2. tr \in Transfer /\ me \in Meta /\ TablesType(lt, lm)
        BY <1>a, <2>1, <2>2
      <4> HIDE DEF tr, me, lt, lm
      <4> QED BY <4>1, <4>2 DEF Put
    <3>2. CASE ~Admits(t, n)
      BY <1>2, <1>a, <3>2 DEF HandleFileStart
    <3> QED BY <3>1, <3>2
  <2>5. DiskType(disk')
    <3> DEFINE left == Without(disk, StaleFiles)
    <3>1. DiskType(left)
      BY <1>b
    <3> HIDE DEF left
    <3>2. DiskType(Put(left, f, [i \in {} |-> {}]))
      BY <2>3, <3>1 DEF Put
    <3> QED BY <1>2, <3>1, <3>2 DEF HandleFileStart, left
  <2> QED BY <1>2, <2>4, <2>5 DEF HandleFileStart, TypeOK
<1>3. ASSUME NEW d \in Devices, NEW t \in Transfers,
             NEW i \in Chunks(MaxFileSize), NEW v \in Versions,
             NEW stored \in BOOLEAN, HandleFileChunk(d, t, i, v, stored)
      PROVE  TypeOK'
  <2>1. TablesType(file_transfers', file_transfer_meta')
    <3> DEFINE lt == LiveTransfers
               lm == LiveMeta
    <3>1. /\ file_transfers' = [lt EXCEPT ![t].got = @ \union {i}]
          /\ file_transfer_meta' = [lm EXCEPT ![t].last = now]
          /\ t \in DOMAIN lt /\ t \in DOMAIN lm
      BY <1>3, PurgeType DEF HandleFileChunk, TablesAgree
    <3>2. TablesType(lt, lm) /\ now \in Times
      BY <1>a DEF TypeOK
    <3> HIDE DEF lt, lm
    <3> QED BY <3>1, <3>2 DEF Transfer, Meta
  <2>2. DiskType(disk')
    <3> DEFINE left == Without(disk, StaleFiles)
               f == LiveTransfers[t].file
    <3>1. DiskType(left)
      BY <1>b
    <3> HIDE DEF left, f
    <3>2. DiskType([left EXCEPT ![f] = Put(@, i, v)])
      BY <3>1, PutContent
    <3> QED BY <1>3, <3>1, <3>2 DEF HandleFileChunk, left, f
  <2> QED BY <1>3, <2>1, <2>2 DEF HandleFileChunk, TypeOK
<1>4. ASSUME NEW d \in Devices, NEW t \in Transfers,
             NEW i \in Chunks(MaxFileSize), IgnoreFileChunk(d, t, i)
      PROVE  TypeOK'
  BY <1>4, <1>a, <1>b DEF IgnoreFileChunk, TypeOK
<1>5. ASSUME NEW d \in Devices, NEW e \in Envelopes, NEW t \in Transfers,
             NEW v \in Versions, HandleFileEnd(d, e, t, v)
      PROVE  TypeOK'
  <2>1. TablesType(file_transfers', file_transfer_meta')
    BY <1>5 DEF HandleFileEnd, TypeOK, Without, Restrict
  <2>2. io' \in EndOfFile
    BY <1>5 DEF HandleFileEnd, TypeOK, TablesAgree, EndOfFile, Transfer, Meta
  <2> QED BY <1>5, <2>1, <2>2 DEF HandleFileEnd, TypeOK
<1>6. CASE DiscardFile
  <2>1. io \in EndOfFile /\ io.env \in Envelopes
    BY <1>6 DEF DiscardFile, TypeOK, EndOfFile
  <2> QED BY <1>6, <1>b, <2>1 DEF DiscardFile, TypeOK, tables
<1>7. CASE DeliverFile
  <2> DEFINE item == [kind |-> "file", from |-> io.from, at |-> now,
                      file |-> io.file, size |-> io.size]
  <2>1. io.env \in Envelopes /\ item \in Item
    BY <1>7 DEF DeliverFile, TypeOK, EndOfFile, Item, FileItem
  <2>2. Deliver(io.env, item)
    BY <1>7 DEF DeliverFile
  <2> HIDE DEF item
  <2> QED BY <1>7, <2>1, <2>2, DeliverType DEF DeliverFile, TypeOK, tables
<1>8. ASSUME NEW c \in Callers, UIThread(c)
      PROVE  TypeOK'
  <2>a. DiskType(DiskAfterRemoving(ui[c].item))
    BY <1>b DEF DiskAfterRemoving, TypeOK
  <2>b. ui[c] # Idle => /\ ui[c] \in Acting
                        /\ ui[c].env \in Envelopes
                        /\ ui[c].item \in Item
                        /\ IsFile(ui[c].item) => ui[c].item.file \in Files
    BY DEF TypeOK, Acting, Item, TextItem, FileItem, IsFile
  <2>1. ASSUME NEW e \in Envelopes,
               NEW action \in {"save", "reject", "dismiss"},
               ActOnItem(c, e, action)
        PROVE  TypeOK'
    <3>1. ui'[c] \in Acting
      BY <2>1 DEF ActOnItem, TypeOK, Acting
    <3>2. /\ DOMAIN received_items' \subseteq Envelopes
          /\ received_items' \in [DOMAIN received_items' -> Item]
      BY <2>1 DEF ActOnItem, TypeOK, Without, Restrict
    <3> QED BY <2>1, <3>1, <3>2 DEF ActOnItem, TypeOK, tables
  <2>2. CASE CopyOut(c)
    <3>1. ui'[c] \in Acting
      BY <2>2, <2>b DEF CopyOut, Idle, TypeOK, Acting
    <3> QED BY <2>2, <3>1 DEF CopyOut, TypeOK, tables
  <2>3. CASE SaveNothing(c)
    <3>1. ui[c] # Idle
      BY <2>3 DEF SaveNothing, Idle
    <3> QED BY <2>3, <2>b, <3>1 DEF SaveNothing, TypeOK, tables
  <2>4. CASE RemoveStaged(c)
    BY <2>4, <2>a DEF RemoveStaged, TypeOK, tables
  <2>5. CASE RejectItem(c)
    <3>1. ui[c] # Idle
      BY <2>5 DEF RejectItem, Idle
    <3> QED BY <2>5, <2>a, <2>b, <3>1 DEF RejectItem, TypeOK, tables
  <2> QED BY <1>8, <2>1, <2>2, <2>3, <2>4, <2>5 DEF UIThread
<1>9. CASE Environment
  <2>1. ASSUME NEW d \in Devices, RemoveDevice(d) \/ PairDevice(d)
        PROVE  TypeOK'
    BY <2>1 DEF RemoveDevice, PairDevice, TypeOK, tables
  <2>2. CASE Tick
    BY <2>2 DEF Tick, TypeOK, tables, Times
  <2>3. CASE Restart
    BY <2>3 DEF Restart, TypeOK
  <2> QED BY <1>9, <2>1, <2>2, <2>3 DEF Environment
<1>10. CASE UNCHANGED vars
  BY <1>10 DEF vars, TypeOK
<1> QED
  BY <1>1, <1>2, <1>3, <1>4, <1>5, <1>6, <1>7, <1>8, <1>9, <1>10
  DEF Next, IOThread

-----------------------------------------------------------------------------
(* The two tables agree *)

LEMMA TablesStep ==
  ASSUME TypeOK, TablesAgree, [Next]_vars
  PROVE  TablesAgree'
<1> DEFINE Agree(ft, fm) == /\ DOMAIN ft = DOMAIN fm
                            /\ \A t \in DOMAIN ft : ft[t].total = fm[t].size
<1>a. Agree(LiveTransfers, LiveMeta)
  BY DEF TypeOK, TablesAgree, LiveTransfers, LiveMeta, Without, Restrict
<1>b. UNCHANGED tables => TablesAgree'
  BY DEF tables, TablesAgree
<1>1. ASSUME NEW d \in Devices, NEW t \in Transfers, NEW n \in Announced,
             NEW f \in Files, HandleFileStart(d, t, n, f)
      PROVE  TablesAgree'
  <2> DEFINE lt == LiveTransfers
             lm == LiveMeta
  <2>1. \/ /\ file_transfers' = Put(lt, t, [file |-> f, total |-> n, got |-> {}])
           /\ file_transfer_meta' = Put(lm, t, [from |-> d, size |-> n, last |-> now])
        \/ file_transfers' = lt /\ file_transfer_meta' = lm
    BY <1>1 DEF HandleFileStart
  <2>2. Agree(lt, lm)
    BY <1>a
  <2> HIDE DEF lt, lm
  <2> QED BY <2>1, <2>2 DEF TablesAgree, Put
<1>2. ASSUME NEW d \in Devices, NEW t \in Transfers,
             NEW i \in Chunks(MaxFileSize), NEW v \in Versions,
             NEW stored \in BOOLEAN, HandleFileChunk(d, t, i, v, stored)
      PROVE  TablesAgree'
  <2> DEFINE lt == LiveTransfers
             lm == LiveMeta
  <2>1. /\ file_transfers' = [lt EXCEPT ![t].got = @ \union {i}]
        /\ file_transfer_meta' = [lm EXCEPT ![t].last = now]
        /\ t \in DOMAIN lt
    BY <1>2 DEF HandleFileChunk
  <2>2. Agree(lt, lm) /\ lt \in [DOMAIN lt -> Transfer] /\ lm \in [DOMAIN lm -> Meta]
    BY <1>a, PurgeType
  <2> HIDE DEF lt, lm
  <2> QED BY <2>1, <2>2 DEF TablesAgree, Transfer, Meta
<1>3. ASSUME NEW d \in Devices, NEW t \in Transfers,
             NEW i \in Chunks(MaxFileSize), IgnoreFileChunk(d, t, i)
      PROVE  TablesAgree'
  BY <1>3, <1>a DEF IgnoreFileChunk, TablesAgree
<1>4. ASSUME NEW d \in Devices, NEW e \in Envelopes, NEW t \in Transfers,
             NEW v \in Versions, HandleFileEnd(d, e, t, v)
      PROVE  TablesAgree'
  BY <1>4 DEF HandleFileEnd, TypeOK, TablesAgree, Without, Restrict
<1>5. CASE Restart
  BY <1>5 DEF Restart, TablesAgree
<1>6. ASSUME NEW d \in Devices, NEW e \in Envelopes, HandleText(d, e)
      PROVE  UNCHANGED tables
  BY <1>6 DEF HandleText
<1>7. DiscardFile \/ DeliverFile => UNCHANGED tables
  BY DEF DiscardFile, DeliverFile
<1>8. ASSUME NEW c \in Callers, UIThread(c)
      PROVE  UNCHANGED tables
  BY <1>8 DEF UIThread, ActOnItem, CopyOut, SaveNothing, RemoveStaged, RejectItem
<1>9. ASSUME NEW d \in Devices
      PROVE  RemoveDevice(d) \/ PairDevice(d) => UNCHANGED tables
  BY DEF RemoveDevice, PairDevice
<1>10. Tick => UNCHANGED tables
  BY DEF Tick
<1>11. UNCHANGED vars => UNCHANGED tables
  BY DEF vars, tables
<1> QED
  BY <1>b, <1>1, <1>2, <1>3, <1>4, <1>5, <1>6, <1>7, <1>8, <1>9, <1>10, <1>11
  DEF Next, IOThread, Environment

\* The variables keep their types, and the two tables agree, in every behaviour.
THEOREM TypeCorrect == Spec => [](TypeOK /\ TablesAgree)
<1>1. Init => TypeOK /\ TablesAgree
  BY SizesAssumption DEF Init, TypeOK, TablesAgree, Times
<1>2. TypeOK /\ TablesAgree /\ [Next]_vars => (TypeOK /\ TablesAgree)'
  BY TypeStep, TablesStep
<1> QED BY <1>1, <1>2, PTL DEF Spec

-----------------------------------------------------------------------------
(* Who owns which file: what each part of a step does to the four sets *)

\* The ownership invariant, inductive.
OwnershipInv == TypeOK /\ TablesAgree /\ NoDanglingFile /\ SingleOwner

\* The purge drops the files of stale transfers, and of nobody else.
LEMMA PurgeFiles ==
  ASSUME TypeOK, TablesAgree, OneTransfer
  PROVE  /\ StaleFiles \subseteq TransferFiles
         /\ {LiveTransfers[t].file : t \in DOMAIN LiveTransfers}
              = TransferFiles \ StaleFiles
         /\ \A t, u \in DOMAIN LiveTransfers :
              LiveTransfers[t].file = LiveTransfers[u].file => t = u
<1>1. /\ DOMAIN LiveTransfers = DOMAIN file_transfers \ StaleTransfers
      /\ \A t \in DOMAIN LiveTransfers : LiveTransfers[t] = file_transfers[t]
  BY DEF LiveTransfers, Without, Restrict
<1>2. \A t, u \in DOMAIN file_transfers :
        file_transfers[t].file = file_transfers[u].file => t = u
  BY DEF OneTransfer
<1>3. StaleFiles = {file_transfers[t].file :
                      t \in StaleTransfers \intersect DOMAIN file_transfers}
  BY DEF StaleFiles
<1> QED BY <1>1, <1>2, <1>3 DEF TransferFiles

\* deliver_item removes the files of the items it drops, and owns the new one.
LEMMA DeliverFiles ==
  ASSUME TypeOK, OneItem, NEW e \in Envelopes, NEW item \in Item,
         Deliver(e, item), IsFile(item) => item.file \notin ItemFiles
  PROVE  /\ OneItem'
         /\ \E removed \in SUBSET ItemFiles :
              /\ ItemFiles' = (ItemFiles \ removed)
                                \union (IF IsFile(item) THEN {item.file} ELSE {})
              /\ DOMAIN disk' = DOMAIN disk \ removed
              /\ \A f \in DOMAIN disk' : disk'[f] = disk[f]
<1>1. PICK kept \in SUBSET DOMAIN received_items :
        /\ Keeps(e, kept)
        /\ received_items' = Put(Restrict(received_items, kept), e, item)
        /\ disk' = Without(disk, FilesOf(DOMAIN received_items \ kept))
  BY DEF Deliver
<1> DEFINE removed == FilesOf(DOMAIN received_items \ kept)
           keptFiles == FilesOf(kept)
<1>2. e \notin kept
  BY <1>1 DEF Keeps
<1>3. /\ DOMAIN received_items' = kept \union {e}
      /\ received_items'[e] = item
      /\ \A g \in kept : received_items'[g] = received_items[g]
  BY <1>1, <1>2 DEF Put, Restrict
<1>4. /\ removed \subseteq ItemFiles
      /\ keptFiles = ItemFiles \ removed
  BY DEF FilesOf, ItemFiles, FileEntries, OneItem
<1>5. ItemFiles' = keptFiles \union (IF IsFile(item) THEN {item.file} ELSE {})
  BY <1>2, <1>3 DEF ItemFiles, FileEntries, FilesOf, IsFile
<1>6. OneItem'
  BY <1>2, <1>3 DEF OneItem, ItemFiles, FileEntries, IsFile
<1>7. /\ DOMAIN disk' = DOMAIN disk \ removed
      /\ \A f \in DOMAIN disk' : disk'[f] = disk[f]
  BY <1>1 DEF Without, Restrict
<1> QED BY <1>4, <1>5, <1>6, <1>7

\* act_on_item's critical section hands the file of the item to the caller.
LEMMA TakeFiles ==
  ASSUME OwnershipInv, NEW c \in Callers, NEW e \in Envelopes,
         NEW action \in {"save", "reject", "dismiss"}, ActOnItem(c, e, action)
  PROVE  /\ OneItem' /\ OneActor'
         /\ \E moved \in SUBSET ItemFiles :
              /\ \A f, g \in moved : f = g
              /\ ItemFiles' = ItemFiles \ moved
              /\ UIFiles' = UIFiles \union moved
<1> DEFINE item == received_items[e]
           moved == IF IsFile(item) THEN {item.file} ELSE {}
<1>1. /\ e \in DOMAIN received_items
      /\ DOMAIN received_items' = DOMAIN received_items \ {e}
      /\ \A g \in DOMAIN received_items' : received_items'[g] = received_items[g]
  BY DEF ActOnItem, Without, Restrict
<1>2. /\ ui[c] = Idle
      /\ ui'[c] = [pc |-> action, env |-> e, item |-> item]
      /\ \A b \in Callers \ {c} : ui'[b] = ui[b]
  BY DEF ActOnItem, OwnershipInv, TypeOK
<1>3. moved \subseteq ItemFiles
  BY <1>1 DEF ItemFiles, FileEntries
<1>4. ItemFiles' = ItemFiles \ moved /\ OneItem'
  BY <1>1 DEF OwnershipInv, SingleOwner, OneItem, ItemFiles, FileEntries, IsFile
<1>5. ui'[c] # Idle /\ ui'[c].item = item
  BY <1>2 DEF Idle
<1>6. FileActors' = FileActors \union (IF IsFile(item) THEN {c} ELSE {})
  BY <1>2, <1>5 DEF FileActors, IsFile
<1>7. \A b \in FileActors : b # c /\ ui'[b] = ui[b] /\ ui[b].item.file \in UIFiles
  BY <1>2 DEF FileActors, UIFiles
<1>8. UIFiles' = UIFiles \union moved
  BY <1>5, <1>6, <1>7 DEF UIFiles
<1>9. OneActor'
  <2>1. moved \intersect UIFiles = {}
    BY <1>3 DEF OwnershipInv, SingleOwner
  <2> QED BY <1>5, <1>6, <1>7, <2>1 DEF OneActor, OwnershipInv, SingleOwner
<1> QED BY <1>3, <1>4, <1>8, <1>9

\* A caller that is done with its item owns nothing any more.
LEMMA ReleaseFiles ==
  ASSUME OwnershipInv, NEW c \in Callers, ui[c] # Idle,
         ui' = [ui EXCEPT ![c] = Idle]
  PROVE  /\ OneActor'
         /\ UIFiles' = UIFiles \ (IF IsFile(ui[c].item) THEN {ui[c].item.file}
                                                        ELSE {})
<1>1. /\ ui'[c] = Idle
      /\ \A b \in Callers \ {c} : ui'[b] = ui[b]
  BY DEF OwnershipInv, TypeOK
<1>2. FileActors' = FileActors \ {c}
  BY <1>1 DEF FileActors, IsFile
<1>3. IsFile(ui[c].item) <=> c \in FileActors
  BY DEF FileActors
<1>4. \A b \in FileActors \ {c} : ui'[b] = ui[b]
  BY <1>1 DEF FileActors
<1> QED BY <1>2, <1>3, <1>4 DEF UIFiles, OneActor, OwnershipInv, SingleOwner

-----------------------------------------------------------------------------
(* How staging files change hands *)

\* A transfer begins with a new file, and files of idle transfers go.
Opens ==
  \E stale \in SUBSET TransferFiles, new \in SUBSET (Files \ DOMAIN disk) :
    /\ \A f, g \in new : f = g
    /\ TransferFiles' = (TransferFiles \ stale) \union new
    /\ DOMAIN disk' = (DOMAIN disk \ stale) \union new
    /\ UNCHANGED <<IOFiles, ItemFiles, UIFiles>>

\* A transfer is over, and handle_file_end has its file; it discards it.
Finishes ==
  \E f \in TransferFiles :
    /\ TransferFiles' = TransferFiles \ {f}
    /\ IOFiles = {} /\ IOFiles' = {f}
    /\ DOMAIN disk' = DOMAIN disk
    /\ UNCHANGED <<ItemFiles, UIFiles>>
Refuses ==
  /\ IOFiles # {} /\ IOFiles' = {}
  /\ DOMAIN disk' = DOMAIN disk \ IOFiles
  /\ UNCHANGED <<TransferFiles, ItemFiles, UIFiles>>

\* deliver_item: the inbox has the file, if there is one, and others go.
Offers ==
  \E removed \in SUBSET ItemFiles, new \in {{}, IOFiles} :
    /\ ItemFiles' = (ItemFiles \ removed) \union new
    /\ IOFiles' = IOFiles \ new
    /\ DOMAIN disk' = DOMAIN disk \ removed
    /\ UNCHANGED <<TransferFiles, UIFiles>>

\* act_on_item: a user's thread takes the file of an item, and ends with it.
Takes ==
  \E moved \in SUBSET ItemFiles :
    /\ \A f, g \in moved : f = g
    /\ ItemFiles' = ItemFiles \ moved
    /\ UIFiles' = UIFiles \union moved
    /\ DOMAIN disk' = DOMAIN disk
    /\ UNCHANGED <<TransferFiles, IOFiles>>
Releases ==
  \E gone \in SUBSET UIFiles :
    /\ \A f, g \in gone : f = g
    /\ UIFiles' = UIFiles \ gone
    /\ DOMAIN disk' \in {DOMAIN disk, DOMAIN disk \ gone}
    /\ UNCHANGED <<TransferFiles, IOFiles, ItemFiles>>

\* The process ends.
Stops ==
  /\ TransferFiles' = {} /\ IOFiles' = {} /\ ItemFiles' = {} /\ UIFiles' = {}
  /\ DOMAIN disk' = DOMAIN disk

Stays ==
  /\ DOMAIN disk' = DOMAIN disk
  /\ UNCHANGED <<TransferFiles, IOFiles, ItemFiles, UIFiles>>

\* Every step is one of these, and gives no file to two of a kind.
FilesMove ==
  /\ OneTransfer' /\ OneItem' /\ OneActor'
  /\ Opens \/ Finishes \/ Refuses \/ Offers \/ Takes \/ Releases \/ Stops \/ Stays

LEMMA FilesStep ==
  ASSUME OwnershipInv, [Next]_vars
  PROVE  FilesMove
<1>a. /\ TypeOK /\ TablesAgree /\ NoDanglingFile /\ SingleOwner
      /\ OneTransfer /\ OneItem /\ OneActor
  BY DEF OwnershipInv, SingleOwner
<1>b. ASSUME UNCHANGED file_transfers
      PROVE  TransferFiles' = TransferFiles /\ OneTransfer'
  BY <1>a, <1>b DEF TransferFiles, OneTransfer
<1>c. ASSUME UNCHANGED received_items
      PROVE  ItemFiles' = ItemFiles /\ OneItem'
  BY <1>a, <1>c DEF ItemFiles, FileEntries, OneItem
<1>d. ASSUME UNCHANGED ui
      PROVE  UIFiles' = UIFiles /\ OneActor'
  BY <1>a, <1>d DEF UIFiles, FileActors, OneActor
<1>e. ASSUME UNCHANGED io
      PROVE  IOFiles' = IOFiles
  BY <1>e DEF IOFiles
<1>f. ASSUME NEW K
      PROVE  DOMAIN Without(disk, K) = DOMAIN disk \ K
  BY DEF Without, Restrict
<1>g. ASSUME DOMAIN disk' = DOMAIN disk \ StaleFiles,
             file_transfers' = LiveTransfers,
             UNCHANGED <<received_items, ui, io>>
      PROVE  FilesMove
  <2>1. TransferFiles' = TransferFiles \ StaleFiles /\ OneTransfer'
    BY <1>a, <1>g, PurgeFiles DEF TransferFiles, OneTransfer
  <2>2. StaleFiles \subseteq TransferFiles
    BY <1>a, PurgeFiles
  <2>3. Opens
    <3>1. {} \in SUBSET (Files \ DOMAIN disk)
      OBVIOUS
    <3> QED
      BY <1>c, <1>d, <1>e, <1>g, <2>1, <2>2, <3>1 DEF Opens
  <2> QED
    BY <1>c, <1>d, <1>g, <2>1, <2>3 DEF FilesMove
<1>1. ASSUME NEW d \in Devices, NEW e \in Envelopes, HandleText(d, e)
      PROVE  FilesMove
  <2> DEFINE item == [kind |-> "text", from |-> d, at |-> now]
  <2>1. item \in Item /\ ~IsFile(item)
    BY <1>a DEF TypeOK, Item, TextItem, IsFile
  <2>2. Deliver(e, item)
    BY <1>1 DEF HandleText
  <2> HIDE DEF item
  <2>3. /\ OneItem'
        /\ \E removed \in SUBSET ItemFiles :
             /\ ItemFiles' = ItemFiles \ removed
             /\ DOMAIN disk' = DOMAIN disk \ removed
    BY <1>a, <2>1, <2>2, DeliverFiles
  <2>4. UNCHANGED <<file_transfers, ui, io>>
    BY <1>1 DEF HandleText, tables
  <2>5. Offers
    BY <1>b, <1>d, <1>e, <2>3, <2>4 DEF Offers
  <2> QED
    BY <1>b, <1>d, <2>3, <2>4, <2>5 DEF FilesMove
<1>2. ASSUME NEW d \in Devices, NEW t \in Transfers, NEW n \in Announced,
             NEW f \in Files, HandleFileStart(d, t, n, f)
      PROVE  FilesMove
  <2>1. CASE Admits(t, n)
    <3> DEFINE lt == LiveTransfers
    <3>1. /\ file_transfers' = Put(lt, t, [file |-> f, total |-> n, got |-> {}])
          /\ f \notin DOMAIN disk
          /\ UNCHANGED <<received_items, ui, io>>
      BY <1>2, <2>1 DEF HandleFileStart
    <3>2. t \notin DOMAIN lt
      BY <2>1 DEF Admits
    <3>3. DOMAIN disk' = (DOMAIN disk \ StaleFiles) \union {f}
      BY <1>2, <2>1, <1>f DEF HandleFileStart, Put
    <3>4. /\ StaleFiles \subseteq TransferFiles
          /\ {lt[u].file : u \in DOMAIN lt} = TransferFiles \ StaleFiles
          /\ \A u, w \in DOMAIN lt : lt[u].file = lt[w].file => u = w
      BY <1>a, PurgeFiles
    <3>5. f \notin TransferFiles
      BY <1>a, <3>1 DEF NoDanglingFile, Owned
    <3> HIDE DEF lt
    <3>6. /\ DOMAIN file_transfers' = DOMAIN lt \union {t}
          /\ file_transfers'[t].file = f
          /\ \A u \in DOMAIN lt : file_transfers'[u] = lt[u]
      BY <3>1, <3>2 DEF Put
    <3>7. TransferFiles' = (TransferFiles \ StaleFiles) \union {f}
      BY <3>4, <3>6 DEF TransferFiles
    <3>8. OneTransfer'
      BY <3>4, <3>5, <3>6 DEF OneTransfer
    <3>9. Opens
      <4>1. {f} \in SUBSET (Files \ DOMAIN disk)
        BY <3>1
      <4> QED
        BY <1>c, <1>d, <1>e, <3>1, <3>3, <3>4, <3>7, <4>1 DEF Opens
    <3> QED
      BY <1>c, <1>d, <3>1, <3>8, <3>9 DEF FilesMove
  <2>2. CASE ~Admits(t, n)
    BY <1>2, <1>f, <1>g, <2>2 DEF HandleFileStart
  <2> QED BY <2>1, <2>2
<1>3. ASSUME NEW d \in Devices, NEW t \in Transfers,
             NEW i \in Chunks(MaxFileSize), NEW v \in Versions,
             NEW stored \in BOOLEAN, HandleFileChunk(d, t, i, v, stored)
      PROVE  FilesMove
  <2> DEFINE lt == LiveTransfers
             left == Without(disk, StaleFiles)
  <2>1. /\ file_transfers' = [lt EXCEPT ![t].got = @ \union {i}]
        /\ t \in DOMAIN lt
        /\ UNCHANGED <<received_items, ui, io>>
    BY <1>3 DEF HandleFileChunk
  <2>2. DOMAIN disk' = DOMAIN disk \ StaleFiles
    <3>1. \/ disk' = left
          \/ disk' = [left EXCEPT ![lt[t].file] = Put(@, i, v)]
      BY <1>3 DEF HandleFileChunk
    <3>2. DOMAIN left = DOMAIN disk \ StaleFiles
      BY <1>f
    <3> HIDE DEF left
    <3> QED BY <3>1, <3>2
  <2>3. /\ StaleFiles \subseteq TransferFiles
        /\ {lt[u].file : u \in DOMAIN lt} = TransferFiles \ StaleFiles
        /\ \A u, w \in DOMAIN lt : lt[u].file = lt[w].file => u = w
        /\ lt \in [DOMAIN lt -> Transfer]
    BY <1>a, PurgeFiles, PurgeType
  <2> HIDE DEF lt
  <2>4. /\ DOMAIN file_transfers' = DOMAIN lt
        /\ \A u \in DOMAIN lt : file_transfers'[u].file = lt[u].file
    BY <2>1, <2>3 DEF Transfer
  <2>5. TransferFiles' = TransferFiles \ StaleFiles
    BY <2>3, <2>4 DEF TransferFiles
  <2>6. OneTransfer'
    BY <2>3, <2>4 DEF OneTransfer
  <2>7. Opens
    <3>1. {} \in SUBSET (Files \ DOMAIN disk)
      OBVIOUS
    <3>2. UNCHANGED <<IOFiles, ItemFiles, UIFiles>>
      BY <1>c, <1>d, <1>e, <2>1
    <3>3. StaleFiles \in SUBSET TransferFiles
      BY <2>3
    <3>4. /\ TransferFiles' = (TransferFiles \ StaleFiles) \union {}
          /\ DOMAIN disk' = (DOMAIN disk \ StaleFiles) \union {}
      BY <2>2, <2>5
    <3> HIDE DEF left
    <3> QED
      BY <3>1, <3>2, <3>3, <3>4, Zenon DEF Opens
  <2> QED
    BY <1>c, <1>d, <2>1, <2>6, <2>7 DEF FilesMove
<1>4. ASSUME NEW d \in Devices, NEW t \in Transfers,
             NEW i \in Chunks(MaxFileSize), IgnoreFileChunk(d, t, i)
      PROVE  FilesMove
  BY <1>4, <1>f, <1>g DEF IgnoreFileChunk
<1>5. ASSUME NEW d \in Devices, NEW e \in Envelopes, NEW t \in Transfers,
             NEW v \in Versions, HandleFileEnd(d, e, t, v)
      PROVE  FilesMove
  <2> DEFINE f == file_transfers[t].file
  <2>1. /\ t \in DOMAIN file_transfers
        /\ DOMAIN file_transfers' = DOMAIN file_transfers \ {t}
        /\ \A u \in DOMAIN file_transfers' : file_transfers'[u] = file_transfers[u]
    BY <1>5 DEF HandleFileEnd, Without, Restrict
  <2>2. TransferFiles' = TransferFiles \ {f} /\ OneTransfer'
    BY <1>a, <2>1 DEF TransferFiles, OneTransfer
  <2>3. f \in TransferFiles
    BY <2>1 DEF TransferFiles
  <2>4. IOFiles = {} /\ IOFiles' = {f}
    BY <1>5 DEF HandleFileEnd, IOFiles, Idle
  <2>5. UNCHANGED <<received_items, ui, disk>>
    BY <1>5 DEF HandleFileEnd
  <2>6. Finishes
    BY <1>c, <1>d, <2>2, <2>3, <2>4, <2>5 DEF Finishes
  <2> QED
    BY <1>c, <1>d, <2>2, <2>5, <2>6 DEF FilesMove
<1>6. CASE DiscardFile
  <2>1. IOFiles = {io.file} /\ IOFiles' = {} /\ DOMAIN disk' = DOMAIN disk \ IOFiles
    BY <1>6, <1>f DEF DiscardFile, IOFiles
  <2>2. UNCHANGED <<file_transfers, received_items, ui>>
    BY <1>6 DEF DiscardFile, tables
  <2>3. Refuses
    BY <1>b, <1>c, <1>d, <2>1, <2>2 DEF Refuses
  <2> QED
    BY <1>b, <1>c, <1>d, <2>2, <2>3 DEF FilesMove
<1>7. CASE DeliverFile
  <2> DEFINE item == [kind |-> "file", from |-> io.from, at |-> now,
                      file |-> io.file, size |-> io.size]
  <2>1. io.env \in Envelopes /\ item \in Item
    BY <1>7, <1>a DEF DeliverFile, TypeOK, EndOfFile, Item, FileItem
  <2>2. Deliver(io.env, item)
    BY <1>7 DEF DeliverFile
  <2>3. IOFiles = {item.file} /\ IOFiles' = {} /\ IsFile(item)
    BY <1>7 DEF DeliverFile, IOFiles, IsFile
  <2> HIDE DEF item
  <2>4. /\ OneItem'
        /\ \E removed \in SUBSET ItemFiles :
             /\ ItemFiles' = (ItemFiles \ removed) \union {item.file}
             /\ DOMAIN disk' = DOMAIN disk \ removed
    BY <1>a, <2>1, <2>2, <2>3, DeliverFiles DEF SingleOwner
  <2>5. UNCHANGED <<file_transfers, ui>>
    BY <1>7 DEF DeliverFile, tables
  <2>6. Offers
    BY <1>b, <1>d, <2>3, <2>4, <2>5 DEF Offers
  <2> QED
    BY <1>b, <1>d, <2>4, <2>5, <2>6 DEF FilesMove
<1>8. ASSUME NEW c \in Callers, UIThread(c)
      PROVE  FilesMove
  <2>1. ASSUME NEW e \in Envelopes,
               NEW action \in {"save", "reject", "dismiss"},
               ActOnItem(c, e, action)
        PROVE  FilesMove
    <3>1. UNCHANGED <<file_transfers, io, disk>>
      BY <2>1 DEF ActOnItem, tables
    <3>2. Takes /\ OneItem' /\ OneActor'
      BY <1>b, <1>e, <2>1, <3>1, TakeFiles DEF Takes
    <3> QED
      BY <1>b, <3>1, <3>2 DEF FilesMove
  <2>2. CASE CopyOut(c)
    <3>1. UNCHANGED <<file_transfers, received_items, io, disk>>
      BY <2>2 DEF CopyOut, tables
    <3>2. /\ ui[c] # Idle /\ ui[c] \in Acting
          /\ ui' = [ui EXCEPT ![c].pc = "saved"]
      BY <1>a, <2>2 DEF CopyOut, TypeOK, Idle
    <3>3. /\ ui'[c] # Idle /\ ui'[c].item = ui[c].item
          /\ \A b \in Callers \ {c} : ui'[b] = ui[b]
      BY <1>a, <3>2 DEF TypeOK, Acting, Idle
    <3>4. FileActors' = FileActors /\ \A b \in FileActors : ui'[b].item = ui[b].item
      BY <3>2, <3>3 DEF FileActors
    <3>5. UIFiles' = UIFiles /\ OneActor'
      BY <1>a, <3>4 DEF UIFiles, OneActor
    <3> QED
      BY <1>b, <1>c, <1>e, <3>1, <3>5 DEF FilesMove, Stays
  <2> DEFINE gone == IF IsFile(ui[c].item) THEN {ui[c].item.file} ELSE {}
  <2>3. ASSUME ui[c] # Idle, ui' = [ui EXCEPT ![c] = Idle],
               disk' = disk \/ disk' = DiskAfterRemoving(ui[c].item),
               UNCHANGED <<file_transfers, received_items, io>>
        PROVE  FilesMove
    <3>1. UIFiles' = UIFiles \ gone /\ OneActor'
      BY <2>3, ReleaseFiles
    <3>2. gone \subseteq UIFiles
      BY <2>3 DEF UIFiles, FileActors
    <3>3. DOMAIN disk' = DOMAIN disk \/ DOMAIN disk' = DOMAIN disk \ gone
      BY <2>3, <1>f DEF DiskAfterRemoving
    <3>4. \A f, g \in gone : f = g
      OBVIOUS
    <3> HIDE DEF gone
    <3>5. Releases
      BY <1>b, <1>c, <1>e, <2>3, <3>1, <3>2, <3>3, <3>4 DEF Releases
    <3> QED
      BY <1>b, <1>c, <2>3, <3>1, <3>5 DEF FilesMove
  <2>4. CASE SaveNothing(c)
    BY <2>3, <2>4 DEF SaveNothing, tables, Idle
  <2>5. CASE RemoveStaged(c)
    BY <2>3, <2>5 DEF RemoveStaged, tables, Idle
  <2>6. CASE RejectItem(c)
    BY <2>3, <2>6 DEF RejectItem, tables, Idle
  <2> QED BY <1>8, <2>1, <2>2, <2>4, <2>5, <2>6 DEF UIThread
<1>9. CASE Restart
  <2>1. /\ TransferFiles' = {} /\ OneTransfer'
        /\ ItemFiles' = {} /\ OneItem'
        /\ UIFiles' = {} /\ OneActor'
        /\ IOFiles' = {}
    BY <1>9 DEF Restart, TransferFiles, OneTransfer, ItemFiles, FileEntries,
                OneItem, UIFiles, FileActors, OneActor, IOFiles
  <2>2. DOMAIN disk' = DOMAIN disk
    BY <1>9 DEF Restart
  <2> QED
    BY <2>1, <2>2 DEF FilesMove, Stops
<1>10. ASSUME UNCHANGED <<file_transfers, received_items, disk, io, ui>>
       PROVE  FilesMove
  BY <1>b, <1>c, <1>d, <1>e, <1>10 DEF FilesMove, Stays
<1>11. ASSUME NEW d \in Devices, RemoveDevice(d) \/ PairDevice(d)
       PROVE  UNCHANGED <<file_transfers, received_items, disk, io, ui>>
  BY <1>11 DEF RemoveDevice, PairDevice, tables
<1>12. Tick \/ UNCHANGED vars
         => UNCHANGED <<file_transfers, received_items, disk, io, ui>>
  BY DEF Tick, tables, vars
<1> QED
  BY <1>1, <1>2, <1>3, <1>4, <1>5, <1>6, <1>7, <1>8, <1>9, <1>10, <1>11, <1>12
  DEF Next, IOThread, Environment

-----------------------------------------------------------------------------
(* Ownership is preserved *)

LEMMA OwnershipStep ==
  ASSUME OwnershipInv, [Next]_vars
  PROVE  NoDanglingFile' /\ SingleOwner'
<1> USE DEF NoDanglingFile, Owned, SingleOwner
<1>1. NoDanglingFile /\ SingleOwner
  BY DEF OwnershipInv
<1>2. OneTransfer' /\ OneItem' /\ OneActor'
  BY FilesStep DEF FilesMove
<1>3. CASE Opens
  BY <1>1, <1>2, <1>3 DEF Opens
<1>4. CASE Finishes
  BY <1>1, <1>2, <1>4 DEF Finishes
<1>5. CASE Refuses
  BY <1>1, <1>2, <1>5 DEF Refuses
<1>6. CASE Offers
  BY <1>1, <1>2, <1>6 DEF Offers
<1>7. CASE Takes
  BY <1>1, <1>2, <1>7 DEF Takes
<1>8. CASE Releases
  BY <1>1, <1>2, <1>8 DEF Releases
<1>9. CASE Stops \/ Stays
  BY <1>1, <1>2, <1>9 DEF Stops, Stays
<1> QED
  BY <1>3, <1>4, <1>5, <1>6, <1>7, <1>8, <1>9, FilesStep DEF FilesMove

LEMMA InitOwnership == Init => OwnershipInv
<1>1. Init => TypeOK /\ TablesAgree
  BY SizesAssumption DEF Init, TypeOK, TablesAgree, Times
<1>2. Init => /\ TransferFiles = {} /\ ItemFiles = {}
              /\ IOFiles = {} /\ UIFiles = {}
              /\ OneTransfer /\ OneItem /\ OneActor
  BY DEF Init, TransferFiles, ItemFiles, FileEntries, IOFiles, UIFiles,
         FileActors, OneTransfer, OneItem, OneActor
<1> QED
  BY <1>1, <1>2 DEF OwnershipInv, NoDanglingFile, SingleOwner, Owned

\* In every behaviour, whatever the interleaving of the I/O thread with the user
\* interface's threads, a staging file has one owner and an owner finds its file.
THEOREM OwnershipCorrect == Spec => [](NoDanglingFile /\ SingleOwner)
<1>1. Init => OwnershipInv
  BY InitOwnership
<1>2. OwnershipInv /\ [Next]_vars => OwnershipInv'
  BY TypeStep, TablesStep, OwnershipStep DEF OwnershipInv
<1>3. OwnershipInv => NoDanglingFile /\ SingleOwner
  BY DEF OwnershipInv
<1> QED BY <1>1, <1>2, <1>3, PTL DEF Spec

-----------------------------------------------------------------------------
(* What is offered stays intact *)

\* The items in the inbox and in the hands of the user interface's threads.
Held(item) ==
  \/ \E e \in DOMAIN received_items : item = received_items[e]
  \/ \E c \in Callers : ui[c] # Idle /\ item = ui[c].item

\* A step writes only to the files of transfers, and to new ones.
LEMMA DiskUntouched ==
  ASSUME OwnershipInv, [Next]_vars,
         NEW f \in DOMAIN disk, f \in DOMAIN disk', f \notin TransferFiles'
  PROVE  disk'[f] = disk[f]
<1>a. ASSUME NEW K, disk' = Without(disk, K) PROVE disk'[f] = disk[f]
  BY <1>a DEF Without, Restrict
<1>b. ASSUME NEW e, NEW item, Deliver(e, item) PROVE disk'[f] = disk[f]
  BY <1>a, <1>b DEF Deliver
<1>1. ASSUME NEW d \in Devices, NEW t \in Transfers, NEW n \in Announced,
             NEW g \in Files, HandleFileStart(d, t, n, g)
      PROVE  disk'[f] = disk[f]
  <2>1. CASE disk' = Without(disk, StaleFiles)
    BY <1>a, <2>1
  <2>2. CASE disk' = Put(Without(disk, StaleFiles), g, [i \in {} |-> {}])
    BY <1>1, <2>2 DEF HandleFileStart, Put, Without, Restrict
  <2> QED
    BY <1>1, <2>1, <2>2 DEF HandleFileStart
<1>2. ASSUME NEW d \in Devices, NEW t \in Transfers,
             NEW i \in Chunks(MaxFileSize), NEW v \in Versions,
             NEW stored \in BOOLEAN, HandleFileChunk(d, t, i, v, stored)
      PROVE  disk'[f] = disk[f]
  <2> DEFINE lt == LiveTransfers
             left == Without(disk, StaleFiles)
             g == lt[t].file
  <2>1. /\ file_transfers' = [lt EXCEPT ![t].got = @ \union {i}]
        /\ t \in DOMAIN lt /\ lt \in [DOMAIN lt -> Transfer]
    BY <1>2, PurgeType DEF HandleFileChunk, OwnershipInv
  <2>2. disk' = left \/ disk' = [left EXCEPT ![g] = Put(@, i, v)]
    BY <1>2 DEF HandleFileChunk
  <2>3. f \in DOMAIN left => left[f] = disk[f]
    BY DEF Without, Restrict
  <2> HIDE DEF lt, left
  <2>4. g \in TransferFiles'
    BY <2>1 DEF TransferFiles, Transfer
  <2> HIDE DEF g
  <2> QED
    BY <2>2, <2>3, <2>4
<1>3. ASSUME NEW c \in Callers, UIThread(c) PROVE disk'[f] = disk[f]
  BY <1>3, <1>a DEF UIThread, ActOnItem, CopyOut, SaveNothing, RemoveStaged,
                    RejectItem, DiskAfterRemoving
<1>4. ASSUME NEW d \in Devices, NEW e \in Envelopes, HandleText(d, e)
      PROVE  disk'[f] = disk[f]
  BY <1>4, <1>b DEF HandleText
<1>5. CASE DeliverFile
  BY <1>5, <1>b DEF DeliverFile
<1>6. CASE DiscardFile
  BY <1>6, <1>a DEF DiscardFile
<1>7. ASSUME NEW d \in Devices, NEW t \in Transfers,
             NEW i \in Chunks(MaxFileSize), IgnoreFileChunk(d, t, i)
      PROVE  disk'[f] = disk[f]
  BY <1>7, <1>a DEF IgnoreFileChunk
<1>8. ASSUME NEW d \in Devices, NEW e \in Envelopes, NEW t \in Transfers,
             NEW v \in Versions, HandleFileEnd(d, e, t, v)
      PROVE  disk'[f] = disk[f]
  BY <1>8 DEF HandleFileEnd
<1>9. Environment \/ UNCHANGED vars => disk'[f] = disk[f]
  BY DEF Environment, RemoveDevice, PairDevice, Tick, Restart, vars
<1> QED
  BY <1>1, <1>2, <1>3, <1>4, <1>5, <1>6, <1>7, <1>8, <1>9 DEF Next, IOThread

\* deliver_item adds the new item, and every other one was there.
LEMMA DeliverHeld ==
  ASSUME NEW e, NEW new, Deliver(e, new), UNCHANGED ui, NEW item, Held(item)'
  PROVE  Held(item) \/ item = new
BY DEF Deliver, Held, Put, Restrict

\* An item that is held after a step was held before, or is delivered by it: a
\* text, or a file that handle_file_end has verified.
LEMMA HeldStep ==
  ASSUME OwnershipInv, [Next]_vars, NEW item, Held(item)'
  PROVE  \/ Held(item)
         \/ ~IsFile(item)
         \/ DeliverFile /\ item.file = io.file /\ item.size = io.size
<1>a. ASSUME UNCHANGED <<received_items, ui>> PROVE Held(item)
  BY <1>a DEF Held
<1>1. ASSUME NEW d \in Devices, NEW e \in Envelopes, HandleText(d, e)
      PROVE  Held(item) \/ ~IsFile(item)
  <2>1. Held(item) \/ item = [kind |-> "text", from |-> d, at |-> now]
    BY <1>1, DeliverHeld DEF HandleText
  <2> QED
    BY <2>1 DEF IsFile
<1>2. CASE DeliverFile
  <2>1. Held(item) \/ item = [kind |-> "file", from |-> io.from, at |-> now,
                              file |-> io.file, size |-> io.size]
    BY <1>2, DeliverHeld DEF DeliverFile
  <2> QED
    BY <1>2, <2>1
<1>3. ASSUME NEW c \in Callers, UIThread(c) PROVE Held(item)
  <2>1. ASSUME NEW e \in Envelopes, NEW action \in {"save", "reject", "dismiss"},
               ActOnItem(c, e, action)
        PROVE  Held(item)
    <3>1. /\ e \in DOMAIN received_items
          /\ ui'[c].item = received_items[e]
          /\ \A b \in Callers \ {c} : ui'[b] = ui[b]
      BY <2>1 DEF ActOnItem, OwnershipInv, TypeOK
    <3>2. \A g \in DOMAIN received_items' :
            g \in DOMAIN received_items /\ received_items'[g] = received_items[g]
      BY <2>1 DEF ActOnItem, Without, Restrict
    <3> QED
      BY <3>1, <3>2 DEF Held
  <2>2. CASE CopyOut(c)
    <3>1. ui[c] # Idle /\ ui[c] \in Acting
      BY <2>2 DEF CopyOut, OwnershipInv, TypeOK, Idle
    <3>2. /\ ui'[c].item = ui[c].item
          /\ \A b \in Callers \ {c} : ui'[b] = ui[b]
      BY <2>2, <3>1 DEF CopyOut, OwnershipInv, TypeOK, Acting
    <3>3. received_items' = received_items
      BY <2>2 DEF CopyOut
    <3> QED
      BY <3>1, <3>2, <3>3 DEF Held
  <2>3. ASSUME ui' = [ui EXCEPT ![c] = Idle], UNCHANGED received_items
        PROVE  Held(item)
    <3>1. ui'[c] = Idle /\ \A b \in Callers \ {c} : ui'[b] = ui[b]
      BY <2>3 DEF OwnershipInv, TypeOK
    <3> QED
      BY <2>3, <3>1 DEF Held
  <2> QED
    BY <1>3, <2>1, <2>2, <2>3 DEF UIThread, SaveNothing, RemoveStaged, RejectItem
<1>4. CASE Restart
  BY <1>4 DEF Restart, Held
<1>5. ASSUME NEW d \in Devices, RemoveDevice(d) \/ PairDevice(d) PROVE Held(item)
  BY <1>5, <1>a DEF RemoveDevice, PairDevice
<1>6. CASE Tick \/ UNCHANGED vars
  BY <1>6, <1>a DEF Tick, vars
<1>7. CASE DiscardFile
  BY <1>7, <1>a DEF DiscardFile
<1>8. ASSUME NEW d \in Devices, NEW t \in Transfers, NEW n \in Announced,
             NEW f \in Files, HandleFileStart(d, t, n, f)
      PROVE  Held(item)
  BY <1>8, <1>a DEF HandleFileStart
<1>9. ASSUME NEW d \in Devices, NEW t \in Transfers,
             NEW i \in Chunks(MaxFileSize), NEW v \in Versions,
             NEW stored \in BOOLEAN, HandleFileChunk(d, t, i, v, stored)
      PROVE  Held(item)
  BY <1>9, <1>a DEF HandleFileChunk
<1>10. ASSUME NEW d \in Devices, NEW t \in Transfers,
              NEW i \in Chunks(MaxFileSize), IgnoreFileChunk(d, t, i)
       PROVE  Held(item)
  BY <1>10, <1>a DEF IgnoreFileChunk
<1>11. ASSUME NEW d \in Devices, NEW e \in Envelopes, NEW t \in Transfers,
              NEW v \in Versions, HandleFileEnd(d, e, t, v)
       PROVE  Held(item)
  BY <1>11, <1>a DEF HandleFileEnd
<1> QED
  BY <1>1, <1>2, <1>3, <1>4, <1>5, <1>6, <1>7, <1>8, <1>9, <1>10, <1>11
  DEF Next, IOThread, Environment

\* A file that is held is on disk, and is no transfer's.
LEMMA HeldFile ==
  ASSUME OwnershipInv, NEW item, Held(item), IsFile(item)
  PROVE  item.file \in DOMAIN disk /\ item.file \notin TransferFiles
<1>1. item.file \in ItemFiles \union UIFiles
  BY DEF Held, ItemFiles, UIFiles, FileEntries, FileActors
<1> QED
  BY <1>1 DEF OwnershipInv, NoDanglingFile, Owned, SingleOwner

LEMMA IntactStep ==
  ASSUME OwnershipInv, OwnershipInv', DeliveredIntact, [Next]_vars
  PROVE  DeliveredIntact'
<1>1. ASSUME NEW item, Held(item)', IsFile(item)
      PROVE  \E v \in Versions : disk'[item.file] = [i \in Chunks(item.size) |-> v]
  <2>1. item.file \in DOMAIN disk' /\ item.file \notin TransferFiles'
    <3>1. item.file \in ItemFiles' \union UIFiles'
      BY <1>1 DEF Held, ItemFiles, UIFiles, FileEntries, FileActors
    <3> QED
      BY <3>1 DEF OwnershipInv, NoDanglingFile, Owned, SingleOwner
  <2>2. CASE Held(item)
    <3>1. disk'[item.file] = disk[item.file]
      BY <1>1, <2>1, <2>2, HeldFile, DiskUntouched
    <3>2. Intact(item)
      BY <2>2 DEF DeliveredIntact, Held
    <3> QED
      BY <1>1, <3>1, <3>2 DEF Intact
  <2>3. CASE DeliverFile /\ item.file = io.file /\ item.size = io.size
    <3>1. disk[io.file] = [i \in Chunks(io.size) |-> io.sum] /\ io.sum \in Versions
      BY <2>3 DEF DeliverFile, Verified, ChecksumMatches, OwnershipInv, TypeOK,
                  EndOfFile
    <3>2. io.file \in DOMAIN disk
      BY <2>3 DEF DeliverFile, OwnershipInv, NoDanglingFile, Owned, IOFiles
    <3>3. disk'[io.file] = disk[io.file]
      BY <2>1, <2>3, <3>2, DiskUntouched
    <3> QED
      BY <2>3, <3>1, <3>3
  <2> QED
    BY <1>1, <2>2, <2>3, HeldStep
<1>2. \A item : Held(item)' => Intact(item)'
  BY <1>1 DEF Intact
<1> QED
  BY <1>2 DEF DeliveredIntact, Held

\* Integrity: what the inbox offers and what a
\* save copies is one version of the file, whole, and verified by its checksum,
\* whatever is purged, evicted, replaced and acted on in between.
THEOREM IntegrityCorrect == Spec => []DeliveredIntact
<1>1. Init => OwnershipInv /\ DeliveredIntact
  BY InitOwnership DEF Init, DeliveredIntact
<1>2. OwnershipInv /\ DeliveredIntact /\ [Next]_vars
        => (OwnershipInv /\ DeliveredIntact)'
  <2> SUFFICES ASSUME OwnershipInv, DeliveredIntact, [Next]_vars
               PROVE  (OwnershipInv /\ DeliveredIntact)'
    OBVIOUS
  <2>1. OwnershipInv'
    BY TypeStep, TablesStep, OwnershipStep DEF OwnershipInv
  <2> QED
    BY <2>1, IntactStep
<1> QED
  BY <1>1, <1>2, PTL DEF Spec

-----------------------------------------------------------------------------
(* Expired transfers *)

LEMMA RevivalStep ==
  ASSUME TypeOK, TablesAgree, Next,
         NEW t \in StaleTransfers, t \in DOMAIN file_transfer_meta'
  PROVE  \/ file_transfer_meta'[t] = file_transfer_meta[t]
         \/ file_transfers'[t].got = {}
<1>a. ASSUME file_transfer_meta' = LiveMeta PROVE FALSE
  BY <1>a, PurgeType
<1>1. ASSUME NEW d \in Devices, NEW u \in Transfers, NEW n \in Announced,
             NEW f \in Files, HandleFileStart(d, u, n, f)
      PROVE  file_transfers'[t].got = {}
  <2> DEFINE lt == LiveTransfers
             lm == LiveMeta
             tr == [file |-> f, total |-> n, got |-> {}]
             me == [from |-> d, size |-> n, last |-> now]
  <2>1. file_transfers' = Put(lt, u, tr) /\ file_transfer_meta' = Put(lm, u, me)
    BY <1>1, <1>a DEF HandleFileStart
  <2>2. t \notin DOMAIN lm /\ tr.got = {}
    BY PurgeType
  <2> HIDE DEF lt, lm, tr, me
  <2> QED
    BY <2>1, <2>2 DEF Put
<1>2. ASSUME NEW d \in Devices, NEW u \in Transfers,
             NEW i \in Chunks(MaxFileSize), NEW v \in Versions,
             NEW stored \in BOOLEAN, HandleFileChunk(d, u, i, v, stored)
      PROVE  FALSE
  <2> DEFINE lm == LiveMeta
  <2>1. file_transfer_meta' = [lm EXCEPT ![u].last = now] /\ t \notin DOMAIN lm
    BY <1>2, PurgeType DEF HandleFileChunk
  <2> HIDE DEF lm
  <2> QED
    BY <2>1
<1>3. ASSUME NEW d \in Devices, NEW u \in Transfers,
             NEW i \in Chunks(MaxFileSize), IgnoreFileChunk(d, u, i)
      PROVE  FALSE
  BY <1>3, <1>a DEF IgnoreFileChunk
<1>4. ASSUME NEW d \in Devices, NEW e \in Envelopes, NEW u \in Transfers,
             NEW v \in Versions, HandleFileEnd(d, e, u, v)
      PROVE  file_transfer_meta'[t] = file_transfer_meta[t]
  BY <1>4 DEF HandleFileEnd, Without, Restrict
<1>5. CASE Restart
  BY <1>5 DEF Restart
<1>6. ASSUME NEW c \in Callers, UIThread(c)
      PROVE  file_transfer_meta' = file_transfer_meta
  BY <1>6 DEF UIThread, ActOnItem, CopyOut, SaveNothing, RemoveStaged, RejectItem,
              tables
<1>7. ASSUME NEW d \in Devices, NEW e \in Envelopes, HandleText(d, e)
      PROVE  file_transfer_meta' = file_transfer_meta
  BY <1>7 DEF HandleText, tables
<1>8. DiscardFile \/ DeliverFile \/ Tick => file_transfer_meta' = file_transfer_meta
  BY DEF DiscardFile, DeliverFile, Tick, tables
<1>9. ASSUME NEW d \in Devices, RemoveDevice(d) \/ PairDevice(d)
      PROVE  file_transfer_meta' = file_transfer_meta
  BY <1>9 DEF RemoveDevice, PairDevice, tables
<1> QED
  BY <1>1, <1>2, <1>3, <1>4, <1>5, <1>6, <1>7, <1>8, <1>9
  DEF Next, IOThread, Environment

\* Expiry: a chunk that comes after the timeout never brings its transfer back.
THEOREM ExpiryCorrect == Spec => NoRevival
<1>1. Init => TypeOK /\ TablesAgree
  BY SizesAssumption DEF Init, TypeOK, TablesAgree, Times
<1>2. TypeOK /\ TablesAgree /\ [Next]_vars => (TypeOK /\ TablesAgree)'
  BY TypeStep, TablesStep
<1>3. TypeOK /\ TablesAgree /\ [Next]_vars =>
        [\A t \in StaleTransfers :
           t \in DOMAIN file_transfer_meta' =>
             file_transfer_meta'[t] = file_transfer_meta[t]
               \/ file_transfers'[t].got = {}]_vars
  BY RevivalStep
<1> QED
  BY <1>1, <1>2, <1>3, PTL DEF Spec, NoRevival

-----------------------------------------------------------------------------
(* The receiver implements FileLifecycle *)

\* The stage of a file says who owns it.
StageIs ==
  \A f \in Files :
    /\ f \in TransferFiles => Stage[f] = "receiving"
    /\ f \in IOFiles => Stage[f] = "checking"
    /\ f \in ItemFiles => Stage[f] = "offered"
    /\ f \in UIFiles => Stage[f] = "taken"
    /\ f \in DOMAIN disk \ Owned => Stage[f] = "lost"
    /\ f \notin DOMAIN disk => Stage[f] = "none"

LEMMA StageOfOwner == OwnershipInv => StageIs
<1> SUFFICES ASSUME OwnershipInv, NEW f \in Files
             PROVE  /\ f \in TransferFiles => Stage[f] = "receiving"
                    /\ f \in IOFiles => Stage[f] = "checking"
                    /\ f \in ItemFiles => Stage[f] = "offered"
                    /\ f \in UIFiles => Stage[f] = "taken"
                    /\ f \in DOMAIN disk \ Owned => Stage[f] = "lost"
                    /\ f \notin DOMAIN disk => Stage[f] = "none"
  BY DEF StageIs
<1>1. /\ TransferFiles \intersect (ItemFiles \union IOFiles \union UIFiles) = {}
      /\ ItemFiles \intersect (IOFiles \union UIFiles) = {}
      /\ IOFiles \intersect UIFiles = {}
      /\ Owned \subseteq DOMAIN disk
  BY DEF OwnershipInv, SingleOwner, NoDanglingFile
<1> QED
  BY <1>1 DEF Stage, Owned

\* Each way the files change hands is a step of the abstract specification.
LEMMA RefinementStep ==
  ASSUME OwnershipInv, OwnershipInv', StageIs, StageIs', FilesMove
  PROVE  [Lifecycle!Next]_Stage
<1> DEFINE old == Stage
           new == Stage'
<1>1. /\ old = [f \in Files |-> old[f]]
      /\ new = [f \in Files |-> new[f]]
  BY DEF Stage
<1>2. /\ TransferFiles \union IOFiles \union ItemFiles \union UIFiles
           \subseteq DOMAIN disk
      /\ DOMAIN disk \subseteq Files
      /\ TransferFiles \intersect (ItemFiles \union IOFiles \union UIFiles) = {}
      /\ ItemFiles \intersect (IOFiles \union UIFiles) = {}
      /\ IOFiles \intersect UIFiles = {}
  BY DEF OwnershipInv, SingleOwner, NoDanglingFile, Owned, TypeOK
<1>3. \A f \in Files :
        /\ f \in TransferFiles => old[f] = "receiving"
        /\ f \in IOFiles => old[f] = "checking"
        /\ f \in ItemFiles => old[f] = "offered"
        /\ f \in UIFiles => old[f] = "taken"
        /\ f \in DOMAIN disk
             \ (TransferFiles \union IOFiles \union ItemFiles \union UIFiles)
             => old[f] = "lost"
        /\ f \notin DOMAIN disk => old[f] = "none"
  BY DEF StageIs, Owned
<1>4. \A f \in Files :
        /\ f \in TransferFiles' => new[f] = "receiving"
        /\ f \in IOFiles' => new[f] = "checking"
        /\ f \in ItemFiles' => new[f] = "offered"
        /\ f \in UIFiles' => new[f] = "taken"
        /\ f \in DOMAIN disk'
             \ (TransferFiles' \union IOFiles' \union ItemFiles' \union UIFiles')
             => new[f] = "lost"
        /\ f \notin DOMAIN disk' => new[f] = "none"
  BY DEF StageIs, Owned
<1> HIDE DEF old, new
<1>5. CASE Opens
  <2>1. PICK stale \in SUBSET TransferFiles, fresh \in SUBSET (Files \ DOMAIN disk) :
          /\ \A f, g \in fresh : f = g
          /\ TransferFiles' = (TransferFiles \ stale) \union fresh
          /\ DOMAIN disk' = (DOMAIN disk \ stale) \union fresh
          /\ UNCHANGED <<IOFiles, ItemFiles, UIFiles>>
    BY <1>5 DEF Opens
  <2>2. stale \in SUBSET {f \in Files : old[f] = "receiving"}
    BY <1>2, <1>3, <2>1
  <2>3. CASE fresh = {}
    <3>1. \A g \in Files : new[g] = IF g \in stale THEN "none" ELSE old[g]
      BY <1>2, <1>3, <1>4, <2>1, <2>3
    <3>2. new = [g \in Files |-> IF g \in stale THEN "none" ELSE old[g]]
      BY <1>1, <3>1
    <3>3. Lifecycle!Expire
      BY <2>2, <3>2 DEF Lifecycle!Expire, Lifecycle!Drop, Lifecycle!At, old, new
    <3> QED
      BY <3>3 DEF Lifecycle!Next
  <2>4. CASE fresh # {}
    <3>1. PICK f \in fresh : fresh = {f}
      BY <2>1, <2>4
    <3>2. \A g \in Files : new[g] = IF g = f THEN "receiving"
                                    ELSE IF g \in stale THEN "none" ELSE old[g]
      BY <1>2, <1>3, <1>4, <2>1, <3>1
    <3>3. new = [g \in Files |-> IF g = f THEN "receiving"
                                 ELSE IF g \in stale THEN "none" ELSE old[g]]
      BY <1>1, <3>2
    <3>4. f \in {g \in Files : old[g] = "none"}
      BY <1>3, <2>1
    <3>5. Lifecycle!Open
      BY <2>2, <3>3, <3>4 DEF Lifecycle!Open, Lifecycle!Move, Lifecycle!At, old, new
    <3> QED
      BY <3>5 DEF Lifecycle!Next
  <2> QED
    BY <2>3, <2>4
<1>6. CASE Finishes
  <2>1. PICK f \in TransferFiles :
          /\ TransferFiles' = TransferFiles \ {f}
          /\ IOFiles = {} /\ IOFiles' = {f}
          /\ DOMAIN disk' = DOMAIN disk
          /\ UNCHANGED <<ItemFiles, UIFiles>>
    BY <1>6 DEF Finishes
  <2>2. \A g \in Files : new[g] = IF g = f THEN "checking"
                                  ELSE IF g \in {} THEN "none" ELSE old[g]
    BY <1>2, <1>3, <1>4, <2>1
  <2>3. new = [g \in Files |-> IF g = f THEN "checking"
                               ELSE IF g \in {} THEN "none" ELSE old[g]]
    BY <1>1, <2>2
  <2>4. f \in {g \in Files : old[g] = "receiving"}
    BY <1>2, <1>3
  <2>5. Lifecycle!Finish
    BY <2>3, <2>4 DEF Lifecycle!Finish, Lifecycle!Move, Lifecycle!At, old, new
  <2> QED
    BY <2>5 DEF Lifecycle!Next
<1>7. CASE Refuses
  <2>1. PICK f \in IOFiles : IOFiles = {f}
    BY <1>7 DEF Refuses, IOFiles
  <2>2. \A g \in Files : new[g] = IF g = f THEN "none"
                                  ELSE IF g \in {} THEN "none" ELSE old[g]
    BY <1>2, <1>3, <1>4, <1>7, <2>1 DEF Refuses
  <2>3. new = [g \in Files |-> IF g = f THEN "none"
                               ELSE IF g \in {} THEN "none" ELSE old[g]]
    BY <1>1, <2>2
  <2>4. f \in {g \in Files : old[g] = "checking"}
    BY <1>2, <1>3
  <2>5. Lifecycle!Refuse
    BY <2>3, <2>4 DEF Lifecycle!Refuse, Lifecycle!Move, Lifecycle!At, old, new
  <2> QED
    BY <2>5 DEF Lifecycle!Next
<1>8. CASE Offers
  <2>1. PICK removed \in SUBSET ItemFiles, taken \in {{}, IOFiles} :
          /\ ItemFiles' = (ItemFiles \ removed) \union taken
          /\ IOFiles' = IOFiles \ taken
          /\ DOMAIN disk' = DOMAIN disk \ removed
          /\ UNCHANGED <<TransferFiles, UIFiles>>
    BY <1>8 DEF Offers
  <2>2. removed \in SUBSET {f \in Files : old[f] = "offered"}
    BY <1>2, <1>3, <2>1
  <2>3. CASE taken = {}
    <3>1. \A g \in Files : new[g] = IF g \in removed THEN "none" ELSE old[g]
      BY <1>2, <1>3, <1>4, <2>1, <2>3
    <3>2. new = [g \in Files |-> IF g \in removed THEN "none" ELSE old[g]]
      BY <1>1, <3>1
    <3>3. Lifecycle!Evict
      BY <2>2, <3>2 DEF Lifecycle!Evict, Lifecycle!Drop, Lifecycle!At, old, new
    <3> QED
      BY <3>3 DEF Lifecycle!Next
  <2>4. CASE taken # {}
    <3>1. PICK f \in taken : taken = {f} /\ IOFiles = {f}
      BY <2>1, <2>4 DEF IOFiles
    <3>2. \A g \in Files : new[g] = IF g = f THEN "offered"
                                    ELSE IF g \in removed THEN "none" ELSE old[g]
      BY <1>2, <1>3, <1>4, <2>1, <3>1
    <3>3. new = [g \in Files |-> IF g = f THEN "offered"
                                 ELSE IF g \in removed THEN "none" ELSE old[g]]
      BY <1>1, <3>2
    <3>4. f \in {g \in Files : old[g] = "checking"}
      BY <1>2, <1>3, <3>1
    <3>5. Lifecycle!Offer
      BY <2>2, <3>3, <3>4
      DEF Lifecycle!Offer, Lifecycle!Move, Lifecycle!At, old, new
    <3> QED
      BY <3>5 DEF Lifecycle!Next
  <2> QED
    BY <2>3, <2>4
<1>9. CASE Takes
  <2>1. PICK moved \in SUBSET ItemFiles :
          /\ \A f, g \in moved : f = g
          /\ ItemFiles' = ItemFiles \ moved
          /\ UIFiles' = UIFiles \union moved
          /\ DOMAIN disk' = DOMAIN disk
          /\ UNCHANGED <<TransferFiles, IOFiles>>
    BY <1>9 DEF Takes
  <2>2. CASE moved = {}
    <3>1. \A g \in Files : new[g] = old[g]
      BY <1>2, <1>3, <1>4, <2>1, <2>2
    <3>2. new = old
      BY <1>1, <3>1
    <3> QED
      BY <3>2 DEF old, new
  <2>3. CASE moved # {}
    <3>1. PICK f \in moved : moved = {f}
      BY <2>1, <2>3
    <3>2. \A g \in Files : new[g] = IF g = f THEN "taken"
                                    ELSE IF g \in {} THEN "none" ELSE old[g]
      BY <1>2, <1>3, <1>4, <2>1, <3>1
    <3>3. new = [g \in Files |-> IF g = f THEN "taken"
                                 ELSE IF g \in {} THEN "none" ELSE old[g]]
      BY <1>1, <3>2
    <3>4. f \in {g \in Files : old[g] = "offered"}
      BY <1>2, <1>3, <2>1
    <3>5. Lifecycle!Take
      BY <3>3, <3>4 DEF Lifecycle!Take, Lifecycle!Move, Lifecycle!At, old, new
    <3> QED
      BY <3>5 DEF Lifecycle!Next
  <2> QED
    BY <2>2, <2>3
<1>10. CASE Releases
  <2>1. PICK gone \in SUBSET UIFiles :
          /\ \A f, g \in gone : f = g
          /\ UIFiles' = UIFiles \ gone
          /\ DOMAIN disk' \in {DOMAIN disk, DOMAIN disk \ gone}
          /\ UNCHANGED <<TransferFiles, IOFiles, ItemFiles>>
    BY <1>10 DEF Releases
  <2>2. CASE gone = {}
    <3>1. \A g \in Files : new[g] = old[g]
      BY <1>2, <1>3, <1>4, <2>1, <2>2
    <3>2. new = old
      BY <1>1, <3>1
    <3> QED
      BY <3>2 DEF old, new
  <2>3. CASE gone # {}
    <3>1. PICK f \in gone : gone = {f}
      BY <2>1, <2>3
    <3>2. f \in {g \in Files : old[g] = "taken"}
      BY <1>2, <1>3, <2>1
    <3>3. CASE DOMAIN disk' = DOMAIN disk
      <4>1. \A g \in Files : new[g] = IF g = f THEN "lost"
                                      ELSE IF g \in {} THEN "none" ELSE old[g]
        BY <1>2, <1>3, <1>4, <2>1, <3>1, <3>3
      <4>2. new = [g \in Files |-> IF g = f THEN "lost"
                                   ELSE IF g \in {} THEN "none" ELSE old[g]]
        BY <1>1, <4>1
      <4>3. Lifecycle!Forget
        BY <3>2, <4>2 DEF Lifecycle!Forget, Lifecycle!Move, Lifecycle!At, old, new
      <4> QED
        BY <4>3 DEF Lifecycle!Next
    <3>4. CASE DOMAIN disk' = DOMAIN disk \ gone
      <4>1. \A g \in Files : new[g] = IF g = f THEN "none"
                                      ELSE IF g \in {} THEN "none" ELSE old[g]
        BY <1>2, <1>3, <1>4, <2>1, <3>1, <3>4
      <4>2. new = [g \in Files |-> IF g = f THEN "none"
                                   ELSE IF g \in {} THEN "none" ELSE old[g]]
        BY <1>1, <4>1
      <4>3. Lifecycle!Dispose
        BY <3>2, <4>2 DEF Lifecycle!Dispose, Lifecycle!Move, Lifecycle!At, old, new
      <4> QED
        BY <4>3 DEF Lifecycle!Next
    <3> QED
      BY <2>1, <3>3, <3>4
  <2> QED
    BY <2>2, <2>3
<1>11. CASE Stops
  <2>1. \A g \in Files : new[g] = IF old[g] = "none" THEN "none" ELSE "lost"
    BY <1>2, <1>3, <1>4, <1>11 DEF Stops
  <2>2. new = [g \in Files |-> IF old[g] = "none" THEN "none" ELSE "lost"]
    BY <1>1, <2>1
  <2>3. Lifecycle!Stop
    BY <2>2 DEF Lifecycle!Stop, old, new
  <2> QED
    BY <2>3 DEF Lifecycle!Next
<1>12. CASE Stays
  <2>1. \A g \in Files : new[g] = old[g]
    BY <1>2, <1>3, <1>4, <1>12 DEF Stays
  <2>2. new = old
    BY <1>1, <2>1
  <2> QED
    BY <2>2 DEF old, new
<1> QED
  BY <1>5, <1>6, <1>7, <1>8, <1>9, <1>10, <1>11, <1>12 DEF FilesMove

\* Refinement: whatever the threads, the messages and the user do, each staging
\* file lives the life that FileLifecycle describes.
THEOREM RefinesLifecycle == Spec => ImplementsLifecycle
<1>1. Init => OwnershipInv
  BY InitOwnership
<1>2. OwnershipInv /\ [Next]_vars => OwnershipInv'
  BY TypeStep, TablesStep, OwnershipStep DEF OwnershipInv
<1>3. Init => Lifecycle!Init
  <2> SUFFICES ASSUME Init PROVE \A f \in Files : Stage[f] = "none"
    BY DEF Lifecycle!Init, Stage
  <2>1. OwnershipInv /\ DOMAIN disk = {}
    BY InitOwnership DEF Init
  <2> QED
    BY <2>1, StageOfOwner DEF StageIs
<1>4. OwnershipInv => StageIs
  BY StageOfOwner
<1>5. OwnershipInv /\ StageIs /\ OwnershipInv' /\ StageIs' /\ [Next]_vars
        => [Lifecycle!Next]_Stage
  BY FilesStep, RefinementStep
<1> QED
  BY <1>1, <1>2, <1>3, <1>4, <1>5, PTL
  DEF Spec, ImplementsLifecycle, Lifecycle!Spec

-----------------------------------------------------------------------------
(* The caps hold *)

\* The chunks that TotalSize counts.
Cells(sizes) == UNION {{k} \X Chunks(sizes[k]) : k \in DOMAIN sizes}

\* They are finitely many, for finitely many files.
LEMMA SizesAdd ==
  ASSUME NEW D, IsFiniteSet(D), NEW s \in [D -> Sizes]
  PROVE  IsFiniteSet(Cells(s)) /\ TotalSize(s) \in Nat
<1>1. IsFiniteSet(Chunks(MaxFileSize))
  BY SizesAssumption, FS_Interval DEF Chunks
<1>2. IsFiniteSet(D \X Chunks(MaxFileSize))
  BY <1>1, FS_Product
<1>3. Cells(s) \subseteq D \X Chunks(MaxFileSize)
  <2>1. \A k \in D : Chunks(s[k]) \subseteq Chunks(MaxFileSize)
    BY SizesAssumption DEF Sizes, Chunks
  <2> QED
    BY <2>1 DEF Cells
<1>4. IsFiniteSet(Cells(s))
  BY <1>2, <1>3, FS_Subset
<1> QED
  BY <1>4, FS_CardinalityType DEF TotalSize, Cells

\* Fewer files take no more.
LEMMA FewerTakeLess ==
  ASSUME NEW D, IsFiniteSet(D), NEW s \in [D -> Sizes],
         NEW E \in SUBSET D, NEW r \in [E -> Sizes], \A k \in E : r[k] = s[k]
  PROVE  TotalSize(r) \in Nat /\ TotalSize(r) <= TotalSize(s)
<1>1. IsFiniteSet(E)
  BY FS_Subset
<1>2. Cells(r) \subseteq Cells(s)
  BY DEF Cells
<1>3. Cardinality(Cells(r)) <= Cardinality(Cells(s))
  BY <1>2, SizesAdd, FS_Subset
<1> QED
  BY <1>1, <1>3, SizesAdd DEF TotalSize, Cells

\* One file more takes its size more.
LEMMA OneMoreTakesIts ==
  ASSUME NEW D, IsFiniteSet(D), NEW s \in [D -> Sizes], NEW x, x \notin D,
         NEW r \in [D \union {x} -> Sizes], \A k \in D : r[k] = s[k]
  PROVE  TotalSize(r) = TotalSize(s) + r[x]
<1> DEFINE own == {x} \X Chunks(r[x])
<1>1. Cells(r) = Cells(s) \union own
  <2>1. Cells(r) = (UNION {{k} \X Chunks(r[k]) : k \in D}) \union own
    BY DEF Cells
  <2>2. {{k} \X Chunks(r[k]) : k \in D} = {{k} \X Chunks(s[k]) : k \in D}
    OBVIOUS
  <2> QED
    BY <2>1, <2>2 DEF Cells
<1>2. Cells(s) \intersect own = {}
  BY DEF Cells
<1>3. IsFiniteSet(own) /\ Cardinality(own) = r[x]
  <2>1. r[x] \in Nat /\ IsFiniteSet(Chunks(r[x])) /\ Cardinality(Chunks(r[x])) = r[x]
    BY SizesAssumption, FS_Interval DEF Chunks, Sizes
  <2>2. IsFiniteSet({x}) /\ Cardinality({x}) = 1
    BY FS_Singleton
  <2>3. IsFiniteSet(own) /\ Cardinality(own) = 1 * Cardinality(Chunks(r[x]))
    BY <2>1, <2>2, FS_Product
  <2> QED
    BY <2>1, <2>3
<1>4. IsFiniteSet(Cells(s)) /\ Cardinality(Cells(s)) \in Nat
  BY SizesAdd DEF TotalSize, Cells
<1> HIDE DEF own
<1>5. Cardinality(Cells(r)) = Cardinality(Cells(s)) + Cardinality(own) - Cardinality({})
  BY <1>1, <1>2, <1>3, <1>4, FS_Union
<1>6. r[x] \in Nat
  BY SizesAssumption DEF Sizes
<1> QED
  BY <1>3, <1>4, <1>5, <1>6, FS_EmptySet DEF TotalSize, Cells

\* The sizes WithinLimits adds up, of any tables.
Totals(ft) == [t \in DOMAIN ft |-> ft[t].total]
ItemSizes(items) == [e \in {x \in DOMAIN items : IsFile(items[x])} |-> items[e].size]
InHand == IF io = Idle THEN 0 ELSE io.size

\* The invariant: Cardinality says something of finite sets only.
LimitsInv ==
  /\ TypeOK
  /\ TablesAgree
  /\ IsFiniteSet(DOMAIN file_transfers)
  /\ WithinLimits

LEMMA LimitsAre ==
  WithinLimits <=>
    /\ Cardinality(DOMAIN file_transfers) <= MaxTransfers
    /\ Cardinality(DOMAIN received_items) <= MaxInbox
    /\ TotalSize(Totals(file_transfers)) + TotalSize(ItemSizes(received_items)) + InHand
         <= MaxStaging
BY DEF WithinLimits, Totals, ItemSizes, InHand, FileEntries

LEMMA TableSizes ==
  ASSUME NEW ft, ft \in [DOMAIN ft -> Transfer], IsFiniteSet(DOMAIN ft)
  PROVE  /\ Totals(ft) \in [DOMAIN ft -> Sizes]
         /\ TotalSize(Totals(ft)) \in Nat
<1>1. Totals(ft) \in [DOMAIN ft -> Sizes]
  BY DEF Totals, Transfer
<1> QED
  BY <1>1, SizesAdd

LEMMA InboxSizes ==
  ASSUME NEW items, items \in [DOMAIN items -> Item], DOMAIN items \subseteq Envelopes
  PROVE  /\ IsFiniteSet(DOMAIN items)
         /\ IsFiniteSet(DOMAIN ItemSizes(items))
         /\ ItemSizes(items) \in [{x \in DOMAIN items : IsFile(items[x])} -> Sizes]
         /\ TotalSize(ItemSizes(items)) \in Nat
<1> DEFINE S == {x \in DOMAIN items : IsFile(items[x])}
<1>1. IsFiniteSet(DOMAIN items) /\ IsFiniteSet(S)
  BY EnvelopesFinite, FS_Subset
<1>2. ItemSizes(items) \in [S -> Sizes] /\ DOMAIN ItemSizes(items) = S
  BY DEF ItemSizes, IsFile, Item, TextItem, FileItem
<1> QED
  BY <1>1, <1>2, SizesAdd

LEMMA InHandSize ==
  ASSUME TypeOK PROVE InHand \in Nat
BY SizesAssumption DEF TypeOK, InHand, EndOfFile, Sizes

\* A table of transfers with some of the entries, and an inbox with some.
LEMMA FewerTransfers ==
  ASSUME NEW ft, ft \in [DOMAIN ft -> Transfer], IsFiniteSet(DOMAIN ft),
         NEW fu, fu \in [DOMAIN fu -> Transfer], DOMAIN fu \subseteq DOMAIN ft,
         \A t \in DOMAIN fu : fu[t].total = ft[t].total
  PROVE  /\ IsFiniteSet(DOMAIN fu)
         /\ Cardinality(DOMAIN fu) <= Cardinality(DOMAIN ft)
         /\ Cardinality(DOMAIN fu) \in Nat /\ Cardinality(DOMAIN ft) \in Nat
         /\ TotalSize(Totals(fu)) <= TotalSize(Totals(ft))
<1>1. /\ IsFiniteSet(DOMAIN fu)
      /\ Cardinality(DOMAIN fu) <= Cardinality(DOMAIN ft)
      /\ Cardinality(DOMAIN fu) \in Nat /\ Cardinality(DOMAIN ft) \in Nat
  BY FS_Subset, FS_CardinalityType
<1>2. Totals(ft) \in [DOMAIN ft -> Sizes] /\ Totals(fu) \in [DOMAIN fu -> Sizes]
  BY <1>1, TableSizes
<1>3. \A t \in DOMAIN fu : Totals(fu)[t] = Totals(ft)[t]
  BY DEF Totals
<1> QED
  BY <1>1, <1>2, <1>3, FewerTakeLess

LEMMA FewerItems ==
  ASSUME NEW items, items \in [DOMAIN items -> Item], DOMAIN items \subseteq Envelopes,
         NEW left, left \in [DOMAIN left -> Item], DOMAIN left \subseteq DOMAIN items,
         \A e \in DOMAIN left : left[e] = items[e]
  PROVE  /\ Cardinality(DOMAIN left) <= Cardinality(DOMAIN items)
         /\ Cardinality(DOMAIN left) \in Nat /\ Cardinality(DOMAIN items) \in Nat
         /\ TotalSize(ItemSizes(left)) <= TotalSize(ItemSizes(items))
<1> DEFINE S == {x \in DOMAIN items : IsFile(items[x])}
           T == {x \in DOMAIN left : IsFile(left[x])}
<1>1. DOMAIN left \subseteq Envelopes
  OBVIOUS
<1>2. /\ Cardinality(DOMAIN left) <= Cardinality(DOMAIN items)
      /\ Cardinality(DOMAIN left) \in Nat /\ Cardinality(DOMAIN items) \in Nat
  BY <1>1, InboxSizes, FS_Subset, FS_CardinalityType
<1>3. ItemSizes(items) \in [S -> Sizes] /\ ItemSizes(left) \in [T -> Sizes]
  BY <1>1, InboxSizes
<1>4. IsFiniteSet(S)
  BY EnvelopesFinite, FS_Subset
<1>5. T \in SUBSET S /\ \A e \in T : ItemSizes(left)[e] = ItemSizes(items)[e]
  BY DEF ItemSizes
<1> HIDE DEF S, T
<1> QED
  BY <1>2, <1>3, <1>4, <1>5, FewerTakeLess

\* A step after which less is held.
LEMMA HoldsLess ==
  ASSUME LimitsInv, TypeOK', TablesAgree',
         DOMAIN file_transfers' \subseteq DOMAIN file_transfers,
         \A t \in DOMAIN file_transfers' :
           file_transfers'[t].total = file_transfers[t].total,
         DOMAIN received_items' \subseteq DOMAIN received_items,
         \A e \in DOMAIN received_items' : received_items'[e] = received_items[e],
         io' = io \/ io' = Idle
  PROVE  LimitsInv'
<1> DEFINE ft == file_transfers
           fu == file_transfers'
           items == received_items
           left == received_items'
<1>1. /\ ft \in [DOMAIN ft -> Transfer] /\ fu \in [DOMAIN fu -> Transfer]
      /\ items \in [DOMAIN items -> Item] /\ left \in [DOMAIN left -> Item]
      /\ DOMAIN items \subseteq Envelopes
      /\ IsFiniteSet(DOMAIN ft)
  BY DEF LimitsInv, TypeOK
<1>2. /\ IsFiniteSet(DOMAIN fu)
      /\ Cardinality(DOMAIN fu) <= Cardinality(DOMAIN ft)
      /\ Cardinality(DOMAIN fu) \in Nat /\ Cardinality(DOMAIN ft) \in Nat
      /\ TotalSize(Totals(fu)) <= TotalSize(Totals(ft))
  BY <1>1, FewerTransfers
<1>3. /\ Cardinality(DOMAIN left) <= Cardinality(DOMAIN items)
      /\ Cardinality(DOMAIN left) \in Nat /\ Cardinality(DOMAIN items) \in Nat
      /\ TotalSize(ItemSizes(left)) <= TotalSize(ItemSizes(items))
  BY <1>1, FewerItems
<1>4. /\ TotalSize(Totals(fu)) \in Nat /\ TotalSize(Totals(ft)) \in Nat
      /\ TotalSize(ItemSizes(left)) \in Nat /\ TotalSize(ItemSizes(items)) \in Nat
  <2>1. DOMAIN left \subseteq Envelopes
    BY <1>1
  <2> QED
    BY <1>1, <1>2, <2>1, TableSizes, InboxSizes
<1>5. InHand \in Nat /\ InHand' \in Nat /\ InHand' <= InHand
  <2>1. InHand \in Nat
    BY InHandSize DEF LimitsInv
  <2> QED
    BY <2>1 DEF InHand
<1>6. /\ Cardinality(DOMAIN ft) <= MaxTransfers
      /\ Cardinality(DOMAIN items) <= MaxInbox
      /\ TotalSize(Totals(ft)) + TotalSize(ItemSizes(items)) + InHand <= MaxStaging
  BY LimitsAre DEF LimitsInv
<1>7. WithinLimits' <=> /\ Cardinality(DOMAIN fu) <= MaxTransfers
                        /\ Cardinality(DOMAIN left) <= MaxInbox
                        /\ TotalSize(Totals(fu)) + TotalSize(ItemSizes(left)) + InHand'
                             <= MaxStaging
  BY DEF WithinLimits, Totals, ItemSizes, InHand, FileEntries
<1>8. IsFiniteSet(DOMAIN file_transfers')
  BY <1>2
<1> HIDE DEF ft, fu, items, left
<1>9. WithinLimits'
  BY <1>2, <1>3, <1>4, <1>5, <1>6, <1>7, SizesAssumption
<1> QED
  BY <1>8, <1>9 DEF LimitsInv

\* What the purge leaves: fewer transfers, whose sizes both tables know.
LEMMA PurgedSizes ==
  ASSUME LimitsInv
  PROVE  /\ LiveTransfers \in [DOMAIN LiveTransfers -> Transfer]
         /\ DOMAIN LiveTransfers \subseteq DOMAIN file_transfers
         /\ \A t \in DOMAIN LiveTransfers : LiveTransfers[t] = file_transfers[t]
         /\ IsFiniteSet(DOMAIN LiveTransfers)
         /\ StagedBytes(LiveMeta, received_items)
              = TotalSize(Totals(LiveTransfers)) + TotalSize(ItemSizes(received_items))
<1>1. /\ LiveTransfers \in [DOMAIN LiveTransfers -> Transfer]
      /\ DOMAIN LiveTransfers \subseteq DOMAIN file_transfers
      /\ \A t \in DOMAIN LiveTransfers : LiveTransfers[t] = file_transfers[t]
  BY DEF LimitsInv, TypeOK, LiveTransfers, Without, Restrict
<1>2. IsFiniteSet(DOMAIN LiveTransfers)
  BY <1>1, FS_Subset DEF LimitsInv
<1>3. /\ DOMAIN LiveMeta = DOMAIN LiveTransfers
      /\ \A t \in DOMAIN LiveTransfers : LiveTransfers[t].total = LiveMeta[t].size
  BY DEF LimitsInv, TypeOK, TablesAgree, LiveTransfers, LiveMeta, Without, Restrict
<1>4. [t \in DOMAIN LiveMeta |-> LiveMeta[t].size] = Totals(LiveTransfers)
  BY <1>3 DEF Totals
<1> QED
  BY <1>1, <1>2, <1>4 DEF StagedBytes, ItemSizes

\* handle_file_start admits a file: the checks leave room for it.
LEMMA AdmittedFits ==
  ASSUME LimitsInv, TypeOK', TablesAgree', NEW d \in Devices, NEW t \in Transfers,
         NEW n \in Announced, NEW f \in Files, HandleFileStart(d, t, n, f), Admits(t, n)
  PROVE  LimitsInv'
<1> DEFINE lt == LiveTransfers
           fu == Put(lt, t, [file |-> f, total |-> n, got |-> {}])
           D == DOMAIN lt
           inbox == TotalSize(ItemSizes(received_items))
<1>1. /\ file_transfers' = fu /\ received_items' = received_items
      /\ io = Idle /\ io' = Idle /\ n \in Sizes
  BY DEF HandleFileStart, Admissible, Announced, Sizes
<1>2. /\ lt \in [D -> Transfer] /\ IsFiniteSet(D) /\ t \notin D
      /\ Cardinality(D) < MaxTransfers
      /\ TotalSize(Totals(lt)) + inbox + n <= MaxStaging
  BY PurgedSizes DEF Admits
<1>3. TotalSize(Totals(lt)) \in Nat /\ Totals(lt) \in [D -> Sizes]
  BY <1>2, TableSizes
<1>4. inbox \in Nat
  BY InboxSizes DEF LimitsInv, TypeOK
<1>5. n \in Nat
  BY <1>1, SizesAssumption DEF Sizes
<1> HIDE DEF lt
<1>6. DOMAIN fu = D \union {t} /\ \A u \in D : fu[u] = lt[u]
  BY <1>2 DEF Put
<1>7. /\ Totals(fu) \in [D \union {t} -> Sizes]
      /\ Totals(fu)[t] = n
      /\ \A u \in D : Totals(fu)[u] = Totals(lt)[u]
  BY <1>1, <1>2, <1>3, <1>6 DEF Totals, Put
<1>8. TotalSize(Totals(fu)) = TotalSize(Totals(lt)) + n
  <2> DEFINE s == Totals(lt)
             u == Totals(fu)
  <2>1. s \in [D -> Sizes] /\ u \in [D \union {t} -> Sizes] /\ \A k \in D : u[k] = s[k]
    BY <1>3, <1>7
  <2>2. IsFiniteSet(D) /\ t \notin D /\ u[t] = n
    BY <1>2, <1>7
  <2> HIDE DEF s, u, D
  <2>3. TotalSize(u) = TotalSize(s) + u[t]
    BY <2>1, <2>2, OneMoreTakesIts
  <2> QED
    BY <2>2, <2>3 DEF s, u
<1>9. /\ IsFiniteSet(DOMAIN fu) /\ Cardinality(DOMAIN fu) <= MaxTransfers
  <2>1. IsFiniteSet(D \union {t}) /\ Cardinality(D \union {t}) = Cardinality(D) + 1
    BY <1>2, FS_AddElement
  <2>2. Cardinality(D) \in Nat /\ Cardinality(D) < MaxTransfers
    BY <1>2, FS_CardinalityType
  <2>3. Cardinality(D) + 1 <= MaxTransfers
    BY <2>2, SizesAssumption
  <2> QED
    BY <1>6, <2>1, <2>3
<1>10. Cardinality(DOMAIN received_items) <= MaxInbox
  BY DEF LimitsInv, WithinLimits
<1>11. WithinLimits' <=> /\ Cardinality(DOMAIN fu) <= MaxTransfers
                         /\ Cardinality(DOMAIN received_items) <= MaxInbox
                         /\ TotalSize(Totals(fu)) + inbox + 0 <= MaxStaging
  BY <1>1 DEF WithinLimits, Totals, ItemSizes, FileEntries
<1>12. IsFiniteSet(DOMAIN file_transfers')
  BY <1>1, <1>9
<1> HIDE DEF fu, inbox
<1>13. WithinLimits'
  BY <1>2, <1>3, <1>4, <1>5, <1>8, <1>9, <1>10, <1>11, SizesAssumption
<1> QED
  BY <1>12, <1>13 DEF LimitsInv

\* handle_file_end takes a transfer from the tables into its hands.
LEMMA EndedFits ==
  ASSUME LimitsInv, TypeOK', TablesAgree', NEW d \in Devices, NEW e \in Envelopes,
         NEW t \in Transfers, NEW v \in Versions, HandleFileEnd(d, e, t, v)
  PROVE  LimitsInv'
<1> DEFINE ft == file_transfers
           fu == Without(ft, {t})
           D == DOMAIN ft \ {t}
           inbox == TotalSize(ItemSizes(received_items))
           n == ft[t].total
<1>1. /\ file_transfers' = fu /\ received_items' = received_items
      /\ io = Idle /\ io' # Idle /\ io'.size = n /\ t \in DOMAIN ft
  BY DEF HandleFileEnd, Idle
<1>2. /\ ft \in [DOMAIN ft -> Transfer] /\ IsFiniteSet(DOMAIN ft)
      /\ fu \in [D -> Transfer] /\ DOMAIN fu = D /\ \A u \in D : fu[u] = ft[u]
  <2>1. ft \in [DOMAIN ft -> Transfer] /\ IsFiniteSet(DOMAIN ft)
    BY DEF LimitsInv, TypeOK
  <2> QED
    BY <2>1 DEF Without, Restrict
<1>3. inbox \in Nat
  BY InboxSizes DEF LimitsInv, TypeOK
<1>4. /\ Cardinality(DOMAIN ft) <= MaxTransfers
      /\ Cardinality(DOMAIN received_items) <= MaxInbox
      /\ TotalSize(Totals(ft)) + inbox + 0 <= MaxStaging
  BY <1>1 DEF LimitsInv, WithinLimits, Totals, ItemSizes, FileEntries
<1>5. WithinLimits' <=> /\ Cardinality(D) <= MaxTransfers
                        /\ Cardinality(DOMAIN received_items) <= MaxInbox
                        /\ TotalSize(Totals(fu)) + inbox + n <= MaxStaging
  BY <1>1, <1>2 DEF WithinLimits, Totals, ItemSizes, FileEntries
<1> HIDE DEF fu
<1>6. /\ IsFiniteSet(D) /\ Cardinality(D) \in Nat /\ Cardinality(DOMAIN ft) \in Nat
      /\ Cardinality(D) <= Cardinality(DOMAIN ft)
  BY <1>2, FS_Subset, FS_CardinalityType
<1>7. /\ Totals(fu) \in [D -> Sizes] /\ TotalSize(Totals(fu)) \in Nat
      /\ Totals(ft) \in [DOMAIN ft -> Sizes]
  BY <1>2, <1>6, TableSizes
<1>8. /\ D \union {t} = DOMAIN ft /\ t \notin D /\ Totals(ft)[t] = n
      /\ \A u \in D : Totals(ft)[u] = Totals(fu)[u]
  BY <1>1, <1>2 DEF Totals
<1>9. TotalSize(Totals(ft)) = TotalSize(Totals(fu)) + n
  BY <1>6, <1>7, <1>8, OneMoreTakesIts
<1>10. n \in Nat
  BY <1>1, <1>2, SizesAssumption DEF Transfer, Sizes
<1>11. IsFiniteSet(DOMAIN file_transfers')
  BY <1>1, <1>2, <1>6
<1> HIDE DEF ft, D, inbox, n
<1>12. WithinLimits'
  BY <1>3, <1>4, <1>5, <1>6, <1>7, <1>9, <1>10, SizesAssumption
<1> QED
  BY <1>11, <1>12 DEF LimitsInv

\* deliver_item: the items that make room leave one place, and what the new item
\* takes is added.
LEMMA DeliveredFits ==
  ASSUME LimitsInv, NEW e \in Envelopes, NEW item \in Item, Deliver(e, item)
  PROVE  /\ Cardinality(DOMAIN received_items') <= MaxInbox
         /\ TotalSize(ItemSizes(received_items'))
              <= TotalSize(ItemSizes(received_items))
                   + (IF IsFile(item) THEN item.size ELSE 0)
<1> DEFINE items == received_items
           others == DOMAIN items \ {e}
<1>1. PICK kept \in SUBSET DOMAIN items :
        Keeps(e, kept) /\ received_items' = Put(Restrict(items, kept), e, item)
  BY DEF Deliver
<1> DEFINE left == Restrict(items, kept)
           new == Put(left, e, item)
           S == {x \in kept : IsFile(left[x])}
<1>2. /\ items \in [DOMAIN items -> Item] /\ DOMAIN items \subseteq Envelopes
      /\ left \in [kept -> Item] /\ DOMAIN left = kept
      /\ \A x \in kept : left[x] = items[x]
  <2>1. items \in [DOMAIN items -> Item] /\ DOMAIN items \subseteq Envelopes
    BY DEF LimitsInv, TypeOK
  <2> QED
    BY <2>1 DEF Restrict
<1>3. /\ kept \subseteq others
      /\ IF Cardinality(others) < MaxInbox
           THEN kept = others ELSE Cardinality(kept) = MaxInbox - 1
  BY <1>1 DEF Keeps
<1>4. /\ IsFiniteSet(kept) /\ Cardinality(kept) \in Nat
      /\ IsFiniteSet(others) /\ Cardinality(others) \in Nat
  BY <1>2, EnvelopesFinite, FS_Subset, FS_CardinalityType
<1>5. received_items' = new
  BY <1>1
<1> HIDE DEF left
<1>6. /\ TotalSize(ItemSizes(left)) <= TotalSize(ItemSizes(items))
      /\ TotalSize(ItemSizes(left)) \in Nat /\ TotalSize(ItemSizes(items)) \in Nat
      /\ ItemSizes(left) \in [S -> Sizes]
  <2>1. DOMAIN left \subseteq Envelopes /\ left \in [DOMAIN left -> Item]
    BY <1>2
  <2>2. {x \in DOMAIN left : IsFile(left[x])} = S
    BY <1>2
  <2> QED
    BY <1>2, <2>1, <2>2, FewerItems, InboxSizes
<1>7. /\ DOMAIN new = kept \union {e} /\ new \in [kept \union {e} -> Item]
      /\ new[e] = item /\ \A x \in kept : new[x] = left[x]
  <2>1. e \notin kept
    BY <1>3
  <2> QED
    BY <1>2, <2>1 DEF Put
<1> HIDE DEF new
<1>8. Cardinality(DOMAIN new) <= MaxInbox
  <2>1. e \notin kept
    BY <1>3
  <2>2. Cardinality(kept \union {e}) = Cardinality(kept) + 1
    BY <1>4, <2>1, FS_AddElement
  <2>3. Cardinality(kept) < MaxInbox
    <3>1. CASE kept = others /\ Cardinality(others) < MaxInbox
      BY <3>1
    <3>2. CASE Cardinality(kept) = MaxInbox - 1
      BY <3>2, SizesAssumption
    <3> QED
      BY <1>3, <3>1, <3>2
  <2> HIDE DEF others
  <2>4. Cardinality(kept) + 1 <= MaxInbox
    BY <1>4, <2>3, SizesAssumption
  <2> QED
    BY <1>7, <2>2, <2>4
<1>9. CASE IsFile(item)
  <2>1. {x \in DOMAIN new : IsFile(new[x])} = S \union {e} /\ e \notin S
    BY <1>3, <1>7, <1>9
  <2>2. ItemSizes(new) \in [S \union {e} -> Sizes] /\ IsFiniteSet(S)
    <3>1. DOMAIN new \subseteq Envelopes /\ new \in [DOMAIN new -> Item]
      BY <1>2, <1>7
    <3> QED
      BY <1>4, <2>1, <3>1, InboxSizes, FS_Subset
  <2>3. ItemSizes(new)[e] = item.size
    BY <1>7, <2>1 DEF ItemSizes
  <2>4. \A x \in S : ItemSizes(new)[x] = ItemSizes(left)[x]
    BY <1>2, <1>7, <2>1 DEF ItemSizes
  <2>5. TotalSize(ItemSizes(new)) = TotalSize(ItemSizes(left)) + ItemSizes(new)[e]
    BY <1>6, <2>1, <2>2, <2>4, OneMoreTakesIts
  <2>6. item.size \in Nat
    BY <1>9, SizesAssumption DEF Item, TextItem, FileItem, IsFile, Sizes
  <2> HIDE DEF items
  <2>7. TotalSize(ItemSizes(new)) <= TotalSize(ItemSizes(items)) + item.size
    BY <1>6, <2>3, <2>5, <2>6
  <2> QED
    BY <1>5, <1>8, <1>9, <2>7 DEF items
<1>10. CASE ~IsFile(item)
  <2>1. {x \in DOMAIN new : IsFile(new[x])} = S
    BY <1>3, <1>7, <1>10
  <2>2. ItemSizes(new) = ItemSizes(left)
    <3>1. {x \in DOMAIN left : IsFile(left[x])} = S
      BY <1>2
    <3>2. \A x \in S : new[x].size = left[x].size
      BY <1>7
    <3> QED
      BY <2>1, <3>1, <3>2 DEF ItemSizes
  <2>3. TotalSize(ItemSizes(new)) <= TotalSize(ItemSizes(items)) + 0
    BY <1>6, <2>2
  <2> QED
    BY <1>5, <1>8, <1>10, <2>3
<1> QED
  BY <1>9, <1>10

LEMMA LimitsStep ==
  ASSUME LimitsInv, [Next]_vars
  PROVE  LimitsInv'
<1>a. TypeOK' /\ TablesAgree'
  BY TypeStep, TablesStep DEF LimitsInv
<1>b. /\ received_items \in [DOMAIN received_items -> Item]
      /\ TypeOK /\ IsFiniteSet(DOMAIN file_transfers)
  BY DEF LimitsInv, TypeOK
<1>c. ASSUME UNCHANGED tables, NEW e \in Envelopes, NEW item \in Item, Deliver(e, item),
             InHand = (IF IsFile(item) THEN item.size ELSE 0), io' = Idle
      PROVE  LimitsInv'
  <2>1. /\ Cardinality(DOMAIN received_items') <= MaxInbox
        /\ TotalSize(ItemSizes(received_items'))
             <= TotalSize(ItemSizes(received_items)) + InHand
    BY <1>c, DeliveredFits
  <2>2. /\ TotalSize(Totals(file_transfers)) \in Nat
        /\ TotalSize(ItemSizes(received_items)) \in Nat
        /\ TotalSize(ItemSizes(received_items')) \in Nat
        /\ InHand \in Nat
    BY <1>a, <1>b, TableSizes, InboxSizes, InHandSize DEF TypeOK
  <2>3. /\ Cardinality(DOMAIN file_transfers) <= MaxTransfers
        /\ TotalSize(Totals(file_transfers)) + TotalSize(ItemSizes(received_items))
             + InHand <= MaxStaging
    BY LimitsAre DEF LimitsInv
  <2>4. /\ file_transfers' = file_transfers /\ InHand' = 0
        /\ IsFiniteSet(DOMAIN file_transfers')
    BY <1>b, <1>c DEF tables, InHand
  <2>5. TotalSize(Totals(file_transfers)) + TotalSize(ItemSizes(received_items')) + 0
          <= MaxStaging
    BY <2>1, <2>2, <2>3, SizesAssumption
  <2>6. WithinLimits'
    BY <2>1, <2>3, <2>4, <2>5
    DEF WithinLimits, Totals, ItemSizes, InHand, FileEntries
  <2> QED
    BY <1>a, <2>4, <2>6 DEF LimitsInv
<1>d. ASSUME UNCHANGED <<file_transfers, received_items>>, io' = io \/ io' = Idle
      PROVE  LimitsInv'
  BY <1>a, <1>d, HoldsLess
<1>1. ASSUME NEW d \in Devices, NEW e \in Envelopes, HandleText(d, e) PROVE LimitsInv'
  <2> DEFINE item == [kind |-> "text", from |-> d, at |-> now]
  <2>1. item \in Item /\ ~IsFile(item)
    BY <1>b DEF TypeOK, Item, TextItem, IsFile
  <2>2. Deliver(e, item) /\ UNCHANGED tables /\ io = Idle /\ io' = Idle
    BY <1>1 DEF HandleText, tables
  <2> HIDE DEF item
  <2>3. InHand = (IF IsFile(item) THEN item.size ELSE 0)
    BY <2>1, <2>2 DEF InHand
  <2> QED
    BY <1>c, <2>1, <2>2, <2>3
<1>2. ASSUME NEW d \in Devices, NEW t \in Transfers, NEW n \in Announced,
             NEW f \in Files, HandleFileStart(d, t, n, f)
      PROVE  LimitsInv'
  <2>1. CASE Admits(t, n)
    BY <1>2, <1>a, <2>1, AdmittedFits
  <2>2. CASE ~Admits(t, n)
    <3>1. file_transfers' = LiveTransfers /\ UNCHANGED <<received_items, io>>
      BY <1>2, <2>2 DEF HandleFileStart
    <3> QED
      BY <1>a, <3>1, PurgedSizes, HoldsLess
  <2> QED
    BY <2>1, <2>2
<1>3. ASSUME NEW d \in Devices, NEW t \in Transfers, NEW i \in Chunks(MaxFileSize),
             NEW v \in Versions, NEW stored \in BOOLEAN,
             HandleFileChunk(d, t, i, v, stored)
      PROVE  LimitsInv'
  <2>1. /\ file_transfers' = [LiveTransfers EXCEPT ![t].got = @ \union {i}]
        /\ UNCHANGED <<received_items, io>>
    BY <1>3 DEF HandleFileChunk
  <2> DEFINE lt == LiveTransfers
  <2>2. /\ lt \in [DOMAIN lt -> Transfer] /\ DOMAIN lt \subseteq DOMAIN file_transfers
        /\ \A u \in DOMAIN lt : lt[u] = file_transfers[u]
    BY PurgedSizes
  <2>3. file_transfers' = [lt EXCEPT ![t].got = @ \union {i}]
    BY <2>1
  <2> HIDE DEF lt
  <2>4. DOMAIN file_transfers' \subseteq DOMAIN lt
        /\ \A u \in DOMAIN lt : file_transfers'[u].total = lt[u].total
    BY <2>2, <2>3 DEF Transfer
  <2> QED
    BY <1>a, <2>1, <2>2, <2>4, HoldsLess
<1>4. ASSUME NEW d \in Devices, NEW t \in Transfers, NEW i \in Chunks(MaxFileSize),
             IgnoreFileChunk(d, t, i)
      PROVE  LimitsInv'
  <2>1. file_transfers' = LiveTransfers /\ UNCHANGED <<received_items, io>>
    BY <1>4 DEF IgnoreFileChunk
  <2> QED
    BY <1>a, <2>1, PurgedSizes, HoldsLess
<1>5. ASSUME NEW d \in Devices, NEW e \in Envelopes, NEW t \in Transfers,
             NEW v \in Versions, HandleFileEnd(d, e, t, v)
      PROVE  LimitsInv'
  BY <1>5, <1>a, EndedFits
<1>6. CASE DiscardFile
  BY <1>6, <1>d DEF DiscardFile, tables
<1>7. CASE DeliverFile
  <2> DEFINE item == [kind |-> "file", from |-> io.from, at |-> now,
                      file |-> io.file, size |-> io.size]
             e == io.env
  <2>1. e \in Envelopes /\ item \in Item /\ IsFile(item) /\ item.size = io.size
    BY <1>7, <1>b DEF DeliverFile, TypeOK, EndOfFile, Item, FileItem, IsFile
  <2>2. Deliver(e, item) /\ UNCHANGED tables /\ io # Idle /\ io' = Idle
    BY <1>7 DEF DeliverFile, tables
  <2> HIDE DEF item, e
  <2>3. InHand = (IF IsFile(item) THEN item.size ELSE 0)
    BY <2>1, <2>2 DEF InHand
  <2> QED
    BY <1>c, <2>1, <2>2, <2>3
<1>8. ASSUME NEW c \in Callers, UIThread(c) PROVE LimitsInv'
  <2>1. ASSUME NEW e \in Envelopes, NEW action \in {"save", "reject", "dismiss"},
               ActOnItem(c, e, action)
        PROVE  LimitsInv'
    <3>1. UNCHANGED <<file_transfers, io>> /\ received_items' = Without(received_items, {e})
      BY <2>1 DEF ActOnItem, tables
    <3>2. /\ DOMAIN received_items' \subseteq DOMAIN received_items
          /\ \A x \in DOMAIN received_items' : received_items'[x] = received_items[x]
      BY <1>b, <3>1 DEF Without, Restrict
    <3> QED
      BY <1>a, <3>1, <3>2, HoldsLess
  <2>2. CASE CopyOut(c) \/ SaveNothing(c) \/ RemoveStaged(c) \/ RejectItem(c)
    BY <1>d, <2>2 DEF CopyOut, SaveNothing, RemoveStaged, RejectItem, tables
  <2> QED
    BY <1>8, <2>1, <2>2 DEF UIThread
<1>9. CASE Environment
  <2>1. CASE Restart
    BY <1>a, <2>1, HoldsLess DEF Restart
  <2>2. ASSUME NEW d \in Devices, RemoveDevice(d) \/ PairDevice(d) PROVE LimitsInv'
    BY <1>d, <2>2 DEF RemoveDevice, PairDevice, tables
  <2>3. CASE Tick
    BY <1>d, <2>3 DEF Tick, tables
  <2> QED
    BY <1>9, <2>1, <2>2, <2>3 DEF Environment
<1>10. CASE UNCHANGED vars
  BY <1>10, <1>d DEF vars
<1> QED
  BY <1>1, <1>2, <1>3, <1>4, <1>5, <1>6, <1>7, <1>8, <1>9, <1>10 DEF Next, IOThread

LEMMA InitLimits ==
  ASSUME Init PROVE LimitsInv
<1>1. TypeOK /\ TablesAgree
  BY SizesAssumption DEF Init, TypeOK, TablesAgree, Times
<1>2. DOMAIN file_transfers = {} /\ DOMAIN received_items = {} /\ io = Idle
  BY DEF Init
<1>3. IsFiniteSet({}) /\ Cardinality({}) = 0
  BY FS_EmptySet
<1>4. ASSUME NEW s, DOMAIN s = {} PROVE TotalSize(s) = 0
  <2>1. Cells(s) = {}
    BY <1>4 DEF Cells
  <2> QED
    BY <1>3, <2>1 DEF TotalSize, Cells
<1>5. TotalSize(Totals(file_transfers)) = 0 /\ TotalSize(ItemSizes(received_items)) = 0
  <2>1. DOMAIN Totals(file_transfers) = {} /\ DOMAIN ItemSizes(received_items) = {}
    BY <1>2 DEF Totals, ItemSizes
  <2> QED
    BY <1>4, <2>1
<1>6. InHand = 0
  BY <1>2 DEF InHand
<1>7. WithinLimits
  BY <1>2, <1>3, <1>5, <1>6, LimitsAre, SizesAssumption
<1> QED
  BY <1>1, <1>2, <1>3, <1>7 DEF LimitsInv

\* The caps on transfers, items and staged bytes hold in every behaviour, for what
\* is really held: the checks of handle_file_start, which does not see the file in
\* handle_file_end's hands, are enough.
THEOREM CapsHold == Spec => []WithinLimits
<1>1. LimitsInv => WithinLimits
  BY DEF LimitsInv
<1> QED
  BY <1>1, InitLimits, LimitsStep, PTL DEF Spec

-----------------------------------------------------------------------------
(* What leaves the inbox *)

LossIsJustified ==
  restarts' = restarts =>
    \A e \in DOMAIN received_items \ DOMAIN received_items' :
      \/ \E c \in Callers : ui'[c] # ui[c] /\ ui'[c].env = e
      \/ /\ Cardinality(DOMAIN received_items) = MaxInbox
         /\ \A g \in DOMAIN received_items \intersect DOMAIN received_items' :
              received_items'[g] = received_items[g] =>
                received_items[e].at <= received_items[g].at

\* deliver_item evicts from an inbox that is full, and so only when the new item
\* replaces none.
LEMMA EvictedWhenFull ==
  ASSUME LimitsInv, NEW x \in Envelopes, NEW item \in Item, Deliver(x, item),
         NEW e \in DOMAIN received_items \ DOMAIN received_items'
  PROVE  /\ Cardinality(DOMAIN received_items) = MaxInbox
         /\ \A g \in DOMAIN received_items \intersect DOMAIN received_items' :
              received_items[e].at <= received_items[g].at
<1> DEFINE D == DOMAIN received_items
           others == D \ {x}
<1>1. PICK kept \in SUBSET D :
        Keeps(x, kept) /\ received_items' = Put(Restrict(received_items, kept), x, item)
  BY DEF Deliver
<1>2. DOMAIN received_items' = kept \union {x}
  BY <1>1 DEF Put, Restrict
<1>3. kept \subseteq others /\ e \in others \ kept
  BY <1>1, <1>2 DEF Keeps
<1>4. /\ ~(Cardinality(others) < MaxInbox)
      /\ \A k \in kept, v \in others \ kept : received_items[v].at <= received_items[k].at
  <2>1. kept # others
    BY <1>3
  <2> QED
    BY <1>1, <2>1 DEF Keeps
<1>5. IsFiniteSet(D) /\ Cardinality(D) <= MaxInbox
  BY InboxSizes DEF LimitsInv, TypeOK, WithinLimits
<1>6. /\ Cardinality(D) \in Nat /\ Cardinality(others) \in Nat
      /\ Cardinality(others) <= Cardinality(D)
      /\ Cardinality(D) = Cardinality(others) => D = others
  <2>1. others \in SUBSET D
    OBVIOUS
  <2> HIDE DEF D, others
  <2> QED
    BY <1>5, <2>1, FS_Subset, FS_CardinalityType
<1>7. Cardinality(D) = MaxInbox /\ D = others
  <2> HIDE DEF D, others
  <2> QED
    BY <1>4, <1>5, <1>6, SizesAssumption
<1>8. \A g \in D \intersect DOMAIN received_items' : g \in kept
  BY <1>2, <1>7
<1> QED
  BY <1>3, <1>4, <1>7, <1>8

LEMMA LossStep ==
  ASSUME LimitsInv, [Next]_vars
  PROVE  LossIsJustified
<1>a. TypeOK
  BY DEF LimitsInv
<1>b. ASSUME received_items' = received_items PROVE LossIsJustified
  BY <1>b DEF LossIsJustified
<1>1. ASSUME NEW d \in Devices, NEW e \in Envelopes, HandleText(d, e)
      PROVE  LossIsJustified
  <2> DEFINE item == [kind |-> "text", from |-> d, at |-> now]
  <2>1. item \in Item
    BY <1>a DEF TypeOK, Item, TextItem
  <2>2. Deliver(e, item)
    BY <1>1 DEF HandleText
  <2> HIDE DEF item
  <2> QED
    BY <2>1, <2>2, EvictedWhenFull DEF LossIsJustified
<1>2. CASE DeliverFile
  <2> DEFINE item == [kind |-> "file", from |-> io.from, at |-> now,
                      file |-> io.file, size |-> io.size]
             x == io.env
  <2>1. x \in Envelopes /\ item \in Item
    BY <1>2, <1>a DEF DeliverFile, TypeOK, EndOfFile, Item, FileItem
  <2>2. Deliver(x, item)
    BY <1>2 DEF DeliverFile
  <2> HIDE DEF item, x
  <2> QED
    BY <2>1, <2>2, EvictedWhenFull DEF LossIsJustified
<1>3. ASSUME NEW c \in Callers, NEW e \in Envelopes,
             NEW action \in {"save", "reject", "dismiss"}, ActOnItem(c, e, action)
      PROVE  LossIsJustified
  <2>1. DOMAIN received_items \ DOMAIN received_items' \subseteq {e}
    BY <1>3 DEF ActOnItem, Without, Restrict
  <2>2. ui'[c].env = e /\ ui'[c].pc = action /\ ui[c].pc = "idle"
    BY <1>3, <1>a DEF ActOnItem, TypeOK, Idle
  <2>3. ui'[c] # ui[c]
    BY <2>2
  <2> QED
    BY <2>1, <2>2, <2>3 DEF LossIsJustified
<1>4. CASE Restart
  <2>1. restarts' # restarts
    BY <1>4, <1>a DEF Restart, TypeOK
  <2> QED
    BY <2>1 DEF LossIsJustified
<1>5. ASSUME NEW c \in Callers,
             CopyOut(c) \/ SaveNothing(c) \/ RemoveStaged(c) \/ RejectItem(c)
      PROVE  received_items' = received_items
  BY <1>5 DEF CopyOut, SaveNothing, RemoveStaged, RejectItem
<1>6. ASSUME NEW d \in Devices, RemoveDevice(d) \/ PairDevice(d)
      PROVE  received_items' = received_items
  BY <1>6 DEF RemoveDevice, PairDevice
<1>7. ASSUME NEW d \in Devices, NEW t \in Transfers, NEW i \in Chunks(MaxFileSize),
             \/ IgnoreFileChunk(d, t, i)
             \/ \E v \in Versions, stored \in BOOLEAN : HandleFileChunk(d, t, i, v, stored)
      PROVE  received_items' = received_items
  BY <1>7 DEF IgnoreFileChunk, HandleFileChunk
<1>8. ASSUME NEW d \in Devices, NEW t \in Transfers,
             \/ \E n \in Announced, f \in Files : HandleFileStart(d, t, n, f)
             \/ \E e \in Envelopes, v \in Versions : HandleFileEnd(d, e, t, v)
      PROVE  received_items' = received_items
  BY <1>8 DEF HandleFileStart, HandleFileEnd
<1>9. DiscardFile \/ Tick \/ UNCHANGED vars => received_items' = received_items
  BY DEF DiscardFile, Tick, vars
<1> QED
  BY <1>b, <1>1, <1>2, <1>3, <1>4, <1>5, <1>6, <1>7, <1>8, <1>9
  DEF Next, IOThread, UIThread, Environment

\* No item leaves the inbox but by its user's action, a newer one of its envelope_id,
\* or an eviction that takes the oldest of a full inbox.
THEOREM LossesAreJustified == Spec => InboxLoss
<1>1. LimitsInv /\ [Next]_vars => [LossIsJustified]_vars
  BY LossStep
<1>2. Spec => [][LossIsJustified]_vars
  BY <1>1, InitLimits, LimitsStep, PTL DEF Spec
<1> QED
  BY <1>2 DEF InboxLoss, LossIsJustified

=============================================================================
