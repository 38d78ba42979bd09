---------------------------- MODULE DeviceStore ----------------------------
(***************************************************************************)
(* A repository kept in a JSON file: storage/store.go (Collection) with    *)
(* the operations of storage/devices.go.  storage/users.go keeps users in  *)
(* the same way.                                                           *)
(*                                                                         *)
(* Every change goes through Mutate: under the write lock, the callback    *)
(* makes the new list out of the one in memory, persist writes it to a     *)
(* temporary file and renames that over the old one, and only then does    *)
(* memory take the new list.  The callbacks work inside the array of the   *)
(* list in memory, so a change whose persist fails is partly there all the *)
(* same: `left` is what memory then holds.                                 *)
(*                                                                         *)
(* Mutate holds the lock throughout, and readers take it too, so nobody    *)
(* sees the array meanwhile and `mem` is the list that readers get.        *)
(*                                                                         *)
(* A device is abstracted to its ID and its status.  The files survive the *)
(* process; a failure of the machine, which can lose what was not flushed, *)
(* is not modelled.                                                        *)
(***************************************************************************)
EXTENDS Naturals, Sequences

CONSTANTS
  Ids,        \* device IDs
  MaxItems,   \* bound of the model on the length of the list
  None        \* no value

ASSUME StoreAssumption == MaxItems \in Nat /\ None \notin {"online", "offline"}

VARIABLES
  mem,       \* Collection.items
  disk,      \* the file, Missing before the first write
  tmp,       \* the temporary file
  phase,     \* where Mutate is: "idle", "write", "rename", "renamed"; or "down"
  request,   \* the operation that was asked for last
  next,      \* the list its callback returned
  left,      \* what its callback made of the list in memory
  reply      \* what it returned: "none" until it has

storeVars == <<mem, disk, tmp, phase, request, next, left, reply>>

Statuses == {"online", "offline"}
Items == [id : Ids, status : Statuses]

\* A file: it holds a list, does not exist, or was left unfinished by a write.
Whole(list) == [state |-> "whole", list |-> list]
Missing == [state |-> "missing", list |-> <<>>]
Torn == [state |-> "torn", list |-> <<>>]

\* The files start absent: the server's first start.
Init ==
  /\ mem = <<>>
  /\ disk = Missing
  /\ tmp = Missing
  /\ phase = "idle"
  /\ request = [kind |-> "none"]
  /\ next = <<>>
  /\ left = <<>>
  /\ reply = "none"

----------------------------------------------------------------------------
(* Callbacks                                                               *)

\* The positions of device i in a list, and the first of them.
Places(list, i) == {k \in DOMAIN list : list[k].id = i}
FirstPlace(list, i) ==
  CHOOSE k \in Places(list, i) : \A j \in Places(list, i) : k <= j

\* The scan of Get: the status it finds.
Find(list, i) ==
  IF Places(list, i) = {} THEN None ELSE list[FirstPlace(list, i)].status

\* Save: the first entry of the device is overwritten, in place.
Overwritten(list, i, s) == [list EXCEPT ![FirstPlace(list, i)].status = s]

\* Delete: the entries that stay are moved to the front of the same array.
Kept(list, i) ==
  LET kept[n \in 0 .. Len(list)] ==
        IF n = 0 THEN <<>>
        ELSE IF list[n].id = i THEN kept[n - 1] ELSE Append(kept[n - 1], list[n])
  IN kept[Len(list)]
Compacted(list, i) ==
  [k \in DOMAIN list |->
     IF k <= Len(Kept(list, i)) THEN Kept(list, i)[k] ELSE list[k]]

\* Fault: a status that is neither of the two.
ExpiredToUnknown(list, S) ==
  [k \in DOMAIN list |->
     IF k \in S THEN [list[k] EXCEPT !.status = "unknown"] ELSE list[k]]

\* MarkStaleOffline: of the entries that say "online", those at the positions
\* in S have not been heard of for too long.
Expired(list, S) ==
  [k \in DOMAIN list |->
     IF k \in S THEN [list[k] EXCEPT !.status = "offline"] ELSE list[k]]

----------------------------------------------------------------------------
(* Mutate: the lock is taken and the callback runs                         *)

Mutate(r, result, inPlace) ==
  /\ phase = "idle"
  /\ phase' = "write"
  /\ request' = r
  /\ next' = result
  /\ left' = inPlace
  /\ reply' = "none"
  /\ UNCHANGED <<mem, disk, tmp>>

Save(i, s) ==
  LET r == [kind |-> "save", id |-> i, status |-> s] IN
  \/ /\ Places(mem, i) # {}
     /\ Mutate(r, Overwritten(mem, i, s), Overwritten(mem, i, s))
  \/ /\ Places(mem, i) = {}
     /\ Len(mem) < MaxItems
     /\ Mutate(r, Append(mem, [id |-> i, status |-> s]), mem)

Delete(i) ==
  Mutate([kind |-> "delete", id |-> i], Kept(mem, i), Compacted(mem, i))

MarkStaleOffline(S) ==
  /\ \A k \in S : mem[k].status = "online"
  /\ Mutate([kind |-> "expire"], Expired(mem, S), Expired(mem, S))

----------------------------------------------------------------------------
(* persist, and what Mutate makes of its result                            *)

\* os.WriteFile(tmp)
WriteTmp ==
  /\ phase = "write"
  /\ tmp' = Whole(next)
  /\ phase' = "rename"
  /\ UNCHANGED <<mem, disk, request, next, left, reply>>

\* persist returned an error: Mutate returns it and does not assign c.items.
Fail ==
  /\ mem' = left
  /\ phase' = "idle"
  /\ reply' = "error"
  /\ UNCHANGED <<disk, request, next, left>>

\* Fault: the error of the write is not looked at.
WriteFailIgnored ==
  /\ phase = "write"
  /\ tmp' = Torn
  /\ phase' = "rename"
  /\ UNCHANGED <<mem, disk, request, next, left, reply>>

\* The write fails before or after the file was truncated.
WriteFail ==
  /\ phase = "write"
  /\ tmp' \in {tmp, Torn}
  /\ Fail

\* os.Rename(tmp, path)
Rename ==
  /\ phase = "rename"
  /\ disk' = tmp
  /\ tmp' = Missing
  /\ phase' = "renamed"
  /\ UNCHANGED <<mem, request, next, left, reply>>

\* Fault: the error of the rename is not looked at.
RenameFailIgnored ==
  /\ phase = "rename"
  /\ phase' = "renamed"
  /\ UNCHANGED <<mem, disk, tmp, request, next, left, reply>>

RenameFail ==
  /\ phase = "rename"
  /\ Fail
  /\ UNCHANGED tmp

\* Fault: memory keeps the list that the callback worked in.
CommitKeepsArray ==
  /\ phase = "renamed"
  /\ mem' = left
  /\ phase' = "idle"
  /\ reply' = "ok"
  /\ UNCHANGED <<disk, tmp, request, next, left>>

\* c.items = next
Commit ==
  /\ phase = "renamed"
  /\ mem' = next
  /\ phase' = "idle"
  /\ reply' = "ok"
  /\ UNCHANGED <<disk, tmp, request, next, left>>

----------------------------------------------------------------------------
(* The process                                                             *)

\* It dies at any point; in the middle of a write the temporary file is torn.
Crash ==
  /\ phase # "down"
  /\ phase' = "down"
  /\ mem' = <<>>
  /\ next' = <<>>
  /\ left' = <<>>
  /\ request' = [kind |-> "none"]
  /\ reply' = "none"
  /\ tmp' \in IF phase = "write" THEN {tmp, Torn} ELSE {tmp}
  /\ UNCHANGED disk

\* NewCollection.  A file that does not exist is an empty collection; one that
\* cannot be parsed keeps the server from starting.
Restart ==
  /\ phase = "down"
  /\ disk # Torn
  /\ phase' = "idle"
  /\ mem' = disk.list
  /\ UNCHANGED <<disk, tmp, request, next, left, reply>>

----------------------------------------------------------------------------

Next ==
  \/ \E i \in Ids : Delete(i) \/ \E s \in Statuses : Save(i, s)
  \/ \E S \in SUBSET DOMAIN mem : MarkStaleOffline(S)
  \/ WriteTmp \/ WriteFail \/ Rename \/ RenameFail \/ Commit
  \/ Crash \/ Restart

Spec == Init /\ [][Next]_storeVars

----------------------------------------------------------------------------
(* Properties                                                              *)

Lists == Seq(Items)
Files == [state : {"whole", "missing", "torn"}, list : Lists]

StoreTypeOK ==
  /\ mem \in Lists
  /\ Len(mem) <= MaxItems
  /\ {disk, tmp} \subseteq Files
  /\ phase \in {"idle", "write", "rename", "renamed", "down"}
  /\ next \in Lists
  /\ left \in Lists
  /\ reply \in {"none", "ok", "error"}

\* "secara atomik" (store.go:57): whatever fails and wherever the process dies,
\* the file is one whole list, so the server can start again.
FileIsWhole == disk # Torn

\* An operation that returned nil is in the file, together with whatever earlier
\* operations that returned an error had left in memory.
AckedIsInFile ==
  phase = "idle" /\ reply = "ok" => disk = Whole(mem)

\* Through Get, the list and its two files are the write-through map that
\* DeviceMap describes, also when failed deletes have left an entry twice.
AsMap(list) == [i \in Ids |-> Find(list, i)]

Shown ==
  CASE phase = "renamed" -> next
    [] phase = "down" -> disk.list
    [] OTHER -> mem

Map == INSTANCE DeviceMap WITH
  visible <- AsMap(Shown),
  durable <- AsMap(disk.list),
  reply <- IF phase = "renamed" THEN "ok" ELSE reply

ImplementsDeviceMap == Map!Spec

\* "Save menyimpan device (upsert berdasarkan ID)" (devices.go:52): no device is
\* in the collection twice.
OneEntryPerID ==
  \A j, k \in DOMAIN mem : mem[j].id = mem[k].id => j = k
============================================================================
