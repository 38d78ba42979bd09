---------------------------- MODULE StoreProofs ----------------------------
(***************************************************************************)
(* Proofs about DeviceStore, for any devices and any length of the list:   *)
(* the file is whole, what was acknowledged is in it, and Collection is    *)
(* the map of DeviceMap.                                                   *)
(*                                                                         *)
(* The first two rest on the order of the steps of persist alone (StoreInv *)
(* leaves the callbacks unexpanded); the refinement rests on what each of  *)
(* the callbacks computes, also in the middle of its loop.                 *)
(***************************************************************************)
EXTENDS DeviceStore, WellFoundedInduction, TLAPS

\* What persist has written so far, at each of its steps: the file is renamed
\* over the old one only when all of it was written, and memory takes over the
\* new list only when that is the file's.  A process that is down has no caller
\* to have told anything.
Persisted ==
  /\ phase = "rename" => tmp = Whole(next)
  /\ phase = "renamed" => disk = Whole(next)
  /\ phase = "down" => reply = "none"

StoreInv == Persisted /\ FileIsWhole /\ AckedIsInFile

----------------------------------------------------------------------------

\* A file that was written is not one that was left unfinished.
LEMMA WholeIsNotTorn == \A list : Whole(list) # Torn
  BY DEF Whole, Torn

\* The collection starts without a file.
LEMMA InitStoreInv == Init => StoreInv
  BY DEF Init, StoreInv, Persisted, FileIsWhole, AckedIsInFile, Missing, Torn

\* Every step of Mutate, of the file system and of the process keeps it.
LEMMA NextStoreInv == StoreInv /\ [Next]_storeVars => StoreInv'
<1> SUFFICES ASSUME StoreInv, [Next]_storeVars PROVE StoreInv'
  OBVIOUS
<1> USE DEF StoreInv, Persisted, FileIsWhole, AckedIsInFile
<1>1. ASSUME NEW r, NEW result, NEW inPlace, Mutate(r, result, inPlace)
      PROVE  StoreInv'
  BY <1>1 DEF Mutate
<1>2. CASE WriteTmp
  BY <1>2 DEF WriteTmp
<1>3. CASE WriteFail \/ RenameFail
  BY <1>3 DEF WriteFail, RenameFail, Fail
<1>4. CASE Rename
  BY <1>4, WholeIsNotTorn DEF Rename
<1>5. CASE Commit
  BY <1>5 DEF Commit
<1>6. CASE Crash \/ Restart
  BY <1>6 DEF Crash, Restart
<1>7. CASE UNCHANGED storeVars
  BY <1>7 DEF storeVars
<1>8. \A i \in Ids : Delete(i) => StoreInv'
  BY <1>1 DEF Delete
<1>9. \A i \in Ids, s \in Statuses : Save(i, s) => StoreInv'
  BY <1>1 DEF Save
<1>10. \A S \in SUBSET DOMAIN mem : MarkStaleOffline(S) => StoreInv'
  BY <1>1 DEF MarkStaleOffline
<1> QED
  BY <1>2, <1>3, <1>4, <1>5, <1>6, <1>7, <1>8, <1>9, <1>10 DEF Next

----------------------------------------------------------------------------

\* The invariant holds in every state of every execution.
THEOREM StoreInvariant == Spec => []StoreInv
  BY InitStoreInv, NextStoreInv, PTL DEF Spec

\* Whatever fails and wherever the process dies, the file holds one whole list
\* (persist).
THEOREM StoreFileIsWhole == Spec => []FileIsWhole
<1>1. StoreInv => FileIsWhole
  BY DEF StoreInv
<1> QED
  BY <1>1, StoreInvariant, PTL

\* An operation is acknowledged only when the file holds what memory shows
\* (Mutate).
THEOREM StoreAckedIsInFile == Spec => []AckedIsInFile
<1>1. StoreInv => AckedIsInFile
  BY DEF StoreInv
<1> QED
  BY <1>1, StoreInvariant, PTL

----------------------------------------------------------------------------
(* Induction, for sets instead of predicates.                              *)

LEMMA LeastElement ==
  ASSUME NEW S \in SUBSET Nat, S # {}
  PROVE  \E n \in S : \A m \in S : n <= m
<1> DEFINE Less == {ss \in Nat \X Nat : ss[1] < ss[2]}
<1>1. IsWellFoundedOn(Less, Nat)
  BY NatLessThanWellFounded, Zenon DEF OpToRel
<1>2. PICK n \in S : \A m \in S : ~(<<m, n>> \in Less)
  <2> HIDE DEF Less
  <2> QED
    BY <1>1, WFMin, Zenon
<1>3. ASSUME NEW m \in S PROVE n <= m
  <2>1. <<m, n>> \in Nat \X Nat /\ <<m, n>>[1] = m /\ <<m, n>>[2] = n
    OBVIOUS
  <2>2. ~(m < n)
    BY <1>2, <2>1, Zenon
  <2> QED
    BY <2>2
<1> QED
  BY <1>3

LEMMA SetInduction ==
  ASSUME NEW S, 0 \in S, \A n \in Nat : n \in S => n + 1 \in S
  PROVE  Nat \subseteq S
<1> SUFFICES ASSUME Nat \ S # {} PROVE FALSE
  OBVIOUS
<1>1. PICK n \in Nat \ S : \A m \in Nat \ S : n <= m
  BY LeastElement
<1>2. n - 1 \in Nat /\ n - 1 \notin Nat \ S
  BY <1>1
<1> QED
  BY <1>1, <1>2

----------------------------------------------------------------------------
(* What Get finds in a list.                                               *)

LEMMA FirstPlaceIs ==
  ASSUME NEW list \in Lists, NEW i, Places(list, i) # {}
  PROVE  /\ FirstPlace(list, i) \in Places(list, i)
         /\ \A j \in Places(list, i) : FirstPlace(list, i) <= j
<1>1. Places(list, i) \in SUBSET Nat
  BY DEF Places, Lists
<1>2. \E k \in Places(list, i) : \A j \in Places(list, i) : k <= j
  BY <1>1, LeastElement
<1> QED
  BY <1>2 DEF FirstPlace

\* The first entry of a device is what is found.
LEMMA FindFirst ==
  ASSUME NEW list \in Lists, NEW i, NEW k \in Places(list, i), \A j \in Places(list, i) : k <= j
  PROVE  Find(list, i) = list[k].status
<1>1. FirstPlace(list, i) = k
  <2>1. Places(list, i) \subseteq Nat
    BY DEF Places, Lists
  <2>2. FirstPlace(list, i) \in Places(list, i) /\ FirstPlace(list, i) <= k
    BY FirstPlaceIs
  <2> QED
    BY <2>1, <2>2
<1> QED
  BY <1>1 DEF Find

LEMMA FindType ==
  ASSUME NEW list \in Lists, NEW i
  PROVE  /\ Find(list, i) \in Statuses \cup {None}
         /\ Find(list, i) = None <=> Places(list, i) = {}
<1>1. CASE Places(list, i) = {}
  BY <1>1 DEF Find
<1>2. CASE Places(list, i) # {}
  <2>1. FirstPlace(list, i) \in DOMAIN list
    BY <1>2, FirstPlaceIs DEF Places
  <2>2. list[FirstPlace(list, i)] \in Items
    BY <2>1 DEF Lists
  <2>3. list[FirstPlace(list, i)].status \in Statuses
    BY <2>2 DEF Items
  <2>4. None \notin Statuses
    BY StoreAssumption DEF Statuses
  <2> QED
    BY <1>2, <2>3, <2>4 DEF Find
<1> QED
  BY <1>1, <1>2

\* An entry at the end is found when there is none before it.
LEMMA FindAppend ==
  ASSUME NEW list \in Lists, NEW item \in Items, NEW i
  PROVE  Find(Append(list, item), i) =
           IF Find(list, i) # None THEN Find(list, i)
           ELSE IF item.id = i THEN item.status ELSE None
<1> DEFINE longer == Append(list, item)
           n == Len(list)
<1>1. /\ longer \in Lists /\ n \in Nat /\ DOMAIN list = 1 .. n /\ DOMAIN longer = 1 .. n + 1
      /\ \A k \in 1 .. n : longer[k] = list[k]
      /\ longer[n + 1] = item
  BY DEF Lists
<1> HIDE DEF longer, n
<1>2. Places(longer, i) = Places(list, i) \cup (IF item.id = i THEN {n + 1} ELSE {})
  BY <1>1 DEF Places
<1>3. CASE Places(list, i) # {}
  <2>1. /\ FirstPlace(list, i) \in Places(list, i)
        /\ \A j \in Places(list, i) : FirstPlace(list, i) <= j
    BY <1>3, FirstPlaceIs
  <2>2. FirstPlace(list, i) \in 1 .. n
    BY <1>1, <2>1 DEF Places
  <2>3. /\ FirstPlace(list, i) \in Places(longer, i)
        /\ \A j \in Places(longer, i) : FirstPlace(list, i) <= j
    BY <1>1, <1>2, <2>1, <2>2
  <2>4. Find(longer, i) = longer[FirstPlace(list, i)].status
    BY <1>1, <2>3, FindFirst
  <2>5. Find(list, i) = list[FirstPlace(list, i)].status
    BY <1>3 DEF Find
  <2>6. Find(list, i) # None
    BY <1>3, FindType
  <2> QED
    BY <1>1, <2>2, <2>4, <2>5, <2>6 DEF longer
<1>4. CASE Places(list, i) = {} /\ item.id = i
  <2>1. Places(longer, i) = {n + 1}
    BY <1>2, <1>4
  <2>2. Find(longer, i) = longer[n + 1].status
    BY <1>1, <2>1, FindFirst
  <2> QED
    BY <1>1, <1>4, <2>2, FindType DEF longer
<1>5. CASE Places(list, i) = {} /\ item.id # i
  <2>1. Places(longer, i) = {}
    BY <1>2, <1>5
  <2> QED
    BY <1>1, <1>5, <2>1, FindType DEF longer
<1> QED
  BY <1>3, <1>4, <1>5

\* Two lists with the same devices at the same places, of which the first of device i
\* has the same status.
LEMMA FindSame ==
  ASSUME NEW list \in Lists, NEW other \in Lists, NEW i, Places(list, i) = Places(other, i),
         \A k \in Places(list, i) : other[k].status = list[k].status
  PROVE  Find(other, i) = Find(list, i)
<1>1. CASE Places(list, i) = {}
  BY <1>1 DEF Find
<1>2. CASE Places(list, i) # {}
  BY <1>2, FirstPlaceIs, FindFirst DEF Find
<1> QED
  BY <1>1, <1>2

----------------------------------------------------------------------------
(* What the callbacks make of a list.                                      *)

\* Save of a device that is there.
LEMMA OverwrittenIs ==
  ASSUME NEW list \in Lists, NEW i \in Ids, NEW s \in Statuses, Places(list, i) # {}
  PROVE  /\ Overwritten(list, i, s) \in Lists
         /\ Len(Overwritten(list, i, s)) = Len(list)
         /\ AsMap(Overwritten(list, i, s)) = [AsMap(list) EXCEPT ![i] = s]
<1> DEFINE p == FirstPlace(list, i)
           new == Overwritten(list, i, s)
<1>1. p \in Places(list, i) /\ \A j \in Places(list, i) : p <= j
  BY FirstPlaceIs
<1>2. p \in DOMAIN list /\ list[p] \in Items /\ list[p].id = i
  BY <1>1 DEF Places, Lists
<1>3. new = [list EXCEPT ![p] = [list[p] EXCEPT !.status = s]]
  BY DEF Overwritten
<1>4. [list[p] EXCEPT !.status = s] \in Items
  BY <1>2 DEF Items
<1>5. new \in Lists /\ Len(new) = Len(list) /\ DOMAIN new = DOMAIN list
  BY <1>2, <1>3, <1>4 DEF Lists
<1>6. \A k \in DOMAIN list : new[k].id = list[k].id /\ (k # p => new[k] = list[k])
  BY <1>2, <1>3 DEF Lists, Items
<1>7. new[p].status = s
  BY <1>2, <1>3 DEF Lists, Items
<1> HIDE DEF p, new
<1>8. \A j : Places(new, j) = Places(list, j)
  BY <1>5, <1>6 DEF Places
<1>9. Find(new, i) = s
  BY <1>1, <1>5, <1>7, <1>8, FindFirst
<1>10. ASSUME NEW j \in Ids \ {i} PROVE Find(new, j) = Find(list, j)
  <2>1. p \notin Places(list, j)
    BY <1>2 DEF Places
  <2>2. \A k \in Places(list, j) : new[k].status = list[k].status
    BY <1>6, <2>1 DEF Places
  <2> QED
    BY <1>5, <1>8, <2>2, FindSame
<1> QED
  BY <1>5, <1>9, <1>10 DEF AsMap, new

\* Save of a device that is not.
LEMMA AppendIs ==
  ASSUME NEW list \in Lists, NEW i \in Ids, NEW s \in Statuses, Places(list, i) = {}
  PROVE  AsMap(Append(list, [id |-> i, status |-> s])) = [AsMap(list) EXCEPT ![i] = s]
<1> DEFINE item == [id |-> i, status |-> s]
<1>1. item \in Items
  BY DEF Items
<1>2. \A j \in Ids : Find(Append(list, item), j) =
        IF Find(list, j) # None THEN Find(list, j) ELSE IF i = j THEN s ELSE None
  BY <1>1, FindAppend
<1>3. Find(list, i) = None
  BY FindType
<1> QED
  BY <1>2, <1>3 DEF AsMap

\* MarkStaleOffline.
LEMMA ExpiredIs ==
  ASSUME NEW list \in Lists, NEW S \in SUBSET DOMAIN list,
         \A k \in S : list[k].status = "online"
  PROVE  /\ Expired(list, S) \in Lists
         /\ Len(Expired(list, S)) = Len(list)
         /\ \E gone \in SUBSET {i \in Ids : Find(list, i) = "online"} :
              AsMap(Expired(list, S)) = [i \in Ids |-> IF i \in gone THEN "offline"
                                                       ELSE Find(list, i)]
<1> DEFINE new == Expired(list, S)
<1>1. ASSUME NEW k \in DOMAIN list PROVE new[k] \in Items
  <2>1. list[k] \in Items
    BY DEF Lists
  <2>2. [list[k] EXCEPT !.status = "offline"] \in Items
    BY <2>1 DEF Items, Statuses
  <2> QED
    BY <2>1, <2>2 DEF Expired
<1>2. new \in Lists /\ Len(new) = Len(list) /\ DOMAIN new = DOMAIN list
  BY <1>1 DEF Expired, Lists
<1>3. \A k \in DOMAIN list : /\ new[k].id = list[k].id
                             /\ new[k].status = IF k \in S THEN "offline" ELSE list[k].status
  BY DEF Expired, Lists, Items
<1> HIDE DEF new
<1>4. \A i : Places(new, i) = Places(list, i)
  BY <1>2, <1>3 DEF Places
<1> DEFINE gone == {i \in Ids : Places(list, i) # {} /\ FirstPlace(list, i) \in S}
<1>5. \A i \in gone : Find(list, i) = "online"
  BY DEF Find
<1>6. ASSUME NEW i \in Ids
      PROVE  Find(new, i) = IF i \in gone THEN "offline" ELSE Find(list, i)
  <2>1. CASE Places(list, i) = {}
    BY <1>4, <2>1 DEF Find
  <2>2. CASE Places(list, i) # {}
    <3>1. /\ FirstPlace(list, i) \in Places(list, i)
          /\ \A j \in Places(list, i) : FirstPlace(list, i) <= j
      BY <2>2, FirstPlaceIs
    <3>2. Find(new, i) = new[FirstPlace(list, i)].status
      BY <1>2, <1>4, <3>1, FindFirst
    <3>3. FirstPlace(list, i) \in DOMAIN list
      BY <3>1 DEF Places
    <3> QED
      BY <1>3, <2>2, <3>2, <3>3 DEF Find
  <2> QED
    BY <2>1, <2>2
<1> QED
  BY <1>2, <1>5, <1>6 DEF AsMap, new

\* The loop of Delete: what it keeps of a list is, for all devices but i, found as in
\* the list.
LEMMA KeptIs ==
  ASSUME NEW list \in Lists, NEW i \in Ids
  PROVE  /\ Kept(list, i) \in Lists
         /\ Len(Kept(list, i)) <= Len(list)
         /\ Places(Kept(list, i), i) = {}
         /\ \A j \in Ids \ {i} : Find(Kept(list, i), j) = Find(list, j)
<1> DEFINE N == Len(list)
           Step(f, n) == IF n = 0 THEN <<>>
                         ELSE IF list[n].id = i THEN f[n - 1] ELSE Append(f[n - 1], list[n])
           Keeps(f, n) == \A k \in 0 .. n : f[k] = Step(f, k)
           Q == {n \in Nat : n <= N => \E f \in [0 .. n -> Lists] : Keeps(f, n)}
           kept == CHOOSE f : f = [n \in 0 .. N |-> Step(f, n)]
<1>1. 0 \in Q
  <2> DEFINE f == [k \in 0 .. 0 |-> <<>>]
  <2>1. f \in [0 .. 0 -> Lists] /\ Keeps(f, 0)
    BY DEF Lists
  <2> QED
    BY <2>1
<1>2. ASSUME NEW n \in Nat, n \in Q PROVE n + 1 \in Q
  <2>1. SUFFICES ASSUME n + 1 <= N
               PROVE  \E f \in [0 .. n + 1 -> Lists] : Keeps(f, n + 1)
    OBVIOUS
  <2>2. PICK f \in [0 .. n -> Lists] : Keeps(f, n)
    <3> HIDE DEF Keeps
    <3> QED
      BY <1>2, <2>1 DEF Lists
  <2>3. list[n + 1] \in Items
    BY <2>1 DEF Lists
  <2> DEFINE g == [k \in 0 .. n + 1 |-> IF k <= n THEN f[k] ELSE Step(f, n + 1)]
  <2>4. g \in [0 .. n + 1 -> Lists]
    BY <2>3 DEF Lists
  <2>5. ASSUME NEW k \in 0 .. n PROVE g[k] = Step(g, k)
    <3>1. g[k] = f[k] /\ (k # 0 => g[k - 1] = f[k - 1])
      OBVIOUS
    <3> QED
      BY <2>2, <3>1
  <2>6. g[n + 1] = Step(g, n + 1)
    OBVIOUS
  <2>7. Keeps(g, n + 1)
    <3> HIDE DEF Step, g
    <3> QED
      BY <2>5, <2>6
  <2> QED
    BY <2>4, <2>7
<1>3. N \in Nat
  BY DEF Lists
<1>4. N \in Q
  <2> HIDE DEF Q
  <2> QED
    BY <1>1, <1>2, <1>3, SetInduction
<1>5. PICK f \in [0 .. N -> Lists] : Keeps(f, N)
  BY <1>4
<1>6. f = [n \in 0 .. N |-> Step(f, n)]
  <2> HIDE DEF Step
  <2> QED
    BY <1>5
<1>7. kept = [n \in 0 .. N |-> Step(kept, n)]
  <2> HIDE DEF Step
  <2> QED
    BY <1>6, Zenon
<1> HIDE DEF kept
<1>8. Keeps(kept, N)
  <2> HIDE DEF Step
  <2> QED
    BY <1>7
<1>9. Kept(list, i) = kept[N]
  BY Zenon DEF Kept, kept
<1> DEFINE Front(n) == [k \in 1 .. n |-> list[k]]
           Good(n) == /\ kept[n] \in Lists
                      /\ Len(kept[n]) <= n
                      /\ Find(kept[n], i) = None
                      /\ \A j \in Ids \ {i} : Find(kept[n], j) = Find(Front(n), j)
           G == {n \in Nat : n <= N => Good(n)}
<1>10. 0 \in G
  <2>1. kept[0] = <<>>
    BY <1>8
  <2>2. Front(0) = <<>>
    OBVIOUS
  <2>3. <<>> \in Lists /\ Len(<<>>) = 0 /\ \A j : Find(<<>>, j) = None
    BY DEF Lists, Find, Places
  <2> HIDE DEF Front, Step
  <2> QED
    BY <2>1, <2>2, <2>3
<1>11. ASSUME NEW n \in Nat, n \in G PROVE n + 1 \in G
  <2>1. SUFFICES ASSUME n + 1 <= N PROVE Good(n + 1)
    OBVIOUS
  <2>2. kept[n + 1] = IF list[n + 1].id = i THEN kept[n] ELSE Append(kept[n], list[n + 1])
    BY <1>3, <1>8, <2>1
  <2>3. Good(n)
    BY <1>3, <1>11, <2>1
  <2> DEFINE item == list[n + 1]
  <2>4. item \in Items /\ Front(n) \in Lists /\ Front(n + 1) = Append(Front(n), item)
    BY <1>3, <2>1 DEF Lists
  <2> HIDE DEF Front, Step, item
  <2>5. \A j \in Ids : Find(Front(n + 1), j) =
           IF Find(Front(n), j) # None THEN Find(Front(n), j)
           ELSE IF item.id = j THEN item.status ELSE None
    <3>1. \A j : Find(Append(Front(n), item), j) =
             IF Find(Front(n), j) # None THEN Find(Front(n), j)
             ELSE IF item.id = j THEN item.status ELSE None
      <4>1. Front(n) \in Lists /\ item \in Items
        BY <2>4
      <4> QED
        BY <4>1, FindAppend
    <3> QED
      BY <2>4, <3>1
  <2>6. CASE item.id = i
    <3>1. kept[n + 1] = kept[n]
      BY <2>2, <2>6 DEF item
    <3>2. \A j \in Ids \ {i} : Find(Front(n + 1), j) = Find(Front(n), j)
      BY <2>5, <2>6
    <3> QED
      BY <2>3, <3>1, <3>2 DEF Lists
  <2>7. CASE item.id # i
    <3>1. kept[n + 1] = Append(kept[n], item)
      BY <2>2, <2>7 DEF item
    <3>2. \A j \in Ids : Find(kept[n + 1], j) =
            IF Find(kept[n], j) # None THEN Find(kept[n], j)
            ELSE IF item.id = j THEN item.status ELSE None
      <4>1. kept[n] \in Lists /\ item \in Items
        BY <2>3, <2>4
      <4>2. \A j : Find(Append(kept[n], item), j) =
              IF Find(kept[n], j) # None THEN Find(kept[n], j)
              ELSE IF item.id = j THEN item.status ELSE None
        BY <4>1, FindAppend
      <4> QED
        BY <3>1, <4>2
    <3>3. kept[n + 1] \in Lists /\ Len(kept[n + 1]) = Len(kept[n]) + 1
      BY <2>3, <2>4, <3>1 DEF Lists
    <3>4. Find(kept[n + 1], i) = None
      BY <2>3, <2>7, <3>2
    <3>5. \A j \in Ids \ {i} : Find(kept[n + 1], j) = Find(Front(n + 1), j)
      BY <2>3, <2>5, <3>2
    <3>6. Len(kept[n + 1]) <= n + 1
      BY <2>3, <3>3 DEF Lists
    <3> QED
      BY <3>3, <3>4, <3>5, <3>6
  <2> QED
    BY <2>6, <2>7
<1>12. Good(N)
  <2> HIDE DEF Good
  <2>1. N \in G
    <3> HIDE DEF G
    <3> QED
      BY <1>3, <1>10, <1>11, SetInduction
  <2> QED
    BY <1>3, <2>1
<1>13. Front(N) = list
  BY DEF Lists
<1> HIDE DEF Front
<1> QED
  BY <1>9, <1>12, <1>13, FindType

\* The array that Delete has worked in: for all devices but i, what is found in it is
\* what was found before.
LEMMA CompactedIs ==
  ASSUME NEW list \in Lists, NEW i \in Ids
  PROVE  /\ Compacted(list, i) \in Lists
         /\ Len(Compacted(list, i)) = Len(list)
         /\ \A j \in Ids \ {i} : Find(Compacted(list, i), j) = Find(list, j)
<1> DEFINE kept == Kept(list, i)
           n == Len(kept)
           new == Compacted(list, i)
<1>1. /\ kept \in Lists /\ n \in Nat /\ n <= Len(list)
      /\ \A j \in Ids \ {i} : Find(kept, j) = Find(list, j)
  BY KeptIs DEF Lists
<1>2. new = [k \in DOMAIN list |-> IF k <= n THEN kept[k] ELSE list[k]]
  BY DEF Compacted
<1> HIDE DEF kept, new
<1>3. new \in Lists /\ DOMAIN new = DOMAIN list /\ Len(new) = Len(list)
  BY <1>1, <1>2 DEF Lists
<1>4. DOMAIN list = 1 .. Len(list) /\ DOMAIN kept = 1 .. n /\ Len(list) \in Nat
  BY <1>1 DEF Lists
<1>5. ASSUME NEW j \in Ids \ {i} PROVE Find(new, j) = Find(list, j)
  <2>1. CASE Places(list, j) = {}
    <3>1. Places(kept, j) = {}
      BY <1>1, <2>1, FindType
    <3>2. Places(new, j) = {}
      BY <1>1, <1>2, <1>3, <1>4, <2>1, <3>1 DEF Places
    <3> QED
      BY <1>3, <2>1, <3>2 DEF Find
  <2>2. CASE Places(list, j) # {}
    <3> DEFINE p == FirstPlace(kept, j)
    <3>1. Places(kept, j) # {}
      BY <1>1, <2>2, FindType
    <3>2. p \in Places(kept, j) /\ \A k \in Places(kept, j) : p <= k
      BY <1>1, <3>1, FirstPlaceIs
    <3>3. p \in 1 .. n /\ new[p] = kept[p] /\ p \in DOMAIN new
      BY <1>1, <1>2, <1>3, <1>4, <3>2 DEF Places
    <3>4. p \in Places(new, j)
      BY <3>2, <3>3 DEF Places
    <3>5. ASSUME NEW k \in Places(new, j) PROVE p <= k
      <4>1. k \in DOMAIN list /\ (k <= n => k \in Places(kept, j))
        BY <1>2, <1>3, <1>4, <3>5 DEF Places
      <4> QED
        BY <1>1, <1>4, <3>2, <3>3, <4>1
    <3>6. Find(new, j) = new[p].status
      BY <1>3, <3>4, <3>5, FindFirst
    <3>7. Find(kept, j) = kept[p].status
      BY <3>1 DEF Find
    <3> QED
      BY <1>1, <3>3, <3>6, <3>7
  <2> QED
    BY <2>1, <2>2
<1> QED
  BY <1>3, <1>5 DEF new

----------------------------------------------------------------------------
(* Types.                                                                  *)

ShortLists == {list \in Lists : Len(list) <= MaxItems}

\* What StoreTypeOK says, and that all lists keep the bound of the model.
TypeInv ==
  /\ StoreTypeOK
  /\ {mem, next, left, disk.list, tmp.list} \subseteq ShortLists

LEMMA FileTypes ==
  /\ \A list \in Lists : Whole(list) \in Files /\ Whole(list).list = list
  /\ Missing \in Files /\ Missing.list = <<>>
  /\ Torn \in Files /\ Torn.list = <<>>
  /\ <<>> \in ShortLists
  BY StoreAssumption DEF Whole, Missing, Torn, Files, Lists, ShortLists

LEMMA InitTypeInv == Init => TypeInv
  BY FileTypes, StoreAssumption DEF Init, TypeInv, StoreTypeOK, ShortLists

LEMMA MutateTypeInv ==
  ASSUME TypeInv, NEW r, NEW result \in ShortLists, NEW inPlace \in ShortLists,
         Mutate(r, result, inPlace)
  PROVE  TypeInv'
  BY DEF TypeInv, StoreTypeOK, ShortLists, Mutate

\* What each operation gives to Mutate.
LEMMA Operations ==
  ASSUME TypeInv,
         \/ \E i \in Ids : Delete(i) \/ \E s \in Statuses : Save(i, s)
         \/ \E S \in SUBSET DOMAIN mem : MarkStaleOffline(S)
  PROVE  phase = "idle" /\ \E r \in Map!Requests : \E result, inPlace \in ShortLists :
           /\ Mutate(r, result, inPlace)
           /\ AsMap(result) \in Map!Effects(r)
           /\ AsMap(inPlace) \in Map!Remains(r)
<1>1. mem \in Lists /\ Len(mem) <= MaxItems /\ Len(mem) \in Nat
  BY DEF TypeInv, StoreTypeOK, Lists
<1>2. \A i \in Ids : Find(mem, i) \in Statuses \cup {None}
  BY <1>1, FindType
<1>3. ASSUME NEW i \in Ids, Delete(i)
      PROVE  phase = "idle" /\ \E r \in Map!Requests : \E result, inPlace \in ShortLists :
               /\ Mutate(r, result, inPlace)
               /\ AsMap(result) \in Map!Effects(r)
               /\ AsMap(inPlace) \in Map!Remains(r)
  <2> DEFINE r == [kind |-> "delete", id |-> i]
  <2>1. Mutate(r, Kept(mem, i), Compacted(mem, i)) /\ phase = "idle"
    BY <1>3 DEF Delete, Mutate
  <2>2. Shown = mem
    BY <2>1 DEF Shown
  <2>3. Kept(mem, i) \in ShortLists
    BY <1>1, StoreAssumption, KeptIs DEF ShortLists, Lists
  <2>4. Compacted(mem, i) \in ShortLists
    BY <1>1, CompactedIs DEF ShortLists
  <2>5. AsMap(Kept(mem, i)) = [AsMap(mem) EXCEPT ![i] = None]
    BY <1>1, KeptIs, FindType DEF AsMap
  <2>6. AsMap(Compacted(mem, i)) = [AsMap(mem) EXCEPT ![i] = Find(Compacted(mem, i), i)]
    BY <1>1, CompactedIs DEF AsMap
  <2>7. Find(Compacted(mem, i), i) \in Statuses \cup {None}
    BY <1>1, CompactedIs, FindType
  <2>8. r \in Map!Requests
    BY DEF Map!Requests
  <2>9. Map!Effects(r) = {[AsMap(mem) EXCEPT ![i] = None]}
    BY <2>2 DEF Map!Effects
  <2>10. [AsMap(mem) EXCEPT ![i] = Find(Compacted(mem, i), i)] \in Map!Remains(r)
    BY <2>2, <2>7 DEF Map!Remains, Map!Statuses, Statuses
  <2> HIDE DEF r
  <2> QED
    BY <2>1, <2>3, <2>4, <2>5, <2>6, <2>8, <2>9, <2>10
<1>4. ASSUME NEW i \in Ids, NEW s \in Statuses, Save(i, s)
      PROVE  phase = "idle" /\ \E r \in Map!Requests : \E result, inPlace \in ShortLists :
               /\ Mutate(r, result, inPlace)
               /\ AsMap(result) \in Map!Effects(r)
               /\ AsMap(inPlace) \in Map!Remains(r)
  <2> DEFINE r == [kind |-> "save", id |-> i, status |-> s]
  <2>1. phase = "idle"
    BY <1>4 DEF Save, Mutate
  <2>2. Shown = mem
    BY <2>1 DEF Shown
  <2>3. r \in Map!Requests
    BY DEF Map!Requests, Map!Statuses, Statuses
  <2>4. Map!Effects(r) = {[AsMap(mem) EXCEPT ![i] = s]}
    BY <2>2 DEF Map!Effects
  <2>5. Map!Remains(r) = {AsMap(mem)} \cup Map!Effects(r)
    BY <2>2 DEF Map!Remains
  <2>6. CASE Places(mem, i) # {}
    <3>1. Mutate(r, Overwritten(mem, i, s), Overwritten(mem, i, s))
      BY <1>4, <2>6 DEF Save
    <3>2. /\ Overwritten(mem, i, s) \in ShortLists
          /\ AsMap(Overwritten(mem, i, s)) = [AsMap(mem) EXCEPT ![i] = s]
      BY <1>1, <2>6, OverwrittenIs DEF ShortLists
    <3> HIDE DEF r
    <3> QED
      BY <2>1, <2>3, <2>4, <2>5, <3>1, <3>2
  <2>7. CASE Places(mem, i) = {}
    <3>1. Mutate(r, Append(mem, [id |-> i, status |-> s]), mem) /\ Len(mem) < MaxItems
      BY <1>4, <2>7 DEF Save
    <3>2. [id |-> i, status |-> s] \in Items
      BY DEF Items
    <3>3. Append(mem, [id |-> i, status |-> s]) \in ShortLists
      BY <1>1, <3>1, <3>2, StoreAssumption DEF ShortLists, Lists
    <3>4. AsMap(Append(mem, [id |-> i, status |-> s])) = [AsMap(mem) EXCEPT ![i] = s]
      BY <1>1, <2>7, AppendIs
    <3>5. mem \in ShortLists
      BY <1>1 DEF ShortLists
    <3> HIDE DEF r
    <3> QED
      BY <2>1, <2>3, <2>4, <2>5, <3>1, <3>3, <3>4, <3>5
  <2> QED
    BY <2>6, <2>7
<1>5. ASSUME NEW S \in SUBSET DOMAIN mem, MarkStaleOffline(S)
      PROVE  phase = "idle" /\ \E r \in Map!Requests : \E result, inPlace \in ShortLists :
               /\ Mutate(r, result, inPlace)
               /\ AsMap(result) \in Map!Effects(r)
               /\ AsMap(inPlace) \in Map!Remains(r)
  <2> DEFINE r == [kind |-> "expire"]
  <2>1. /\ phase = "idle" /\ Mutate(r, Expired(mem, S), Expired(mem, S))
        /\ \A k \in S : mem[k].status = "online"
    BY <1>5 DEF MarkStaleOffline, Mutate
  <2>2. Shown = mem
    BY <2>1 DEF Shown
  <2>3. r \in Map!Requests
    BY DEF Map!Requests
  <2>4. Expired(mem, S) \in ShortLists
    BY <1>1, <2>1, ExpiredIs DEF ShortLists
  <2>5. PICK gone \in SUBSET {i \in Ids : Find(mem, i) = "online"} :
          AsMap(Expired(mem, S)) = [i \in Ids |-> IF i \in gone THEN "offline" ELSE Find(mem, i)]
    BY <1>1, <2>1, ExpiredIs
  <2>6. gone \in SUBSET Map!Expirable
    BY <2>2, <2>5 DEF Map!Expirable, AsMap
  <2>7. AsMap(Expired(mem, S)) =
          [i \in Ids |-> IF i \in gone THEN "offline" ELSE AsMap(Shown)[i]]
    BY <2>2, <2>5 DEF AsMap
  <2>8. AsMap(Expired(mem, S)) \in Map!Effects(r)
    BY <2>6, <2>7 DEF Map!Effects
  <2>9. AsMap(Expired(mem, S)) \in Map!Remains(r)
    BY <2>8 DEF Map!Remains
  <2> HIDE DEF r
  <2> QED
    BY <2>1, <2>3, <2>4, <2>8, <2>9
<1> QED
  BY <1>3, <1>4, <1>5

LEMMA NextTypeInv == TypeInv /\ [Next]_storeVars => TypeInv'
<1> SUFFICES ASSUME TypeInv, [Next]_storeVars PROVE TypeInv'
  OBVIOUS
<1>1. CASE \/ \E i \in Ids : Delete(i) \/ \E s \in Statuses : Save(i, s)
           \/ \E S \in SUBSET DOMAIN mem : MarkStaleOffline(S)
  BY <1>1, Operations, MutateTypeInv
<1> USE DEF TypeInv, StoreTypeOK
<1>2. CASE WriteTmp
  BY <1>2, FileTypes DEF WriteTmp, ShortLists
<1>3. CASE WriteFail \/ RenameFail
  BY <1>3, FileTypes DEF WriteFail, RenameFail, Fail, ShortLists
<1>4. CASE Rename
  BY <1>4, FileTypes DEF Rename
<1>5. CASE Commit
  BY <1>5 DEF Commit, ShortLists
<1>6. CASE Crash
  BY <1>6, FileTypes DEF Crash, ShortLists
<1>7. CASE Restart
  BY <1>7 DEF Restart, ShortLists
<1>8. CASE UNCHANGED storeVars
  BY <1>8 DEF storeVars
<1> QED
  BY <1>1, <1>2, <1>3, <1>4, <1>5, <1>6, <1>7, <1>8 DEF Next

\* Memory, the files and what Mutate is about to write are lists of devices, within
\* the bound (Collection).
THEOREM StoreTypeCorrect == Spec => []StoreTypeOK
<1>1. TypeInv => StoreTypeOK
  BY DEF TypeInv
<1> QED
  BY <1>1, InitTypeInv, NextTypeInv, PTL DEF Spec

----------------------------------------------------------------------------
(* The write-through map.                                                  *)

\* While persist works nobody has been told anything, and the two lists that
\* memory may take next are what the map allows after the request.
Pending ==
  phase \in {"write", "rename"} =>
    /\ reply = "none"
    /\ AsMap(next) \in Map!Effects(request)
    /\ AsMap(left) \in Map!Remains(request)

MapInv == TypeInv /\ StoreInv /\ Pending

LEMMA NextPending == MapInv /\ [Next]_storeVars => Pending'
<1> SUFFICES ASSUME MapInv, [Next]_storeVars PROVE Pending'
  OBVIOUS
<1>1. CASE \/ \E i \in Ids : Delete(i) \/ \E s \in Statuses : Save(i, s)
           \/ \E S \in SUBSET DOMAIN mem : MarkStaleOffline(S)
  <2>1. PICK r \in Map!Requests : phase = "idle" /\ \E result, inPlace \in ShortLists :
               /\ Mutate(r, result, inPlace)
               /\ AsMap(result) \in Map!Effects(r)
               /\ AsMap(inPlace) \in Map!Remains(r)
    BY <1>1, Operations DEF MapInv
  <2>2. PICK result, inPlace \in ShortLists :
               /\ Mutate(r, result, inPlace)
               /\ AsMap(result) \in Map!Effects(r)
               /\ AsMap(inPlace) \in Map!Remains(r)
    BY <2>1
  <2>3. request' = r /\ next' = result /\ left' = inPlace /\ reply' = "none" /\ Shown' = Shown
    BY <2>1, <2>2 DEF Mutate, Shown
  <2>4. AsMap(next)' \in Map!Effects(request)' /\ AsMap(left)' \in Map!Remains(request)'
    BY <2>2, <2>3 DEF Map!Effects, Map!Remains, Map!Expirable, AsMap
  <2> QED
    BY <2>3, <2>4 DEF Pending
<1>2. CASE WriteTmp \/ UNCHANGED storeVars
  <2>1. /\ UNCHANGED <<mem, disk, request, next, left, reply>>
        /\ phase \in {"write", "rename"} \/ phase' = phase
    BY <1>2 DEF WriteTmp, storeVars
  <2>2. phase' \in {"write", "rename"} => phase \in {"write", "rename"} /\ Shown' = Shown
    BY <1>2 DEF WriteTmp, storeVars, Shown
  <2>3. CASE phase' \in {"write", "rename"}
    <3>1. AsMap(Shown)' = AsMap(Shown) /\ AsMap(next)' = AsMap(next) /\ AsMap(left)' = AsMap(left)
      BY <2>1, <2>2, <2>3 DEF AsMap
    <3>2. /\ Map!Effects(request)' = Map!Effects(request)
          /\ Map!Remains(request)' = Map!Remains(request)
      <4>1. Map!Expirable' = Map!Expirable
        BY <3>1 DEF Map!Expirable
      <4> QED
        BY <2>1, <3>1, <4>1 DEF Map!Effects, Map!Remains
    <3> QED
      BY <2>1, <2>2, <2>3, <3>1, <3>2 DEF MapInv, Pending
  <2> QED
    BY <2>3 DEF Pending
<1>3. CASE WriteFail \/ RenameFail \/ Rename \/ Commit \/ Crash \/ Restart
  <2>1. phase' \notin {"write", "rename"}
    BY <1>3 DEF WriteFail, RenameFail, Fail, Rename, Commit, Crash, Restart
  <2> QED
    BY <2>1 DEF Pending
<1> QED
  BY <1>1, <1>2, <1>3 DEF Next

\* Every step is one of the map, or none.
LEMMA StepOfMap == MapInv /\ [Next]_storeVars => [Map!Next]_(Map!mapVars)
<1> SUFFICES ASSUME MapInv, [Next]_storeVars PROVE [Map!Next]_(Map!mapVars)
  OBVIOUS
<1> DEFINE answer == IF phase = "renamed" THEN "ok" ELSE reply
<1> USE DEF MapInv
<1>1. CASE \/ \E i \in Ids : Delete(i) \/ \E s \in Statuses : Save(i, s)
           \/ \E S \in SUBSET DOMAIN mem : MarkStaleOffline(S)
  <2>1. PICK r \in Map!Requests : phase = "idle" /\ \E result, inPlace : Mutate(r, result, inPlace)
    BY <1>1, Operations
  <2>2. /\ request' = r /\ answer' = "none"
        /\ Shown' = Shown /\ disk' = disk
    BY <2>1 DEF Mutate, Shown
  <2>3. AsMap(Shown)' = AsMap(Shown) /\ AsMap(disk.list)' = AsMap(disk.list)
    BY <2>2 DEF AsMap
  <2>4. Map!Ask(r)
    BY <2>2, <2>3 DEF Map!Ask
  <2> QED
    BY <2>1, <2>4 DEF Map!Next
<1>2. CASE Rename
  <2>1. /\ Shown = mem /\ Shown' = next /\ disk'.list = next /\ answer = "none" /\ answer' = "ok"
        /\ request' = request /\ next' = next
    BY <1>2, FileTypes DEF Rename, Shown, StoreInv, Persisted, Pending, TypeInv, StoreTypeOK
  <2>2. AsMap(next) \in Map!Effects(request)
    BY <1>2 DEF Rename, Pending
  <2>3. AsMap(Shown)' = AsMap(next) /\ AsMap(disk.list)' = AsMap(next)
    BY <2>1 DEF AsMap
  <2>4. Map!Done
    BY <2>1, <2>2, <2>3 DEF Map!Done
  <2> QED
    BY <2>4 DEF Map!Next
<1>3. CASE WriteFail \/ RenameFail
  <2>1. /\ Shown = mem /\ Shown' = left /\ disk' = disk /\ answer = "none" /\ answer' = "error"
        /\ request' = request
    BY <1>3 DEF WriteFail, RenameFail, Fail, Shown, Pending
  <2>2. AsMap(left) \in Map!Remains(request)
    BY <1>3 DEF WriteFail, RenameFail, Pending
  <2>3. AsMap(Shown)' = AsMap(left) /\ AsMap(disk.list)' = AsMap(disk.list)
    BY <2>1 DEF AsMap
  <2>4. Map!Failed
    BY <2>1, <2>2, <2>3 DEF Map!Failed
  <2> QED
    BY <2>4 DEF Map!Next
<1>4. CASE Crash
  <2>1. Shown' = disk.list /\ disk' = disk /\ request' = [kind |-> "none"] /\ answer' = "none"
    BY <1>4 DEF Crash, Shown
  <2>2. AsMap(Shown)' = AsMap(disk.list) /\ AsMap(disk.list)' = AsMap(disk.list)
    BY <2>1 DEF AsMap
  <2>3. Map!Crash
    BY <2>1, <2>2 DEF Map!Crash
  <2> QED
    BY <2>3 DEF Map!Next
<1>5. CASE WriteTmp \/ Commit \/ Restart \/ UNCHANGED storeVars
  <2>1. Shown' = Shown /\ disk' = disk /\ request' = request /\ answer' = answer
    BY <1>5 DEF WriteTmp, Commit, Restart, Shown, storeVars
  <2>2. AsMap(Shown)' = AsMap(Shown) /\ AsMap(disk.list)' = AsMap(disk.list)
    BY <2>1 DEF AsMap
  <2> QED
    BY <2>1, <2>2 DEF Map!mapVars
<1> QED
  BY <1>1, <1>2, <1>3, <1>4, <1>5 DEF Next

LEMMA InitOfMap == Init => Map!Init
<1> SUFFICES ASSUME Init PROVE Map!Init
  OBVIOUS
<1>1. Shown = <<>> /\ disk.list = <<>>
  BY FileTypes DEF Init, Shown
<1>2. AsMap(<<>>) = [i \in Ids |-> None]
  BY DEF AsMap, Find, Places
<1> QED
  BY <1>1, <1>2 DEF Init, Map!Init

\* Through Get, Collection is the write-through map of DeviceMap for any devices and
\* any length of the list: also while the callbacks work inside the array that memory
\* shows, when a write or a rename fails, and when the process dies (store.go:56-90,
\* devices.go:29-104).
THEOREM StoreImplementsDeviceMap == Spec => ImplementsDeviceMap
<1>1. Init => Pending
  BY DEF Init, Pending
<1>2. Spec => []MapInv
  BY <1>1, InitTypeInv, NextTypeInv, InitStoreInv, NextStoreInv, NextPending, PTL
  DEF Spec, MapInv
<1> QED
  BY <1>2, InitOfMap, StepOfMap, PTL DEF Spec, ImplementsDeviceMap, Map!Spec
============================================================================
