----------------------------- MODULE HostProofs -----------------------------
(***************************************************************************)
(* Proofs about AgentHost, for any number of processes started by hand and *)
(* of devices: the types, and that every device more than one of a PC has  *)
(* been paid for by one of the mishaps that the model counts.              *)
(***************************************************************************)
EXTENDS AgentHost, FiniteSetTheorems, TLAPS

\* The processes that may come to use an identity, and those that do: they have
\* read the configuration.
Running == {p \in Procs : phase[p] \notin {"off", "failed"}}
Loaded == {p \in Procs : phase[p] \in {"connect", "reply", "save", "saving", "serving"}}

\* The identity of a process: its configuration, or what it has just been given.
Ident(p) == IF phase[p] = "reply" THEN got[p] ELSE mem[p].id

InFile == IF Identified(file) THEN file.id ELSE 0

\* Devices that no process uses, and those of them that the next to read the file
\* will not use either.
Orphans == known \ {Ident(p) : p \in Loaded}
Forgotten == Orphans \ {InFile}

\* While p runs no device is in danger but for a mishap: p is about to save its
\* identity, needs a new one, or has the one in the file.
Settled(p) == Unsaved(p) \/ Ident(p) \notin known \/ Ident(p) = InFile

\* Every process that may register has a device or the right to one, and what is
\* forgotten is paid for.  The first process needs no payment: it takes over what is
\* in the file.  When all that run have lost the file to another one, the device in
\* the file counts like one of theirs.
Accounts ==
  mishaps < MaxDevices =>
    /\ Loaded # {} => Cardinality(Orphans) + Cardinality(Running) <= 1 + mishaps
    /\ Running # {} => Cardinality(Forgotten) + Cardinality(Running) <= 1 + mishaps
    /\ Running = {} \/ (Loaded # {} /\ \A p \in Loaded : ~Settled(p)) =>
         Cardinality(Forgotten) + Cardinality(Running) <= mishaps

\* No id is larger than the last that was created.
IdsIssued ==
  /\ \A p \in Procs : mem[p].id <= issued /\ got[p] <= issued
  /\ file \in Text => file.id <= issued

\* Who was given a new identity had none that the server still knows.
AnswerIsNew ==
  \A p \in Procs : phase[p] = "reply" /\ got[p] # mem[p].id => mem[p].id \notin known

HostInv == HostTypeOK /\ IdsIssued /\ AnswerIsNew /\ IsFiniteSet(Running) /\ Accounts

-----------------------------------------------------------------------------

\* At first nothing runs and the server knows no device.
LEMMA InitHostInv == HostInit => HostInv
<1> SUFFICES ASSUME HostInit PROVE HostInv
  OBVIOUS
<1> USE DevicesAssumption DEF HostInit
<1>1. Blank \in Text /\ Blank.id = 0
  BY DEF Blank, Text
<1>2. 0 \in 0 .. MaxDevices
  OBVIOUS
<1>3. HostTypeOK
  BY <1>1, <1>2 DEF HostTypeOK
<1>4. AnswerIsNew
  BY DEF AnswerIsNew
<1>5. IdsIssued
  BY <1>1, FileAssumption DEF IdsIssued
<1>6. Running = {} /\ Loaded = {} /\ Forgotten = {}
  BY DEF Running, Loaded, Forgotten, Orphans
<1>7. IsFiniteSet(Running) /\ Cardinality(Running) = 0 /\ Cardinality(Forgotten) = 0
  BY <1>6, FS_EmptySet
<1>8. Accounts
  BY <1>6, <1>7 DEF Accounts
<1> QED
  BY <1>3, <1>4, <1>5, <1>7, <1>8 DEF HostInv

-----------------------------------------------------------------------------

\* Texts and what can be left of them.
LEMMA TextsTyped ==
  /\ Blank \in Text /\ Blank.id = 0
  /\ \A t \in Text : Cuts(t) \subseteq Text \cup {Broken}
  /\ \A t \in Text : \A u \in Cuts(t) : u \in Text => u.id \in {0, t.id}
<1>1. Blank \in Text /\ Blank.id = 0
  BY DevicesAssumption DEF Blank, Text
<1>2. ASSUME NEW t \in Text
      PROVE  [t EXCEPT !.whole = FALSE] \in Text /\ [t EXCEPT !.whole = FALSE].id = t.id
  BY DEF Text
<1>3. \A t \in Text : \A u \in Cuts(t) :
        u = Broken \/ u = Blank \/ u = [t EXCEPT !.whole = FALSE]
  BY DEF Cuts
<1> QED
  BY <1>1, <1>2, <1>3, FileAssumption

\* All sets that are counted are finite, and a part of one is no larger.
LEMMA Counted ==
  ASSUME HostTypeOK, IsFiniteSet(Running)
  PROVE  /\ IsFiniteSet(known) /\ IsFiniteSet(Orphans) /\ IsFiniteSet(Forgotten)
         /\ Cardinality(Orphans) \in Nat /\ Cardinality(Forgotten) \in Nat
         /\ Cardinality(Running) \in Nat
         /\ Cardinality(Forgotten) <= Cardinality(Orphans)
         /\ Cardinality(Running) = 0 <=> Running = {}
         /\ Loaded \subseteq Running
<1>1. IsFiniteSet(known)
  <2>1. IsFiniteSet(1 .. issued)
    BY FS_Interval, DevicesAssumption DEF HostTypeOK
  <2> QED
    BY <2>1, FS_Subset DEF HostTypeOK
<1>2. IsFiniteSet(Orphans)
  BY <1>1, FS_Subset DEF Orphans
<1>3. IsFiniteSet(Forgotten) /\ Cardinality(Forgotten) <= Cardinality(Orphans)
  BY <1>2, FS_Subset DEF Forgotten
<1>4. Cardinality(Running) = 0 <=> Running = {}
  BY FS_EmptySet
<1>5. Loaded \subseteq Running
  BY DEF Loaded, Running
<1> QED
  BY <1>1, <1>2, <1>3, <1>4, <1>5, FS_CardinalityType

\* One element more.
LEMMA OneMore ==
  ASSUME NEW S, NEW d, IsFiniteSet(S)
  PROVE  IsFiniteSet(S \cup {d}) /\ Cardinality(S \cup {d}) <= Cardinality(S) + 1
<1>1. Cardinality(S) \in Nat
  BY FS_CardinalityType
<1>2. IsFiniteSet(S \cup {d})
      /\ Cardinality(S \cup {d}) = IF d \in S THEN Cardinality(S) ELSE Cardinality(S) + 1
  BY FS_AddElement
<1> QED
  BY <1>1, <1>2

\* A part of a union.
LEMMA PartOfUnion ==
  ASSUME NEW S, NEW T, NEW U \in SUBSET (S \cup T), IsFiniteSet(S), IsFiniteSet(T)
  PROVE  /\ IsFiniteSet(U) /\ Cardinality(U) \in Nat
         /\ Cardinality(U) <= Cardinality(S) + Cardinality(T)
<1>1. /\ IsFiniteSet(S \cup T)
      /\ Cardinality(S \cup T) = Cardinality(S) + Cardinality(T) - Cardinality(S \cap T)
  BY FS_Union
<1>2. IsFiniteSet(U) /\ Cardinality(U) <= Cardinality(S \cup T)
  BY <1>1, FS_Subset
<1>3. IsFiniteSet(S \cap T)
  BY FS_Intersection
<1>4. /\ Cardinality(S) \in Nat /\ Cardinality(T) \in Nat /\ Cardinality(S \cap T) \in Nat
      /\ Cardinality(S \cup T) \in Nat /\ Cardinality(U) \in Nat
  BY <1>1, <1>2, <1>3, FS_CardinalityType
<1> QED
  BY <1>1, <1>2, <1>4

\* A set has at least as many elements as values under a function.
LEMMA ImageNoLarger ==
  ASSUME NEW S, IsFiniteSet(S), NEW f \in [S -> Nat]
  PROVE  IsFiniteSet({f[x] : x \in S}) /\ Cardinality({f[x] : x \in S}) <= Cardinality(S)
<1>1. f \in Surjection(S, {f[x] : x \in S})
  BY DEF Surjection
<1> QED
  BY <1>1, FS_Surjection

\* Mishaps are counted up to the number of devices.
LEMMA MishapCounts ==
  ASSUME HostTypeOK, NEW c \in BOOLEAN, Mishap(c)
  PROVE  /\ mishaps' \in 0 .. MaxDevices
         /\ mishaps' < MaxDevices =>
              mishaps < MaxDevices /\ mishaps' = IF c THEN mishaps + 1 ELSE mishaps
  BY DevicesAssumption DEF Mishap, HostTypeOK

-----------------------------------------------------------------------------
(* Three ways to keep the accounts while the same processes run.           *)

\* Nothing is forgotten, nobody loses hold of the file.
LEMMA CalmStep ==
  ASSUME HostInv, HostTypeOK', UNCHANGED mishaps, Running' = Running, Loaded' = Loaded,
         Orphans' \subseteq Orphans, InFile' = InFile,
         \A p \in Loaded : Settled(p) => Settled(p)'
  PROVE  Accounts'
<1>1. Forgotten' \subseteq Forgotten
  BY DEF Forgotten
<1>2. /\ IsFiniteSet(Orphans) /\ IsFiniteSet(Forgotten)
      /\ Cardinality(Orphans) \in Nat /\ Cardinality(Forgotten) \in Nat
      /\ Cardinality(Running) \in Nat
  BY Counted DEF HostInv
<1>3. /\ Cardinality(Orphans') <= Cardinality(Orphans) /\ Cardinality(Orphans') \in Nat
      /\ Cardinality(Forgotten') <= Cardinality(Forgotten) /\ Cardinality(Forgotten') \in Nat
  BY <1>1, <1>2, FS_Subset, FS_CardinalityType
<1>4. mishaps \in Nat /\ MaxDevices \in Nat
  BY DevicesAssumption DEF HostInv, HostTypeOK
<1>5. (Loaded' # {} /\ \A p \in Loaded' : ~Settled(p)') =>
        Loaded # {} /\ \A p \in Loaded : ~Settled(p)
  OBVIOUS
<1> QED
  BY <1>2, <1>3, <1>4, <1>5 DEF HostInv, Accounts

\* One who has read the configuration is settled afterwards.
LEMMA SettledStep ==
  ASSUME HostInv, HostTypeOK', UNCHANGED mishaps, Running' = Running, Loaded' = Loaded,
         Orphans' \subseteq Orphans, NEW p \in Loaded, Settled(p)'
  PROVE  Accounts'
<1>1. /\ IsFiniteSet(Orphans) /\ Cardinality(Orphans) \in Nat
      /\ Cardinality(Running) \in Nat /\ Running # {}
  BY Counted DEF HostInv
<1>2. /\ Cardinality(Orphans') <= Cardinality(Orphans) /\ Cardinality(Orphans') \in Nat
      /\ Cardinality(Forgotten') <= Cardinality(Orphans') /\ Cardinality(Forgotten') \in Nat
  <2>1. IsFiniteSet(Orphans') /\ Cardinality(Orphans') <= Cardinality(Orphans)
    BY <1>1, FS_Subset
  <2>2. IsFiniteSet(Forgotten') /\ Cardinality(Forgotten') <= Cardinality(Orphans')
    BY <2>1, FS_Subset DEF Forgotten
  <2> QED
    BY <2>1, <2>2, FS_CardinalityType
<1>3. mishaps \in Nat /\ MaxDevices \in Nat
  BY DevicesAssumption DEF HostInv, HostTypeOK
<1>4. p \in Loaded' /\ Running' # {}
  BY <1>1
<1> QED
  BY <1>1, <1>2, <1>3, <1>4 DEF HostInv, Accounts

\* A mishap pays: for a device that is in no file any more, and, when somebody is
\* settled afterwards, for one that its process has lost.
LEMMA MishapStep ==
  ASSUME HostInv, HostTypeOK', Mishap(TRUE), Running' = Running, Loaded' = Loaded,
         Running # {}, NEW d,
         \/ Orphans' \subseteq Orphans
         \/ Orphans' \subseteq Orphans \cup {d} /\ \E p \in Loaded : Settled(p)'
  PROVE  Accounts'
<1> SUFFICES ASSUME mishaps' < MaxDevices PROVE Accounts'
  BY DEF Accounts
<1>1. mishaps < MaxDevices /\ mishaps' = mishaps + 1 /\ mishaps \in Nat
  BY DevicesAssumption DEF HostInv, HostTypeOK, Mishap
<1>2. /\ IsFiniteSet(Orphans) /\ Cardinality(Orphans) \in Nat
      /\ IsFiniteSet(Forgotten) /\ Cardinality(Forgotten) \in Nat
      /\ Cardinality(Running) \in Nat /\ Cardinality(Running) # 0
  BY Counted DEF HostInv
<1>3. /\ IsFiniteSet(Orphans') /\ Cardinality(Orphans') \in Nat
      /\ IsFiniteSet(Forgotten') /\ Cardinality(Forgotten') \in Nat
      /\ Cardinality(Forgotten') <= Cardinality(Orphans')
  <2>1. IsFiniteSet(Orphans \cup {d})
    BY <1>2, OneMore
  <2>2. IsFiniteSet(Orphans')
    BY <1>2, <2>1, FS_Subset
  <2>3. IsFiniteSet(Forgotten') /\ Cardinality(Forgotten') <= Cardinality(Orphans')
    BY <2>2, FS_Subset DEF Forgotten
  <2> QED
    BY <2>2, <2>3, FS_CardinalityType
<1>4. CASE Orphans' \subseteq Orphans
  <2>1. Cardinality(Orphans') <= Cardinality(Orphans)
    BY <1>2, <1>4, FS_Subset
  <2>2. Cardinality(Forgotten') <= Cardinality(Forgotten) + 1
    <3>1. Forgotten' \subseteq Forgotten \cup {InFile}
      BY <1>4 DEF Forgotten
    <3>2. IsFiniteSet(Forgotten \cup {InFile})
          /\ Cardinality(Forgotten \cup {InFile}) <= Cardinality(Forgotten) + 1
      BY <1>2, OneMore
    <3>3. Cardinality(Forgotten') <= Cardinality(Forgotten \cup {InFile})
          /\ Cardinality(Forgotten \cup {InFile}) \in Nat
      BY <3>1, <3>2, FS_Subset, FS_CardinalityType
    <3> QED
      BY <1>2, <1>3, <3>2, <3>3
  <2> QED
    BY <1>1, <1>2, <1>3, <2>1, <2>2 DEF HostInv, Accounts
<1>5. CASE Orphans' \subseteq Orphans \cup {d} /\ \E p \in Loaded : Settled(p)'
  <2>1. Cardinality(Orphans') <= Cardinality(Orphans) + 1
    <3>1. IsFiniteSet(Orphans \cup {d})
          /\ Cardinality(Orphans \cup {d}) <= Cardinality(Orphans) + 1
      BY <1>2, OneMore
    <3>2. Cardinality(Orphans') <= Cardinality(Orphans \cup {d})
          /\ Cardinality(Orphans \cup {d}) \in Nat
      BY <1>5, <3>1, FS_Subset, FS_CardinalityType
    <3> QED
      BY <1>2, <1>3, <3>1, <3>2
  <2>2. Loaded' # {} /\ ~(\A p \in Loaded' : ~Settled(p)')
    BY <1>5
  <2> QED
    BY <1>1, <1>2, <1>3, <2>1, <2>2 DEF HostInv, Accounts
<1> QED
  BY <1>4, <1>5
-----------------------------------------------------------------------------
(* Processes begin and end.                                                *)

\* A process that begins next to another one pays for its place; one that begins
\* alone needs none but that of the file.
LEMMA BeginKeeps ==
  ASSUME HostInv, NEW p \in Procs, Begin(p)
  PROVE  HostInv'
<1> USE DEF HostInv, Begin, Goto, setup, server
<1>1. /\ phase'[p] \in {"check", "load"} /\ phase[p] = "off"
      /\ \A q \in Procs \ {p} : phase'[q] = phase[q]
      /\ UNCHANGED <<mem, got, file, known, issued>>
  BY DEF HostTypeOK, On
<1>2. HostTypeOK'
  BY MishapCounts, <1>1 DEF HostTypeOK
<1>3. IdsIssued' /\ AnswerIsNew'
  BY <1>1 DEF IdsIssued, AnswerIsNew
<1>4. Running' = Running \cup {p} /\ p \notin Running /\ Loaded' = Loaded
  BY <1>1 DEF Running, Loaded
<1>5. IsFiniteSet(Running') /\ Cardinality(Running') = Cardinality(Running) + 1
  BY <1>4, FS_AddElement
<1>6. Orphans' = Orphans /\ InFile' = InFile /\ Forgotten' = Forgotten
  <2>1. \A q \in Loaded : Ident(q)' = Ident(q)
    BY <1>1 DEF Ident, Loaded
  <2>2. InFile' = InFile
    BY <1>1 DEF InFile, Identified
  <2> QED
    BY <1>1, <1>4, <2>1, <2>2 DEF Orphans, Forgotten
<1>7. \A q \in Loaded : Settled(q) => Settled(q)'
  BY <1>1, <1>6 DEF Settled, Unsaved, Ident, Loaded
<1>8. Accounts'
  <2> SUFFICES ASSUME mishaps' < MaxDevices PROVE Accounts'
    BY DEF Accounts
  <2>1. /\ mishaps < MaxDevices /\ mishaps \in Nat
        /\ (\E q \in Procs : On(q)) => mishaps' = mishaps + 1
        /\ (\A q \in Procs : ~On(q)) => mishaps' = mishaps
    BY DevicesAssumption DEF Mishap, HostTypeOK
  <2>2. /\ Cardinality(Running) \in Nat /\ Cardinality(Orphans) \in Nat
        /\ Cardinality(Forgotten) \in Nat /\ Loaded \subseteq Running
    BY Counted
  <2>3. CASE \E q \in Procs : On(q)
    BY <1>4, <1>5, <1>6, <1>7, <2>1, <2>2, <2>3 DEF Accounts
  <2>4. CASE \A q \in Procs : ~On(q)
    <3>1. Running = {}
      BY <2>4 DEF On, Running
    <3> QED
      BY <1>4, <1>5, <1>6, <2>1, <2>2, <2>4, <3>1 DEF Accounts
  <2> QED
    BY <2>3, <2>4
<1> QED
  BY <1>2, <1>3, <1>5, <1>8

\* The types when processes end, and what becomes of the file.
LEMMA EndTyped ==
  ASSUME HostInv, NEW ps \in SUBSET Procs, End(ps), power' \in {"off", "boot", "user"}
  PROVE  /\ HostTypeOK' /\ IdsIssued' /\ AnswerIsNew'
         /\ \A p \in Procs \ ps :
              phase'[p] = phase[p] /\ mem'[p] = mem[p] /\ got'[p] = got[p]
         /\ \A p \in ps : phase'[p] = "off"
         /\ known' = known
         /\ (\A p \in ps : ~Unsaved(p)) /\ (Identified(file) => file' = file) =>
              InFile' = InFile
<1> USE DEF HostInv, End, server
<1>1. /\ Blank \in Text /\ Blank.id = 0
      /\ \A p \in Procs : Writing(p) => Output(p) \in Text
  BY TextsTyped DEF HostTypeOK, Output
<1>2. /\ file' \in Text \cup {Absent, Broken}
      /\ file' \in Text /\ file' # file =>
           file'.id = 0 \/ \E p \in ps : phase[p] = "saving" /\ file'.id = mem[p].id
  <2>1. CASE UNCHANGED file
    BY <2>1 DEF HostTypeOK
  <2>2. ASSUME NEW p \in ps, Writing(p), file' \in Cuts(Output(p)) \cup {Output(p), file}
        PROVE  /\ file' \in Text \cup {Absent, Broken}
               /\ file' \in Text /\ file' # file =>
                    file'.id = 0 \/ (phase[p] = "saving" /\ file'.id = mem[p].id)
    <3>1. Output(p) \in Text
      BY <1>1, <2>2
    <3>2. file' \in Text /\ file' # file => file'.id \in {0, Output(p).id}
      BY <2>2, <3>1, TextsTyped
    <3>3. file' \in Text \cup {Absent, Broken}
      BY <2>2, <3>1, TextsTyped DEF HostTypeOK
    <3> QED
      BY <1>1, <3>2, <3>3 DEF Output
  <2> QED
    BY <2>1, <2>2
<1>3. /\ \A p \in ps : phase'[p] = "off" /\ mem'[p] = Blank /\ got'[p] = 0
      /\ \A p \in Procs \ ps : phase'[p] = phase[p] /\ mem'[p] = mem[p] /\ got'[p] = got[p]
  OBVIOUS
<1>4. HostTypeOK'
  <2>1. 0 \in 0 .. MaxDevices
    BY DevicesAssumption
  <2>2. mem' \in [Procs -> Text] /\ got' \in [Procs -> 0 .. MaxDevices]
    BY <1>1, <2>1 DEF HostTypeOK
  <2>3. mishaps' \in 0 .. MaxDevices
    BY DevicesAssumption DEF HostTypeOK, Mishap
  <2>4. /\ phase' \in [Procs -> {"off", "check", "template", "load", "failed", "connect",
                                  "reply", "save", "saving", "serving"}]
        /\ service' \in {"none", "present", "deleted"}
        /\ stopping' \in BOOLEAN
    BY DEF HostTypeOK
  <2> QED
    BY <1>2, <2>2, <2>3, <2>4 DEF HostTypeOK
<1>5. IdsIssued'
  BY <1>1, <1>2, <1>3 DEF IdsIssued, HostTypeOK
<1>6. AnswerIsNew'
  BY <1>3 DEF AnswerIsNew
<1>7. (\A p \in ps : ~Unsaved(p)) /\ (Identified(file) => file' = file) => InFile' = InFile
  <2> SUFFICES ASSUME \A p \in ps : ~Unsaved(p), ~Identified(file) PROVE ~Identified(file')
    BY DEF InFile, Identified
  <2>1. \A p \in ps : phase[p] # "saving"
    BY DEF Unsaved
  <2> QED
    BY <1>2, <2>1, FileAssumption DEF Identified, HostTypeOK
<1> QED
  BY <1>3, <1>4, <1>5, <1>6, <1>7

\* What ends leaves at most its own devices behind, and its places free.
LEMMA EndCounts ==
  ASSUME HostInv, NEW ps \in SUBSET Procs, End(ps), power' \in {"off", "boot", "user"},
         NEW sure \in SUBSET (ps \cap Loaded)
  PROVE  LET others == {Ident(p) : p \in (ps \cap Loaded) \ sure}
         IN  /\ Running' = Running \ ps /\ Loaded' = Loaded \ ps
             /\ IsFiniteSet(Running') /\ Cardinality(Running') \in Nat
             /\ IsFiniteSet(others) /\ Cardinality(others) \in Nat
             /\ Cardinality(others) + Cardinality(sure) + Cardinality(Running')
                  <= Cardinality(Running)
             /\ Cardinality(sure) \in Nat
             /\ Orphans' \subseteq Orphans \cup {Ident(p) : p \in ps \cap Loaded}
<1> DEFINE rest == (ps \cap Loaded) \ sure
           others == {Ident(p) : p \in rest}
<1>1. /\ \A p \in Procs \ ps :
           phase'[p] = phase[p] /\ mem'[p] = mem[p] /\ got'[p] = got[p]
      /\ \A p \in ps : phase'[p] = "off"
      /\ known' = known
  BY EndTyped
<1>2. Running' = Running \ ps /\ Loaded' = Loaded \ ps
  BY <1>1 DEF Running, Loaded
<1>3. /\ IsFiniteSet(Running) /\ Cardinality(Running) \in Nat /\ Loaded \subseteq Running
  BY Counted DEF HostInv
<1>4. /\ IsFiniteSet(Running') /\ Cardinality(Running') \in Nat
      /\ Cardinality(Running') = Cardinality(Running) - Cardinality(Running \cap ps)
  BY <1>2, <1>3, FS_Difference, FS_CardinalityType
<1>5. /\ IsFiniteSet(ps \cap Loaded) /\ Cardinality(ps \cap Loaded) <= Cardinality(Running \cap ps)
      /\ Cardinality(ps \cap Loaded) \in Nat /\ Cardinality(Running \cap ps) \in Nat
  <2>1. IsFiniteSet(Running \cap ps)
    BY <1>3, FS_Subset
  <2>2. ps \cap Loaded \subseteq Running \cap ps
    BY <1>3
  <2>3. IsFiniteSet(ps \cap Loaded) /\ Cardinality(ps \cap Loaded) <= Cardinality(Running \cap ps)
    BY <2>1, <2>2, FS_Subset
  <2> QED
    BY <2>1, <2>3, FS_CardinalityType
<1>6. /\ IsFiniteSet(rest) /\ IsFiniteSet(sure)
      /\ Cardinality(rest) \in Nat /\ Cardinality(sure) \in Nat
      /\ Cardinality(rest) = Cardinality(ps \cap Loaded) - Cardinality(sure)
  <2>1. sure = (ps \cap Loaded) \cap sure
    OBVIOUS
  <2>2. IsFiniteSet(rest) /\ IsFiniteSet(sure)
    BY <1>5, FS_Subset
  <2>3. Cardinality(rest) = Cardinality(ps \cap Loaded) - Cardinality((ps \cap Loaded) \cap sure)
    BY <1>5, FS_Difference
  <2> QED
    BY <2>1, <2>2, <2>3, FS_CardinalityType
<1>7. IsFiniteSet(others) /\ Cardinality(others) <= Cardinality(rest) /\ Cardinality(others) \in Nat
  <2> DEFINE id == [p \in rest |-> Ident(p)]
  <2>1. id \in [rest -> Nat]
    BY DevicesAssumption DEF HostInv, HostTypeOK, Ident, Text
  <2>2. others = {id[p] : p \in rest}
    OBVIOUS
  <2> HIDE DEF id, rest
  <2>3. IsFiniteSet(others) /\ Cardinality(others) <= Cardinality(rest)
    BY <1>6, <2>1, <2>2, ImageNoLarger
  <2> QED
    BY <2>3, FS_CardinalityType
<1>8. Orphans' \subseteq Orphans \cup {Ident(p) : p \in ps \cap Loaded}
  <2>1. \A p \in Loaded \ ps : Ident(p)' = Ident(p)
    BY <1>1 DEF Ident, Loaded
  <2> QED
    BY <1>1, <1>2, <2>1 DEF Orphans
<1>9. Cardinality(others) + Cardinality(sure) + Cardinality(Running') <= Cardinality(Running)
  BY <1>3, <1>4, <1>5, <1>6, <1>7
<1> QED
  BY <1>2, <1>4, <1>6, <1>7, <1>8, <1>9

\* What ends was settled, or others are, or it was paid for.
LEMMA EndKeeps ==
  ASSUME HostInv, NEW ps \in SUBSET Procs, End(ps), power' \in {"off", "boot", "user"}
  PROVE  HostInv'
<1> DEFINE gone == ps \cap Loaded
           others == {Ident(p) : p \in gone}
<1>1. /\ HostTypeOK' /\ IdsIssued' /\ AnswerIsNew'
      /\ \A p \in Procs \ ps :
           phase'[p] = phase[p] /\ mem'[p] = mem[p] /\ got'[p] = got[p]
      /\ known' = known
      /\ (\A p \in ps : ~Unsaved(p)) /\ (Identified(file) => file' = file) =>
           InFile' = InFile
  BY EndTyped
<1>2. /\ Running' = Running \ ps /\ Loaded' = Loaded \ ps
      /\ IsFiniteSet(Running') /\ Cardinality(Running') \in Nat
      /\ IsFiniteSet(others) /\ Cardinality(others) \in Nat
      /\ Cardinality(others) + Cardinality(Running') <= Cardinality(Running)
      /\ Orphans' \subseteq Orphans \cup others
  <2>1. {} \in SUBSET gone /\ gone \ {} = gone /\ Cardinality({}) = 0
    BY FS_EmptySet
  <2> HIDE DEF gone
  <2>2. LET rest == {Ident(p) : p \in gone \ {}}
        IN  /\ Running' = Running \ ps /\ Loaded' = Loaded \ ps
            /\ IsFiniteSet(Running') /\ Cardinality(Running') \in Nat
            /\ IsFiniteSet(rest) /\ Cardinality(rest) \in Nat
            /\ Cardinality(rest) + Cardinality({}) + Cardinality(Running')
                 <= Cardinality(Running)
            /\ Orphans' \subseteq Orphans \cup {Ident(p) : p \in gone}
    BY <2>1, EndCounts DEF gone
  <2>3. Cardinality(Running) \in Nat
    BY Counted DEF HostInv
  <2> QED
    BY <2>1, <2>2, <2>3
<1> HIDE DEF others
<1>3. /\ IsFiniteSet(Orphans) /\ Cardinality(Orphans) \in Nat
      /\ IsFiniteSet(Forgotten) /\ Cardinality(Forgotten) \in Nat
      /\ Cardinality(Running) \in Nat
      /\ Cardinality(Running) = 0 <=> Running = {}
      /\ Loaded \subseteq Running
  BY Counted DEF HostInv
<1>4. /\ IsFiniteSet(Orphans') /\ Cardinality(Orphans') \in Nat
      /\ IsFiniteSet(Forgotten') /\ Cardinality(Forgotten') \in Nat
      /\ Cardinality(Forgotten') <= Cardinality(Orphans')
      /\ Cardinality(Running') = 0 <=> Running' = {}
      /\ Loaded' \subseteq Running'
  <2>1. IsFiniteSet(Orphans')
    BY <1>2, <1>3, PartOfUnion
  <2>2. IsFiniteSet(Forgotten') /\ Cardinality(Forgotten') <= Cardinality(Orphans')
    BY <2>1, FS_Subset DEF Forgotten
  <2>3. Cardinality(Running') = 0 <=> Running' = {}
    BY <1>2, FS_EmptySet
  <2>4. Loaded' \subseteq Running'
    BY DEF Loaded, Running
  <2> QED
    BY <2>1, <2>2, <2>3, <2>4, FS_CardinalityType
<1>5. Cardinality(Orphans') + Cardinality(Running') <= Cardinality(Orphans) + Cardinality(Running)
  <2>1. Cardinality(Orphans') <= Cardinality(Orphans) + Cardinality(others)
    BY <1>2, <1>3, PartOfUnion
  <2> QED
    BY <1>2, <1>3, <1>4, <2>1
<1>6. Loaded = {} => Orphans' \subseteq Orphans
  BY <1>2 DEF others
<1>7. Cardinality(Running') <= Cardinality(Running)
  BY <1>2, <1>3
<1>8. Accounts'
  <2> SUFFICES ASSUME mishaps' < MaxDevices PROVE Accounts'
    BY DEF Accounts
  <2> DEFINE lost == (\E p \in ps : Unsaved(p)) \/ (Identified(file) /\ file' # file)
  <2>1. Mishap(lost)
    BY DEF End
  <2>2. CASE lost
    <3>1. mishaps < MaxDevices /\ mishaps' = mishaps + 1 /\ mishaps \in Nat
      BY <2>1, <2>2, DevicesAssumption DEF HostInv, HostTypeOK, Mishap
    <3>2. CASE Loaded # {}
      <4>1. Cardinality(Orphans) + Cardinality(Running) <= 1 + mishaps
        BY <3>1, <3>2 DEF HostInv, Accounts
      <4> QED
        BY <1>2, <1>3, <1>4, <1>5, <3>1, <4>1 DEF Accounts
    <3>3. CASE Loaded = {}
      <4>1. Cardinality(Forgotten') <= Cardinality(Forgotten) + 1
        <5>1. Forgotten' \subseteq Forgotten \cup {InFile}
          BY <1>6, <3>3 DEF Forgotten
        <5>2. IsFiniteSet({InFile}) /\ Cardinality({InFile}) = 1
          BY FS_Singleton
        <5> HIDE DEF Forgotten
        <5> QED
          BY <1>3, <5>1, <5>2, PartOfUnion
      <4>2. Loaded' = {}
        BY <1>2, <3>3
      <4> QED
        BY <1>2, <1>3, <1>4, <1>7, <3>1, <3>3, <4>1, <4>2 DEF HostInv, Accounts
    <3> QED
      BY <3>2, <3>3
  <2>3. CASE ~lost
    <3>1. mishaps < MaxDevices /\ mishaps' = mishaps /\ mishaps \in Nat
      BY <2>1, <2>3, DevicesAssumption DEF HostInv, HostTypeOK, Mishap
    <3>2. InFile' = InFile /\ \A p \in ps : ~Unsaved(p)
      BY <1>1, <2>3
    <3>3. CASE Loaded = {}
      <4>1. Loaded' = {} /\ Forgotten' \subseteq Forgotten
        BY <1>2, <1>6, <3>2, <3>3 DEF Forgotten
      <4>2. Cardinality(Forgotten') <= Cardinality(Forgotten)
        BY <1>3, <4>1, FS_Subset
      <4> QED
        BY <1>2, <1>3, <1>4, <1>7, <3>1, <3>3, <4>1, <4>2 DEF HostInv, Accounts
    <3>4. CASE Loaded # {}
      <4>1. Cardinality(Orphans) + Cardinality(Running) <= 1 + mishaps
        BY <3>1, <3>4 DEF HostInv, Accounts
      <4>2. ASSUME Running' = {} \/ (Loaded' # {} /\ \A p \in Loaded' : ~Settled(p)')
            PROVE  Cardinality(Forgotten') + Cardinality(Running') <= mishaps
        <5>1. \A p \in Loaded' : Settled(p) => Settled(p)'
          BY <1>1, <1>2, <3>2 DEF Settled, Unsaved, Ident, Loaded
        <5>2. \A p \in Loaded \ ps : ~Settled(p)
          BY <1>2, <1>4, <4>2, <5>1
        <5>3. CASE \A p \in Loaded : ~Settled(p)
          <6>1. Cardinality(Forgotten) + Cardinality(Running) <= mishaps
            BY <3>1, <3>4, <5>3 DEF HostInv, Accounts
          <6>2. Forgotten' \subseteq Forgotten \cup others
            BY <1>2, <3>2 DEF Forgotten
          <6>3. Cardinality(Forgotten') <= Cardinality(Forgotten) + Cardinality(others)
            BY <1>2, <1>3, <6>2, PartOfUnion
          <6> QED
            BY <1>2, <1>3, <1>4, <3>1, <6>1, <6>3
        <5>4. ASSUME NEW p \in Loaded, Settled(p)
              PROVE  Cardinality(Forgotten') + Cardinality(Running') <= mishaps
          <6>1. p \in gone /\ ~Unsaved(p)
            BY <3>2, <5>2, <5>4
          <6>2. Ident(p) \notin known \/ Ident(p) = InFile'
            BY <3>2, <5>4, <6>1 DEF Settled
          <6> DEFINE rest == {Ident(q) : q \in gone \ {p}}
          <6>3. /\ IsFiniteSet(rest) /\ Cardinality(rest) \in Nat
                /\ Cardinality(rest) + 1 + Cardinality(Running') <= Cardinality(Running)
            <7>1. {p} \in SUBSET gone /\ Cardinality({p}) = 1
              BY <6>1, FS_Singleton
            <7> HIDE DEF gone
            <7>2. LET left == {Ident(q) : q \in gone \ {p}}
                  IN  /\ IsFiniteSet(left) /\ Cardinality(left) \in Nat
                      /\ Cardinality(left) + Cardinality({p}) + Cardinality(Running')
                           <= Cardinality(Running)
              BY <7>1, EndCounts DEF gone
            <7> QED
              BY <7>1, <7>2
          <6>4. Forgotten' \subseteq Orphans \cup rest
            <7>1. Orphans' \subseteq known
              BY <1>1 DEF Orphans
            <7> QED
              BY <1>2, <6>1, <6>2, <7>1 DEF Forgotten, others
          <6>5. Cardinality(Forgotten') <= Cardinality(Orphans) + Cardinality(rest)
            BY <1>3, <6>3, <6>4, PartOfUnion
          <6> QED
            BY <1>2, <1>3, <1>4, <3>1, <4>1, <6>3, <6>5
        <5> QED
          BY <5>3, <5>4
      <4> QED
        BY <1>2, <1>3, <1>4, <1>5, <3>1, <4>1, <4>2 DEF Accounts
    <3> QED
      BY <3>3, <3>4
  <2> QED
    BY <2>2, <2>3
<1> QED
  BY <1>1, <1>2, <1>8 DEF HostInv

-----------------------------------------------------------------------------
(* The steps of a process.                                                 *)

\* What every step of a process changes: its own phase, configuration and answer.
LEMMA OwnStep ==
  ASSUME HostInv, NEW p \in Procs, ProcStep(p)
  PROVE  /\ ProcUnchanged
         /\ \A q \in Procs \ {p} :
              phase'[q] = phase[q] /\ mem'[q] = mem[q] /\ got'[q] = got[q]
         /\ phase' = [phase EXCEPT ![p] = phase'[p]]
         /\ On(p) /\ phase'[p] # "off"
  BY DEF HostInv, HostTypeOK, ProcStep, EnsureConfig, WriteTemplate, Load, RegisterKnown,
         RegisterNew, LoseAnswer, Adopt, OpenSave, Save, SaveFails, Disconnect, Answer, Goto,
         On

\* The types in the steps of a process.
LEMMA ProcTyped ==
  ASSUME HostInv, NEW p \in Procs, ProcStep(p)
  PROVE  HostTypeOK' /\ IdsIssued'
<1> USE DEF HostInv, HostTypeOK, IdsIssued, ProcUnchanged, setup, server, Goto
<1>1. /\ Blank \in Text /\ Blank.id = 0
      /\ \A t \in Text : t.id \in 0 .. MaxDevices
  BY TextsTyped DEF Text
<1>2. CASE EnsureConfig(p)
  BY <1>2 DEF EnsureConfig
<1>3. CASE WriteTemplate(p)
  <2>1. mishaps' \in 0 .. MaxDevices
    BY <1>3, DevicesAssumption DEF WriteTemplate, Mishap
  <2> QED
    BY <1>1, <1>3, <2>1 DEF WriteTemplate
<1>4. CASE Load(p)
  BY <1>1, <1>4 DEF Load
<1>5. CASE RegisterKnown(p)
  BY <1>1, <1>5 DEF RegisterKnown, Answer
<1>6. CASE RegisterNew(p)
  <2>1. /\ issued + 1 \in 0 .. MaxDevices
        /\ known \cup {issued + 1} \subseteq 1 .. (issued + 1)
        /\ \A n \in Nat : n <= issued => n <= issued + 1
    BY <1>6, DevicesAssumption DEF RegisterNew
  <2> QED
    BY <1>1, <1>6, <2>1 DEF RegisterNew, Answer
<1>7. CASE LoseAnswer(p)
  <2>1. mishaps' \in 0 .. MaxDevices
    BY <1>7, DevicesAssumption DEF LoseAnswer, Mishap
  <2> QED
    BY <1>7, <2>1, DevicesAssumption DEF LoseAnswer
<1>8. CASE Adopt(p)
  <2> DEFINE one == [mem[p] EXCEPT !.id = got[p], !.whole = TRUE]
  <2>1. one \in Text /\ one.id = got[p]
    BY DEF Text
  <2>2. mem' = mem \/ mem' = [mem EXCEPT ![p] = one]
    BY <1>8 DEF Adopt
  <2>3. mem' \in [Procs -> Text] /\ \A q \in Procs : mem'[q].id <= issued
    BY <2>1, <2>2
  <2> QED
    BY <1>8, <2>3 DEF Adopt
<1>9. CASE OpenSave(p)
  BY <1>1, <1>9 DEF OpenSave
<1>10. CASE Save(p)
  BY <1>10 DEF Save
<1>11. CASE SaveFails(p)
  <2>1. file' = file \/ file' \in Cuts(mem[p])
    BY <1>11 DEF SaveFails
  <2>2. file' \in Text \cup {Absent, Broken}
    BY <2>1, TextsTyped
  <2>3. file' \in Text => file'.id \in {0, mem[p].id} \/ file' = file
    BY <2>1, TextsTyped
  <2>4. mishaps' \in 0 .. MaxDevices
    BY <1>11, DevicesAssumption DEF SaveFails, Mishap
  <2> QED
    BY <1>11, <2>2, <2>3, <2>4 DEF SaveFails
<1>12. CASE Disconnect(p)
  BY <1>12, DevicesAssumption DEF Disconnect
<1> QED
  BY <1>2, <1>3, <1>4, <1>5, <1>6, <1>7, <1>8, <1>9, <1>10, <1>11, <1>12 DEF ProcStep

\* Only what the server does not know any more is registered anew, and a device that
\* was deleted does not come back.
LEMMA AnswerKept ==
  ASSUME HostInv, NEW p \in Procs, ProcStep(p)
  PROVE  AnswerIsNew'
<1> USE DEF HostInv, Goto, Answer, server
<1>1. CASE RegisterNew(p)
  <2>1. \A q \in Procs : mem[q].id # issued + 1
    BY DevicesAssumption DEF IdsIssued, HostTypeOK, Text
  <2>2. /\ UNCHANGED mem /\ known' = known \cup {issued + 1} /\ mem[p].id \notin known
        /\ \A q \in Procs \ {p} : phase'[q] = phase[q] /\ got'[q] = got[q]
    BY <1>1, OwnStep DEF RegisterNew
  <2> QED
    BY <2>1, <2>2 DEF AnswerIsNew
<1>2. CASE RegisterKnown(p)
  <2>1. UNCHANGED <<mem, known>> /\ got'[p] = mem[p].id
    BY <1>2 DEF RegisterKnown, HostTypeOK
  <2> QED
    BY <2>1, OwnStep DEF AnswerIsNew
<1>3. ASSUME ~RegisterNew(p), ~RegisterKnown(p) PROVE AnswerIsNew'
  <2>1. UNCHANGED known /\ phase'[p] # "reply"
    BY <1>3 DEF HostTypeOK, ProcStep, EnsureConfig, WriteTemplate, Load, LoseAnswer, Adopt,
                OpenSave, Save, SaveFails, Disconnect
  <2> QED
    BY <2>1, OwnStep DEF AnswerIsNew
<1> QED
  BY <1>1, <1>2, <1>3

\* In all steps but those that read the file the same processes run on, and the
\* identities of the others stay.
LEMMA SameProcs ==
  ASSUME HostInv, NEW p \in Procs, ProcStep(p), ~Load(p)
  PROVE  /\ Running' = Running /\ Loaded' = Loaded /\ p \in Running
         /\ \A q \in Loaded \ {p} : Ident(q)' = Ident(q) /\ Unsaved(q)' = Unsaved(q)
<1>1. \A q \in Procs \ {p} :
        phase'[q] = phase[q] /\ mem'[q] = mem[q] /\ got'[q] = got[q]
  BY OwnStep
<1>2. /\ phase[p] \notin {"off", "failed"} /\ phase'[p] \notin {"off", "failed"}
      /\ LET used == {"connect", "reply", "save", "saving", "serving"}
         IN  phase'[p] \in used <=> phase[p] \in used
  BY DEF HostInv, HostTypeOK, ProcStep, EnsureConfig, WriteTemplate, RegisterKnown,
         RegisterNew, LoseAnswer, Adopt, OpenSave, Save, SaveFails, Disconnect, Answer, Goto
<1> QED
  BY <1>1, <1>2 DEF Running, Loaded, Ident, Unsaved

\* A process that keeps its identity, or had not read it yet, leaves the others what
\* they have.
LEMMA SameOrphans ==
  ASSUME HostInv, NEW p \in Procs, ProcStep(p), ~Load(p), UNCHANGED known,
         p \in Loaded => Ident(p)' = Ident(p)
  PROVE  Orphans' = Orphans
<1>1. Loaded' = Loaded /\ \A q \in Loaded : Ident(q)' = Ident(q)
  BY SameProcs
<1> QED
  BY <1>1 DEF Orphans

\* A step in which the process keeps its identity and its place, and the file too.
LEMMA KeepsPlace ==
  ASSUME HostInv, NEW p \in Procs, ProcStep(p), ~Load(p), UNCHANGED <<known, mishaps>>,
         InFile' = InFile, p \in Loaded => Ident(p)' = Ident(p) /\ ~Unsaved(p)
  PROVE  Accounts'
<1>1. Running' = Running /\ Loaded' = Loaded
  BY SameProcs
<1>2. Orphans' = Orphans
  BY SameOrphans
<1>3. ASSUME NEW q \in Loaded, Settled(q) PROVE Settled(q)'
  <2>1. CASE q = p
    BY <1>3, <2>1 DEF Settled
  <2>2. CASE q # p
    <3>1. Ident(q)' = Ident(q)
      BY <2>2, SameProcs
    <3>2. Unsaved(q)' = Unsaved(q)
      BY <2>2, SameProcs
    <3>3. Unsaved(q) => Unsaved(q)'
      BY <3>2
    <3> QED
      BY <1>3, <3>1, <3>3 DEF Settled
  <2> QED
    BY <2>1, <2>2
<1>4. HostTypeOK'
  BY ProcTyped
<1> QED
  BY <1>1, <1>2, <1>3, <1>4, CalmStep

\* The first to read the file takes over what is in it, the others find at least that.
LEMMA LoadKeeps ==
  ASSUME HostInv, NEW p \in Procs, Load(p)
  PROVE  Accounts' /\ IsFiniteSet(Running')
<1> USE DEF Goto, server
<1>1. /\ \A q \in Procs \ {p} :
           phase'[q] = phase[q] /\ mem'[q] = mem[q] /\ got'[q] = got[q]
      /\ UNCHANGED <<known, mishaps, file>> /\ phase[p] = "load"
      /\ \/ /\ phase'[p] = "connect" /\ file # Broken
            /\ mem'[p] = IF file = Absent THEN Blank ELSE file
         \/ phase'[p] = "failed"
  BY DEF Load, HostInv, HostTypeOK
<1>2. /\ InFile' = InFile
      /\ \A q \in Loaded : q # p /\ Ident(q)' = Ident(q)
      /\ \A q \in Loaded : Settled(q) => Settled(q)'
  BY <1>1 DEF InFile, Identified, Loaded, Ident, Settled, Unsaved
<1>3. /\ IsFiniteSet(Orphans) /\ Cardinality(Orphans) \in Nat
      /\ IsFiniteSet(Forgotten) /\ Cardinality(Forgotten) \in Nat
      /\ IsFiniteSet(Running) /\ Cardinality(Running) \in Nat
      /\ Cardinality(Forgotten) <= Cardinality(Orphans)
  BY Counted DEF HostInv
<1>4. mishaps \in Nat /\ MaxDevices \in Nat
  BY DevicesAssumption DEF HostInv, HostTypeOK
<1>5. p \in Running
  BY <1>1 DEF Running
<1>6. CASE phase'[p] = "connect"
  <2>1. Running' = Running /\ Loaded' = Loaded \cup {p}
    BY <1>1, <1>6 DEF Running, Loaded
  <2>2. Ident(p)' = InFile
    BY <1>1, <1>6, FileAssumption DEF Ident, InFile, Identified, Blank, HostInv, HostTypeOK,
                                      Text
  <2>3. Orphans' = Forgotten /\ Forgotten' = Forgotten
    BY <1>1, <1>2, <2>1, <2>2 DEF Orphans, Forgotten
  <2>4. Settled(p)'
    BY <1>2, <2>2 DEF Settled
  <2> QED
    BY <1>1, <1>3, <1>4, <1>5, <2>1, <2>3, <2>4 DEF HostInv, Accounts
<1>7. CASE phase'[p] = "failed"
  <2>1. Running' = Running \ {p} /\ Loaded' = Loaded
    BY <1>1, <1>7 DEF Running, Loaded
  <2>2. Orphans' = Orphans /\ Forgotten' = Forgotten
    BY <1>1, <1>2, <2>1 DEF Orphans, Forgotten
  <2>3. IsFiniteSet(Running') /\ Cardinality(Running') = Cardinality(Running) - 1
    BY <1>3, <1>5, <2>1, FS_RemoveElement
  <2>4. (Loaded' # {} /\ \A q \in Loaded' : ~Settled(q)') =>
          Loaded # {} /\ \A q \in Loaded : ~Settled(q)
    BY <1>2, <2>1
  <2>5. Running # {}
    BY <1>5
  <2> QED
    BY <1>1, <1>3, <1>4, <2>1, <2>2, <2>3, <2>4, <2>5 DEF HostInv, Accounts
<1> QED
  BY <1>1, <1>6, <1>7

\* The accounts in the other steps of a process.
LEMMA AccountsKept ==
  ASSUME HostInv, NEW p \in Procs, ProcStep(p), ~Load(p)
  PROVE  Accounts'
<1> USE DEF Goto, Answer, server
<1>1. /\ HostTypeOK' /\ HostTypeOK
      /\ Running' = Running /\ Loaded' = Loaded /\ p \in Running
  BY ProcTyped, SameProcs DEF HostInv
<1>2. CASE EnsureConfig(p)
  <2>1. UNCHANGED <<known, mishaps, file>> /\ p \notin Loaded
    BY <1>2 DEF EnsureConfig, Loaded
  <2>2. InFile' = InFile
    BY <2>1 DEF InFile, Identified
  <2> QED
    BY <1>2, <2>1, <2>2, KeepsPlace
<1>3. CASE WriteTemplate(p)
  <2>1. UNCHANGED known /\ p \notin Loaded /\ Mishap(Identified(file)) /\ file' = Blank
    BY <1>3 DEF WriteTemplate, Loaded
  <2>2. CASE Identified(file)
    <3>1. Mishap(TRUE)
      BY <2>1, <2>2 DEF Mishap
    <3>2. Orphans' = Orphans
      BY <2>1, SameOrphans
    <3> QED
      BY <1>1, <3>1, <3>2, MishapStep
  <2>3. CASE ~Identified(file)
    <3>1. UNCHANGED mishaps
      BY <2>1, <2>3 DEF Mishap
    <3>2. InFile' = InFile
      BY <2>1, <2>3, TextsTyped DEF InFile, Identified
    <3> QED
      BY <2>1, <3>1, <3>2, KeepsPlace
  <2> QED
    BY <2>2, <2>3
<1>4. CASE RegisterKnown(p)
  <2>1. UNCHANGED <<known, mishaps, file>>
    BY <1>4 DEF RegisterKnown
  <2>2. InFile' = InFile
    BY <2>1 DEF InFile, Identified
  <2>3. Ident(p)' = Ident(p) /\ ~Unsaved(p)
    BY <1>1, <1>4 DEF RegisterKnown, Ident, Unsaved, HostTypeOK
  <2> QED
    BY <1>4, <2>1, <2>2, <2>3, KeepsPlace
<1>5. CASE RegisterNew(p)
  <2>1. /\ phase[p] = "connect" /\ phase'[p] = "reply" /\ got'[p] = issued + 1
        /\ UNCHANGED <<mem, mishaps>> /\ known' = known \cup {issued + 1}
        /\ mem[p].id \notin known
    BY <1>1, <1>5 DEF RegisterNew, HostTypeOK
  <2>2. mem[p].id # issued + 1
    BY <1>1, DevicesAssumption DEF HostInv, IdsIssued, HostTypeOK, Text
  <2>3. Settled(p)' /\ p \in Loaded
    BY <2>1, <2>2 DEF Settled, Unsaved, Loaded
  <2>4. Ident(p)' = issued + 1 /\ Ident(p) \notin known
    BY <2>1 DEF Ident
  <2>5. Orphans' \subseteq Orphans
    <3>1. \A q \in Loaded \ {p} : Ident(q)' = Ident(q)
      BY SameProcs
    <3> QED
      BY <1>1, <2>1, <2>3, <2>4, <3>1 DEF Orphans
  <2> QED
    BY <1>1, <2>1, <2>3, <2>5, SettledStep
<1>6. CASE LoseAnswer(p)
  <2>1. /\ phase[p] = "reply" /\ phase'[p] = "connect" /\ UNCHANGED <<mem, known, file>>
        /\ Mishap(got[p] # mem[p].id)
    BY <1>1, <1>6 DEF LoseAnswer, HostTypeOK
  <2>2. CASE got[p] # mem[p].id
    <3>1. Mishap(TRUE)
      BY <2>1, <2>2 DEF Mishap
    <3>2. p \in Loaded /\ Settled(p)'
      BY <2>1, <2>2 DEF Loaded, Settled, Ident, HostInv, AnswerIsNew
    <3>3. Orphans' \subseteq Orphans \cup {got[p]}
      <4>1. \A q \in Loaded \ {p} : Ident(q)' = Ident(q)
        BY SameProcs
      <4>2. Ident(p) = got[p]
        BY <2>1 DEF Ident
      <4> QED
        BY <1>1, <2>1, <4>1, <4>2 DEF Orphans
    <3> QED
      BY <1>1, <3>1, <3>2, <3>3, MishapStep
  <2>3. CASE got[p] = mem[p].id
    <3>1. UNCHANGED mishaps
      BY <2>1, <2>3 DEF Mishap
    <3>2. InFile' = InFile
      BY <2>1 DEF InFile, Identified
    <3>3. Ident(p)' = Ident(p) /\ ~Unsaved(p)
      BY <2>1, <2>3 DEF Ident, Unsaved
    <3> QED
      BY <1>6, <2>1, <3>1, <3>2, <3>3, KeepsPlace
  <2> QED
    BY <2>2, <2>3
<1>7. CASE Adopt(p)
  <2>1. UNCHANGED <<got, known, file, mishaps>> /\ phase[p] = "reply" /\ p \in Loaded
    BY <1>7 DEF Adopt, Loaded
  <2>2. Ident(p)' = Ident(p)
    BY <1>1, <1>7, <2>1 DEF Adopt, Ident, HostTypeOK, Text
  <2>3. CASE got[p] = mem[p].id
    <3>1. InFile' = InFile
      BY <2>1 DEF InFile, Identified
    <3>2. ~Unsaved(p)
      BY <2>1, <2>3 DEF Unsaved
    <3> QED
      BY <1>7, <2>1, <2>2, <3>1, <3>2, KeepsPlace
  <2>4. CASE got[p] # mem[p].id
    <3>1. phase'[p] = "save"
      BY <1>1, <1>7, <2>4 DEF Adopt, HostTypeOK
    <3>2. Settled(p)'
      BY <3>1 DEF Settled, Unsaved
    <3>3. Orphans' = Orphans
      BY <1>7, <2>1, <2>2, SameOrphans
    <3> QED
      BY <1>1, <2>1, <3>2, <3>3, SettledStep
  <2> QED
    BY <2>3, <2>4
<1>8. CASE OpenSave(p) \/ Save(p)
  <2>1. /\ UNCHANGED <<mem, known, mishaps>> /\ phase[p] \in {"save", "saving"}
        /\ p \in Loaded
        /\ \/ phase'[p] = "saving"
           \/ phase'[p] = "serving" /\ file' = mem[p]
    BY <1>1, <1>8 DEF OpenSave, Save, Loaded, HostTypeOK
  <2>2. Ident(p)' = Ident(p)
    BY <2>1 DEF Ident
  <2>3. Settled(p)'
    <3>1. CASE phase'[p] = "saving"
      BY <3>1 DEF Settled, Unsaved
    <3>2. CASE phase'[p] = "serving" /\ file' = mem[p]
      BY <1>1, <2>1, <3>2, FileAssumption DEF Settled, Ident, InFile, Identified, HostTypeOK
    <3> QED
      BY <2>1, <3>1, <3>2
  <2>4. Orphans' = Orphans
    BY <2>1, <2>2, SameOrphans
  <2> QED
    BY <1>1, <2>1, <2>3, <2>4, SettledStep
<1>9. CASE SaveFails(p)
  <2>1. /\ UNCHANGED <<mem, known>> /\ phase[p] \in {"save", "saving"}
        /\ phase'[p] = "serving" /\ Mishap(TRUE)
    BY <1>1, <1>9 DEF SaveFails, HostTypeOK
  <2>2. Ident(p)' = Ident(p)
    BY <2>1 DEF Ident
  <2>3. Orphans' = Orphans
    BY <2>1, <2>2, SameOrphans
  <2> QED
    BY <1>1, <2>1, <2>3, MishapStep
<1>10. CASE Disconnect(p)
  <2>1. /\ UNCHANGED <<mem, known, file, mishaps>> /\ phase[p] = "serving"
        /\ phase'[p] = "connect"
    BY <1>1, <1>10 DEF Disconnect, HostTypeOK
  <2>2. InFile' = InFile
    BY <2>1 DEF InFile, Identified
  <2>3. Ident(p)' = Ident(p) /\ ~Unsaved(p)
    BY <2>1 DEF Ident, Unsaved
  <2> QED
    BY <1>10, <2>1, <2>2, <2>3, KeepsPlace
<1> QED
  BY <1>2, <1>3, <1>4, <1>5, <1>6, <1>7, <1>8, <1>9, <1>10 DEF ProcStep

\* The whole invariant in the steps of a process.
LEMMA ProcKeeps ==
  ASSUME HostInv, NEW p \in Procs, ProcStep(p)
  PROVE  HostInv'
<1>1. HostTypeOK' /\ IdsIssued' /\ AnswerIsNew'
  BY ProcTyped, AnswerKept
<1>2. Accounts'
  BY AccountsKept, LoadKeeps
<1>3. IsFiniteSet(Running')
  <2>1. CASE Load(p)
    BY <2>1, LoadKeeps
  <2>2. CASE ~Load(p)
    BY <2>2, SameProcs DEF HostInv
  <2> QED
    BY <2>1, <2>2
<1> QED
  BY <1>1, <1>2, <1>3 DEF HostInv

-----------------------------------------------------------------------------

\* The commands of the user and of Windows, and the deletion of a device, leave what
\* processes have alone; enable may create a blank file.
LEMMA CommandKeeps ==
  ASSUME HostInv,
         \/ Boot \/ Logon \/ Enable \/ Disable \/ InstallService \/ StopService
         \/ UninstallService \/ \E d \in known : DeleteDevice(d)
  PROVE  HostInv'
<1>1. /\ UNCHANGED <<phase, mem, got, mishaps, issued>>
      /\ known' \subseteq known
      /\ file' = file \/ (file = Absent /\ file' = Blank)
  BY DEF Boot, Logon, Enable, Disable, InstallService, StopService, UninstallService,
         DeleteDevice, setup, server
<1>2. HostTypeOK'
  <2>1. file' \in Text \cup {Absent, Broken}
    BY <1>1, TextsTyped DEF HostInv, HostTypeOK
  <2>2. /\ power' \in {"off", "boot", "user"}
        /\ task' \in BOOLEAN
        /\ service' \in {"none", "present", "deleted"}
        /\ stopping' \in BOOLEAN
    BY DEF HostInv, HostTypeOK, Boot, Logon, Enable, Disable, InstallService, StopService,
           UninstallService, DeleteDevice, setup, server
  <2> QED
    BY <1>1, <2>1, <2>2 DEF HostInv, HostTypeOK
<1>3. IdsIssued'
  BY <1>1, TextsTyped, FileAssumption DEF HostInv, IdsIssued, HostTypeOK
<1>4. AnswerIsNew'
  BY <1>1 DEF HostInv, AnswerIsNew
<1>5. Running' = Running /\ Loaded' = Loaded
  BY <1>1 DEF Running, Loaded
<1>6. /\ InFile' = InFile
      /\ \A p \in Loaded : Ident(p)' = Ident(p)
  BY <1>1, TextsTyped DEF InFile, Identified, Ident
<1>7. Orphans' \subseteq Orphans
  BY <1>1, <1>5, <1>6 DEF Orphans
<1>8. \A p \in Loaded : Settled(p) => Settled(p)'
  BY <1>1, <1>6 DEF Settled, Unsaved
<1>9. Accounts'
  BY <1>1, <1>2, <1>5, <1>6, <1>7, <1>8, CalmStep
<1> QED
  BY <1>2, <1>3, <1>4, <1>5, <1>9 DEF HostInv

\* Every step of a process, of the user and of Windows keeps the invariant.
LEMMA NextHostInv == HostInv /\ [HostNext]_hostVars => HostInv'
<1> SUFFICES ASSUME HostInv, [HostNext]_hostVars PROVE HostInv'
  OBVIOUS
<1>1. CASE StartTask \/ StartService \/ \E p \in ByHand : StartByHand(p)
  BY <1>1, BeginKeeps DEF StartTask, StartService, StartByHand, Procs
<1>2. CASE Logoff \/ PowerOff
  BY <1>2, EndKeeps DEF Logoff, PowerOff
<1>3. CASE ServiceEnds
  BY <1>3, EndKeeps DEF ServiceEnds, Procs, HostInv, HostTypeOK
<1>4. ASSUME NEW p \in Procs, Kill(p) \/ CloseDialog(p) PROVE HostInv'
  BY <1>4, EndKeeps DEF Kill, CloseDialog, HostInv, HostTypeOK
<1>5. ASSUME NEW p \in Procs, ProcStep(p) PROVE HostInv'
  BY <1>5, ProcKeeps
<1>6. CASE \/ Boot \/ Logon \/ Enable \/ Disable \/ InstallService \/ StopService
           \/ UninstallService \/ \E d \in known : DeleteDevice(d)
  BY <1>6, CommandKeeps
<1>7. CASE UNCHANGED hostVars
  BY <1>7 DEF hostVars, setup, server, HostInv, HostTypeOK, IdsIssued, AnswerIsNew,
              Accounts, Running, Loaded, Orphans, Forgotten, Settled, Unsaved, Ident,
              InFile, Identified
<1> QED
  BY <1>1, <1>2, <1>3, <1>4, <1>5, <1>6, <1>7 DEF HostNext

\* What the server knows is used by somebody, in the file, or forgotten.
LEMMA KnownPaid ==
  ASSUME HostInv, mishaps < MaxDevices
  PROVE  Cardinality(known) <= 1 + mishaps
<1> DEFINE used == {Ident(p) : p \in Loaded}
<1>1. /\ IsFiniteSet(Orphans) /\ Cardinality(Orphans) \in Nat
      /\ IsFiniteSet(Forgotten) /\ Cardinality(Forgotten) \in Nat
      /\ IsFiniteSet(known) /\ Cardinality(known) \in Nat
      /\ IsFiniteSet(Running) /\ Cardinality(Running) \in Nat
      /\ Cardinality(Running) = 0 <=> Running = {}
      /\ Loaded \subseteq Running
  BY Counted, FS_CardinalityType DEF HostInv
<1>2. mishaps \in Nat
  BY DevicesAssumption DEF HostInv, HostTypeOK
<1>3. CASE Loaded # {}
  <2>1. Cardinality(Orphans) + Cardinality(Running) <= 1 + mishaps
    BY <1>3 DEF HostInv, Accounts
  <2>2. /\ IsFiniteSet(used) /\ Cardinality(used) \in Nat
        /\ Cardinality(used) <= Cardinality(Running)
    <3> DEFINE id == [p \in Loaded |-> Ident(p)]
    <3>1. id \in [Loaded -> Nat]
      BY DevicesAssumption DEF HostInv, HostTypeOK, Ident, Text, Loaded
    <3>2. used = {id[p] : p \in Loaded}
      OBVIOUS
    <3>3. /\ IsFiniteSet(Loaded) /\ Cardinality(Loaded) <= Cardinality(Running)
          /\ Cardinality(Loaded) \in Nat
      BY <1>1, FS_Subset, FS_CardinalityType
    <3> HIDE DEF id, used
    <3>4. IsFiniteSet(used) /\ Cardinality(used) <= Cardinality(Loaded)
      BY <3>1, <3>2, <3>3, ImageNoLarger
    <3>5. Cardinality(used) \in Nat
      BY <3>4, FS_CardinalityType
    <3> QED
      BY <1>1, <3>3, <3>4, <3>5
  <2>3. known \subseteq Orphans \cup used
    BY DEF Orphans
  <2> HIDE DEF used
  <2>4. Cardinality(known) <= Cardinality(Orphans) + Cardinality(used)
    BY <1>1, <2>2, <2>3, PartOfUnion
  <2> QED
    BY <1>1, <1>2, <2>1, <2>2, <2>4
<1>4. CASE Loaded = {}
  <2>1. known \subseteq Forgotten \cup {InFile}
    BY <1>4 DEF Forgotten, Orphans
  <2>2. IsFiniteSet({InFile}) /\ Cardinality({InFile}) = 1
    BY FS_Singleton
  <2>3. Cardinality(known) <= Cardinality(Forgotten) + 1
    BY <1>1, <2>1, <2>2, PartOfUnion
  <2>4. Cardinality(Forgotten) <= mishaps
    BY <1>1, <1>2 DEF HostInv, Accounts
  <2> QED
    BY <1>1, <1>2, <2>3, <2>4
<1> QED
  BY <1>3, <1>4

-----------------------------------------------------------------------------

\* The invariant holds in every state of every execution.
THEOREM HostInvariant == HostSpec => []HostInv
  BY InitHostInv, NextHostInv, PTL DEF HostSpec

\* Every variable keeps its type: no process goes on with a file that it could not
\* parse.
THEOREM HostTypeCorrect == HostSpec => []HostTypeOK
<1>1. HostInv => HostTypeOK
  BY DEF HostInv
<1> QED
  BY <1>1, HostInvariant, PTL

\* Every device of a PC but one has been paid for by one of the mishaps: a lost first
\* answer, a save that fails or is cut off, a template over an identity, a process
\* that begins next to another.  However many processes share the file, and however
\* often they reconnect, end, and are deleted, one mishap costs no more than one
\* device (client.go:164-173, config.go:124-138).
THEOREM HostDevicesAccounted == HostSpec => []DevicesAccounted
<1>1. HostInv => DevicesAccounted
  <2> SUFFICES ASSUME HostInv PROVE Cardinality(known) <= 1 + mishaps
    BY DEF DevicesAccounted
  <2>1. mishaps \in 0 .. MaxDevices /\ MaxDevices \in Nat
    BY DevicesAssumption DEF HostInv, HostTypeOK
  <2>2. CASE mishaps < MaxDevices
    BY <2>2, KnownPaid, <2>1
  <2>3. CASE mishaps = MaxDevices
    <3>1. known \subseteq 1 .. MaxDevices
      BY <2>1 DEF HostInv, HostTypeOK
    <3>2. IsFiniteSet(1 .. MaxDevices) /\ Cardinality(1 .. MaxDevices) <= MaxDevices
      BY <2>1, FS_Interval
    <3>3. Cardinality(known) <= Cardinality(1 .. MaxDevices)
          /\ Cardinality(known) \in Nat /\ Cardinality(1 .. MaxDevices) \in Nat
      BY <3>1, <3>2, FS_Subset, FS_CardinalityType
    <3> QED
      BY <2>1, <2>3, <3>2, <3>3
  <2> QED
    BY <2>1, <2>2, <2>3
<1> QED
  BY <1>1, HostInvariant, PTL
=============================================================================
