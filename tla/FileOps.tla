------------------------------ MODULE FileOps ------------------------------
(***************************************************************************)
(* The file commands an agent executes: package fsops and the goroutines   *)
(* of dispatch.go that call it.  Each command runs in a goroutine of its   *)
(* own (respond), so commands overlap, and nothing orders a command and    *)
(* its repetition after a timeout of the server.                           *)
(*                                                                         *)
(* A path is a folder or <<folder, name>>, a file in a folder.  Of a file  *)
(* the model keeps which of the contents in Data it holds, if any whole    *)
(* one.  As on Windows, a file that a command has open can be read,        *)
(* written and truncated by others but neither renamed nor removed.        *)
(***************************************************************************)
EXTENDS Naturals, FiniteSets

CONSTANTS Folders,   \* folders, on two volumes
          Near,      \* those on the first volume
          Names,     \* names of files
          Ops,       \* goroutines that can execute a command
          Data,      \* contents worth keeping
          Upload,    \* the content of an uploaded file
          Nothing,   \* no file
          Torn,      \* a file that is empty, cut off or a mixture
          Commands   \* commands that operators send

Paths == Folders \cup (Folders \X Names)
Kinds == {"move", "rename", "copy", "delete", "mkdir", "write", "read", "list"}

\* What the handlers of the API ask for: FSMkdir, FSDelete, FSDownload and FSList
\* name one path, FSUpload names one to write to, FSRename, FSCopy and FSMove two.
PathRequests == [kind : {"mkdir", "delete", "read", "list"}, src : Paths, dst : {Nothing}]
Uploads == [kind : {"write"}, src : {Nothing}, dst : Paths]
TwoPathRequests == [kind : {"rename", "copy", "move"}, src : Paths, dst : Paths]

ASSUME PathAssumption == Folders \cap (Folders \X Names) = {}
ASSUME NearAssumption == Near \subseteq Folders
ASSUME CommandsAssumption == Commands \subseteq PathRequests \cup Uploads \cup TwoPathRequests
ASSUME ContentAssumption ==
  /\ Torn # Nothing
  /\ {Upload, Nothing, Torn} \cap Data = {}

VARIABLES
  folders,   \* folders that exist
  file,      \* what each file holds
  op,        \* the command of each goroutine and where it is
  asked,     \* contents that somebody asked to delete or to overwrite
  spoiled    \* a write has failed while another command was running

fileVars == <<folders, file, op, asked, spoiled>>

Files == Folders \X Names

FilesIn(p) == IF p \in Folders THEN {p} \X Names ELSE {p}
FolderOf(p) == IF p \in Folders THEN p ELSE p[1]
Present(p) == {f \in FilesIn(p) : file[f] # Nothing}
Exists(p) == IF p \in Folders THEN p \in folders ELSE file[p] # Nothing

\* The file that takes the place of f when p is copied or moved to q.
Image(p, q, f) == IF p \in Folders THEN <<q, f[2]>> ELSE q

SameVolume(p, q) == (FolderOf(p) \in Near) = (FolderOf(q) \in Near)

\* todo: the files still to be copied or removed; cur: the one that is open;
\* mixed: what the command writes is being overwritten, or the other way round.
Idle ==
  [kind |-> "none", src |-> Nothing, dst |-> Nothing, at |-> "idle", todo |-> {},
   cur |-> Nothing, mixed |-> FALSE]

Running(r) == op[r].at # "idle"

\* The file that r writes, and the content it writes there.
Writes(r, f) ==
  \/ op[r].at = "copying" /\ f = Image(op[r].src, op[r].dst, op[r].cur)
  \/ op[r].at = "writing" /\ f = op[r].dst
Written(r) == IF op[r].at = "writing" THEN Upload ELSE file[op[r].cur]

\* The file that r has open to read from.
Reads(r, f) == op[r].at \in {"copying", "reading"} /\ f = op[r].cur

\* Somebody reads the names in folder p, which then can be neither renamed nor removed.
Listed(p) == \E q \in Ops : op[q].at = "listing" /\ op[q].src = p

OpenByOther(r, f) == \E q \in Ops \ {r} : Writes(q, f) \/ Reads(q, f)

FilesInit ==
  /\ folders \in SUBSET Folders
  /\ \E place \in [Data -> Files] :
       /\ \A v, w \in Data : v # w => place[v] # place[w]
       /\ \A v \in Data : place[v][1] \in folders
       /\ file = [f \in Files |-> IF \E v \in Data : place[v] = f
                                  THEN CHOOSE v \in Data : place[v] = f ELSE Nothing]
  /\ op = [r \in Ops |-> Idle]
  /\ asked = {}
  /\ spoiled = FALSE

-----------------------------------------------------------------------------
Goto(r, at) == op' = [op EXCEPT ![r].at = at]

\* respond: the result, which nothing here depends on, goes back to the server.
Done(r) == op' = [op EXCEPT ![r] = Idle]

Asked(contents) == asked' = asked \cup (contents \cap Data)

\* A command is decoded and its goroutine started.
Execute(r, c) ==
  /\ ~Running(r)
  /\ op' = [op EXCEPT ![r] = [Idle EXCEPT
              !.kind = c.kind, !.src = c.src, !.dst = c.dst, !.at = "start"]]
  /\ UNCHANGED <<folders, file, asked, spoiled>>

\* os.Rename: within a volume, a file over a file or a folder to a new name, and
\* nothing that somebody else has open.
CanRename(r) ==
  LET p == op[r].src
      q == op[r].dst
  IN /\ Exists(p)
     /\ SameVolume(p, q)
     /\ ~Listed(p)
     /\ p \in Folders <=> q \in Folders
     /\ q \in Folders => q = p \/ q \notin folders
     /\ q \notin Folders => q[1] \in folders
     /\ \A f \in Present(p) : ~OpenByOther(r, f) /\ ~OpenByOther(r, Image(p, q, f))

Rename(r) ==
  LET p == op[r].src
      q == op[r].dst
      image == [f \in Present(p) |-> Image(p, q, f)]
  IN /\ op[r].at = "start"
     /\ op[r].kind \in {"move", "rename"}
     /\ CanRename(r)
     /\ file' = [g \in Files |->
          IF \E f \in Present(p) : image[f] = g
          THEN file[CHOOSE f \in Present(p) : image[f] = g]
          ELSE IF g \in Present(p) THEN Nothing ELSE file[g]]
     /\ folders' = IF p \in Folders THEN (folders \ {p}) \cup {q} ELSE folders
     /\ Asked(IF p = q THEN {} ELSE {file[image[f]] : f \in Present(p)})
     /\ Done(r)
     /\ UNCHANGED spoiled

\* It may also fail for reasons of its own; a move then copies.
RenameFails(r) ==
  /\ op[r].at = "start"
  /\ \/ op[r].kind = "rename" /\ Done(r)
     \/ op[r].kind = "move" /\ Goto(r, "stat")
  /\ UNCHANGED <<folders, file, asked, spoiled>>

-----------------------------------------------------------------------------
(* Copy, and the second half of Move.                                      *)

\* Stat, and for a folder MkdirAll and ReadDir; each of them may fail.
CopyBegins(r) ==
  LET p == op[r].src
      q == op[r].dst
  IN /\ op[r].at = "stat" \/ (op[r].at = "start" /\ op[r].kind = "copy")
     /\ \/ /\ Exists(p)
           /\ p \in Folders => q \in Folders
           /\ op' = [op EXCEPT ![r].at = "copy", ![r].todo = Present(p)]
           /\ folders' = IF p \in Folders THEN folders \cup {q} ELSE folders
        \/ Done(r) /\ UNCHANGED folders
     /\ UNCHANGED <<file, asked, spoiled>>

\* Those who write g at the same time as r, and write something else.
Clash(r, g, content) == {q \in Ops \ {r} : Writes(q, g) /\ Written(q) # content}

\* r opens g to write content, and g is truncated.  What is lost by that was asked
\* for: what g held, unless it is what is being written, and what two commands
\* write to one file at the same time.
Create(r, g, content, opened) ==
  LET clash == Clash(r, g, content)
  IN /\ file' = [file EXCEPT ![g] = Torn]
     /\ Asked(({file[g]} \ {content}) \cup {Written(q) : q \in clash}
                \cup {v \in {content} : clash # {}})
     /\ op' = [q \in Ops |-> IF q = r THEN [opened EXCEPT !.mixed = clash # {}]
                            ELSE IF q \in clash THEN [op[q] EXCEPT !.mixed = TRUE]
                            ELSE op[q]]

\* Fault: the target is created before the source is opened.
OpenTargetFirst(r, f) ==
  LET g == Image(op[r].src, op[r].dst, f)
  IN /\ op[r].at = "copy"
     /\ f \in op[r].todo
     /\ g \in Files /\ g[1] \in folders
     /\ Create(r, g, file[f], [op[r] EXCEPT !.at = "copying", !.cur = f])
     /\ UNCHANGED <<folders, spoiled>>

\* copyFile: the source is opened before the target is created.
OpenFile(r, f) ==
  LET g == Image(op[r].src, op[r].dst, f)
  IN /\ op[r].at = "copy"
     /\ f \in op[r].todo
     /\ file[f] # Nothing
     /\ g \in Files /\ g[1] \in folders
     /\ Create(r, g, file[f], [op[r] EXCEPT !.at = "copying", !.cur = f])
     /\ UNCHANGED <<folders, spoiled>>

OpenFails(r) ==
  /\ op[r].at = "copy"
  /\ op[r].todo # {}
  /\ Done(r)
  /\ UNCHANGED <<folders, file, asked, spoiled>>

\* What a file holds when r, which writes it, is ready: nothing whole as long as
\* another command goes on writing it, perhaps a mixture if one has.
Closed(r, g, content) ==
  IF \E q \in Ops \ {r} : Writes(q, g) THEN {Torn}
  ELSE IF op[r].mixed THEN {content, Torn} ELSE {content}

CopyFile(r) ==
  LET f == op[r].cur
      g == Image(op[r].src, op[r].dst, f)
  IN /\ op[r].at = "copying"
     /\ \E v \in Closed(r, g, file[f]) : file' = [file EXCEPT ![g] = v]
     /\ op' = [op EXCEPT ![r].at = "copy", ![r].cur = Nothing, ![r].mixed = FALSE,
                         ![r].todo = @ \ {f}]
     /\ UNCHANGED <<folders, asked, spoiled>>

\* io.Copy fails (a full disk): what it wrote stays.
CopyFails(r) ==
  /\ op[r].at = "copying"
  /\ Done(r)
  /\ spoiled' = (spoiled \/ \E q \in Ops \ {r} : Running(q))
  /\ UNCHANGED <<folders, file, asked>>

Copied(r) ==
  /\ op[r].at = "copy"
  /\ op[r].todo = {}
  /\ \/ op[r].kind = "copy" /\ Done(r)
     \/ op[r].kind = "move"
        /\ op' = [op EXCEPT ![r].at = "remove", ![r].todo = Present(op[r].src)]
  /\ UNCHANGED <<folders, file, asked, spoiled>>

-----------------------------------------------------------------------------
(* RemoveAll: Delete, and the end of a Move that copied.                   *)

\* Fault: os.Remove, which takes the path itself.
DeleteOne(r) ==
  /\ op[r].at = "start"
  /\ op[r].kind = "delete"
  /\ op' = [op EXCEPT ![r].at = "remove", ![r].todo = {op[r].src}]
  /\ UNCHANGED <<folders, file, asked, spoiled>>

DeleteBegins(r) ==
  /\ op[r].at = "start"
  /\ op[r].kind = "delete"
  /\ op' = [op EXCEPT ![r].at = "remove", ![r].todo = Present(op[r].src)]
  /\ UNCHANGED <<folders, file, asked, spoiled>>

\* It goes on after a file that cannot be removed.
Remove(r, f) ==
  /\ op[r].at = "remove"
  /\ f \in op[r].todo
  /\ \/ /\ ~OpenByOther(r, f)
        /\ file' = [file EXCEPT ![f] = Nothing]
        /\ Asked({v \in {file[f]} : op[r].kind = "delete"})
        /\ op' = [op EXCEPT ![r].todo = @ \ {f}]
     \/ /\ op' = [op EXCEPT ![r].todo = @ \ {f}]
        /\ UNCHANGED <<file, asked>>
  /\ UNCHANGED <<folders, spoiled>>

\* At last it removes the folder, if that is empty by now and nobody lists it.
RemoveEnds(r) ==
  /\ op[r].at = "remove"
  /\ op[r].todo = {}
  /\ folders' = folders \ {p \in {op[r].src} : Present(p) = {} /\ ~Listed(p)}
  /\ Done(r)
  /\ UNCHANGED <<file, asked, spoiled>>

-----------------------------------------------------------------------------
(* The other commands.                                                     *)

Mkdir(r) ==
  /\ op[r].at = "start"
  /\ op[r].kind = "mkdir"
  /\ op[r].src \in Folders
  /\ folders' = folders \cup {op[r].src}
  /\ Done(r)
  /\ UNCHANGED <<file, asked, spoiled>>

WriteBegins(r) ==
  /\ op[r].at = "start"
  /\ op[r].kind = "write"
  /\ op[r].dst \in Files /\ op[r].dst[1] \in folders
  /\ Create(r, op[r].dst, Upload, [op[r] EXCEPT !.at = "writing"])
  /\ UNCHANGED <<folders, spoiled>>

WriteFile(r) ==
  /\ op[r].at = "writing"
  /\ \E v \in Closed(r, op[r].dst, Upload) : file' = [file EXCEPT ![op[r].dst] = v]
  /\ Done(r)
  /\ UNCHANGED <<folders, asked, spoiled>>

WriteFails(r) ==
  /\ op[r].at = "writing"
  /\ Done(r)
  /\ spoiled' = (spoiled \/ \E q \in Ops \ {r} : Running(q))
  /\ UNCHANGED <<folders, file, asked>>

ReadBegins(r) ==
  /\ op[r].at = "start"
  /\ op[r].kind = "read"
  /\ op[r].src \in Files /\ Exists(op[r].src)
  /\ op' = [op EXCEPT ![r].at = "reading", ![r].cur = op[r].src]
  /\ UNCHANGED <<folders, file, asked, spoiled>>

ReadFile(r) ==
  /\ op[r].at = "reading"
  /\ Done(r)
  /\ UNCHANGED <<folders, file, asked, spoiled>>

\* List reads the names first; of a file that is gone by the time its size is asked
\* for it says nothing.
ListBegins(r) ==
  /\ op[r].at = "start"
  /\ op[r].kind = "list"
  /\ op[r].src \in folders
  /\ Goto(r, "listing")
  /\ UNCHANGED <<folders, file, asked, spoiled>>

List(r) ==
  /\ op[r].at = "listing"
  /\ Done(r)
  /\ UNCHANGED <<folders, file, asked, spoiled>>

\* A write or a read that cannot open its file, a folder that cannot be created or
\* read.
Refused(r) ==
  /\ op[r].at = "start"
  /\ op[r].kind \in {"mkdir", "write", "read", "list"}
  /\ Done(r)
  /\ UNCHANGED <<folders, file, asked, spoiled>>

\* The process of the agent ends in the middle of whatever it is doing.
AgentDies ==
  /\ \E r \in Ops : Running(r)
  /\ op' = [r \in Ops |-> Idle]
  /\ UNCHANGED <<folders, file, asked, spoiled>>

-----------------------------------------------------------------------------
OpStep(r) ==
  \/ Rename(r) \/ RenameFails(r)
  \/ CopyBegins(r) \/ OpenFails(r) \/ CopyFile(r) \/ CopyFails(r) \/ Copied(r)
  \/ \E f \in Files : OpenFile(r, f) \/ Remove(r, f)
  \/ DeleteBegins(r) \/ RemoveEnds(r)
  \/ Mkdir(r) \/ WriteBegins(r) \/ WriteFile(r) \/ WriteFails(r)
  \/ ReadBegins(r) \/ ReadFile(r) \/ ListBegins(r) \/ List(r) \/ Refused(r)

FilesNext ==
  \/ \E r \in Ops : OpStep(r) \/ \E c \in Commands : Execute(r, c)
  \/ AgentDies

FilesSpec == FilesInit /\ [][FilesNext]_fileVars

-----------------------------------------------------------------------------
(* Properties.                                                             *)

OpRecord == [kind : Kinds \cup {"none"}, src : Paths \cup {Nothing},
             dst : Paths \cup {Nothing},
             at : {"idle", "start", "stat", "copy", "copying", "remove", "writing", "reading",
                   "listing"},
             todo : SUBSET Files, cur : Files \cup {Nothing}, mixed : BOOLEAN]

FilesTypeOK ==
  /\ folders \subseteq Folders
  /\ file \in [Files -> Data \cup {Upload, Nothing, Torn}]
  /\ op \in [Ops -> OpRecord]
  /\ asked \subseteq Data
  /\ spoiled \in BOOLEAN

\* Commands empty the folders in S and fill none of them: what is copied or moved
\* comes from S and goes elsewhere, uploads go elsewhere, and a rename that stays in S
\* stays in its folder, from a name to which nothing is renamed to one that is not
\* moved.  Without this, two commands destroy what neither was asked to (a file that
\* arrives in the source of a move after it was copied is removed with it).
OneWay(S) ==
  \A c \in Commands :
    /\ c.kind \in {"copy", "move"} => FolderOf(c.src) \in S /\ FolderOf(c.dst) \notin S
    /\ c.kind = "write" => FolderOf(c.dst) \notin S
    /\ c.kind = "rename" /\ FolderOf(c.dst) \in S =>
         /\ {c.src, c.dst} \subseteq Files /\ c.src[1] = c.dst[1]
         /\ \A d \in Commands : /\ d.kind = "rename" => d.dst # c.src
                                /\ d.kind = "move" => d.src # c.dst

\* A content that nobody asked to delete or to overwrite is whole in some file:
\* at every step of a move that copies, whether it succeeds, fails half-way, is
\* repeated while it still runs, or dies with its process (fsops.go:110-119), if the
\* commands are OneWay.
NoLoss ==
  ~spoiled => \A v \in Data \ asked : \E f \in Files : file[f] = v
=============================================================================
