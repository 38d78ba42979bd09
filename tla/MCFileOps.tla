----------------------------- MODULE MCFileOps -----------------------------
(* A small instance of FileOps: f1 and f3 on one volume, f2 on another.    *)
EXTENDS FileOps

CONSTANTS f1, f2, f3, a, b

Command(kind, p, q) == [kind |-> kind, src |-> p, dst |-> q]

\* A folder is moved, to the other volume and within its own, copied, renamed in,
\* read from, listed, uploaded to and deleted; any two of these at once, any one again.
MCCommands ==
  {Command("move", f1, f2), Command("rename", f1, f3),
   Command("rename", <<f1, a>>, <<f1, b>>), Command("move", <<f1, a>>, <<f3, b>>),
   Command("copy", <<f1, a>>, <<f2, b>>), Command("read", <<f1, a>>, Nothing),
   Command("write", Nothing, <<f2, a>>), Command("mkdir", f3, Nothing),
   Command("list", f1, Nothing), Command("delete", f2, Nothing)}

ASSUME FromF1 == OneWay({f1})

\* Both contents are in f1.
MCInit == FilesInit /\ folders = {f1} /\ \A n \in Names : file[<<f1, n>>] # Nothing
MCSpec == MCInit /\ [][FilesNext]_fileVars
=============================================================================
