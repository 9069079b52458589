---------------------------- MODULE SessionFile ----------------------------
(***************************************************************************)
(* FileSessionStore (src/fileee/session.go): Save writes a temporary file  *)
(* and renames it over the session file, Load reads that file; any number  *)
(* of them at once, with file system errors and crashes of processes in    *)
(* between.  A saver s always saves the session s.                         *)
(*                                                                         *)
(* The file system (external) is a directory of names for inodes: an open  *)
(* file keeps its inode when its name is replaced or removed.              *)
(***************************************************************************)
EXTENDS Naturals

CONSTANTS
  Savers,     \* goroutines, of one or more processes, that call Save
  Loaders,    \* goroutines that call Load
  Names,      \* names CreateTemp may draw
  Path,       \* the name of the session file
  Inodes,     \* inodes of the file system
  Nothing,    \* no file, no session
  Failed      \* what a Load returns that ends with an error of the file system

ASSUME FileAssumption ==
  /\ Savers \cap Loaders = {}
  /\ Path \notin Names
  /\ Nothing \notin Inodes \cup Savers \cup Names
  /\ Failed \notin Savers \cup {Nothing}
  /\ {"empty", "torn"} \cap (Savers \cup {Nothing, Failed}) = {}

VARIABLES
  dir,        \* dir[n]: the inode of name n, or Nothing
  data,       \* data[i]: what inode i holds: a session, or part of one
  pc,         \* pc[p]: where saver or loader p is
  fd,         \* fd[p]: the inode p has open
  tmp,        \* tmp[s]: the temporary name of saver s
  got,        \* got[l]: what l's last Load returned
  abandoned   \* history: the temporary names a crash or a failing Remove left

vars == <<dir, data, pc, fd, tmp, got, abandoned>>

TypeOK ==
  /\ dir \in [Names \cup {Path} -> Inodes \cup {Nothing}]
  /\ data \in [Inodes -> Savers \cup {"empty", "torn"}]
  /\ pc \in [Savers \cup Loaders ->
               {"idle", "write", "rest", "rename", "cleanup", "read"}]
  /\ fd \in [Savers \cup Loaders -> Inodes \cup {Nothing}]
  /\ tmp \in [Savers -> Names \cup {Nothing}]
  /\ got \in [Loaders -> Savers \cup {Nothing, Failed}]
  /\ abandoned \subseteq Names

Init ==
  /\ dir = [n \in Names \cup {Path} |-> Nothing]
  /\ data = [i \in Inodes |-> "empty"]
  /\ pc = [p \in Savers \cup Loaders |-> "idle"]
  /\ fd = [p \in Savers \cup Loaders |-> Nothing]
  /\ tmp = [s \in Savers |-> Nothing]
  /\ got = [l \in Loaders |-> Nothing]
  /\ abandoned = {}

Go(p, place) == pc' = [pc EXCEPT ![p] = place]

(* The inodes no name and no open file refers to; which of them a new file *)
(* gets makes no difference.                                               *)
Free == {i \in Inodes : /\ \A n \in DOMAIN dir : dir[n] # i
                        /\ \A p \in DOMAIN fd : fd[p] # i}
NewInode == CHOOSE i \in Free : TRUE

(* One temporary name for every Save.                                      *)
Faulty_CreateTemp(s) ==
  /\ pc[s] = "idle"
  /\ LET n == CHOOSE n \in Names : TRUE
         j == IF dir[n] = Nothing THEN NewInode ELSE dir[n]
     IN
       /\ dir' = [dir EXCEPT ![n] = j]
       /\ data' = [data EXCEPT ![j] = "empty"]
       /\ fd' = [fd EXCEPT ![s] = j]
       /\ tmp' = [tmp EXCEPT ![s] = n]
  /\ Go(s, "write")
  /\ UNCHANGED <<got, abandoned>>

(* os.CreateTemp: a new file under a name that does not exist.  The name's *)
(* suffix is random: that it is one another Save freed by its Rename and   *)
(* has yet to Remove (a chance of 1 in 2^32) is left out.  An error of     *)
(* MkdirAll, Marshal or CreateTemp ends Save with nothing changed: no step.*)
CreateTemp(s) ==
  /\ pc[s] = "idle"
  /\ Free # {}
  /\ \E n \in Names :
       /\ dir[n] = Nothing
       /\ \A q \in Savers : tmp[q] # n
       /\ dir' = [dir EXCEPT ![n] = NewInode]
       /\ data' = [data EXCEPT ![NewInode] = "empty"]
       /\ fd' = [fd EXCEPT ![s] = NewInode]
       /\ tmp' = [tmp EXCEPT ![s] = n]
  /\ Go(s, "write")
  /\ UNCHANGED <<got, abandoned>>

(* A short write taken for a complete one.                                 *)
Faulty_WriteSome(s) ==
  /\ pc[s] = "write"
  /\ data' = [data EXCEPT ![fd[s]] = "torn"]
  /\ Go(s, "rename")
  /\ UNCHANGED <<dir, fd, tmp, got, abandoned>>

(* Write is not one step for whoever looks at the file.                    *)
WriteSome(s) ==
  /\ pc[s] = "write"
  /\ data' = [data EXCEPT ![fd[s]] = "torn"]
  /\ Go(s, "rest")
  /\ UNCHANGED <<dir, fd, tmp, got, abandoned>>

(* The rest of Write, and Close.                                           *)
WriteRest(s) ==
  /\ pc[s] = "rest"
  /\ data' = [data EXCEPT ![fd[s]] = s]
  /\ fd' = [fd EXCEPT ![s] = Nothing]
  /\ Go(s, "rename")
  /\ UNCHANGED <<dir, tmp, got, abandoned>>

Rename(s) ==
  /\ pc[s] = "rename"
  /\ dir[tmp[s]] # Nothing
  /\ dir' = [dir EXCEPT ![Path] = dir[tmp[s]], ![tmp[s]] = Nothing]
  /\ Go(s, "cleanup")
  /\ UNCHANGED <<data, fd, tmp, got, abandoned>>

Faulty_SaveFails(s) ==
  /\ pc[s] \in {"write", "rest", "rename"}
  /\ fd' = [fd EXCEPT ![s] = Nothing]
  /\ tmp' = [tmp EXCEPT ![s] = Nothing]
  /\ Go(s, "idle")
  /\ UNCHANGED <<dir, data, got, abandoned>>

(* Chmod, Write, Close or Rename returns an error: the file is closed and  *)
(* Save is left through its deferred Remove.                               *)
SaveFails(s) ==
  /\ pc[s] \in {"write", "rest", "rename"}
  /\ fd' = [fd EXCEPT ![s] = Nothing]
  /\ Go(s, "cleanup")
  /\ UNCHANGED <<dir, data, tmp, got, abandoned>>

(* The deferred os.Remove(tmp), without effect after a successful Rename.  *)
Cleanup(s) ==
  /\ pc[s] = "cleanup"
  /\ dir' = [dir EXCEPT ![tmp[s]] = Nothing]
  /\ tmp' = [tmp EXCEPT ![s] = Nothing]
  /\ Go(s, "idle")
  /\ UNCHANGED <<data, fd, got, abandoned>>

(* That Remove fails, and nobody looks at its error.                       *)
RemoveFails(s) ==
  /\ pc[s] = "cleanup"
  /\ dir[tmp[s]] # Nothing
  /\ abandoned' = abandoned \cup {tmp[s]}
  /\ tmp' = [tmp EXCEPT ![s] = Nothing]
  /\ Go(s, "idle")
  /\ UNCHANGED <<dir, data, fd, got>>

-----------------------------------------------------------------------------

(* os.ReadFile opens the session file; without one there is no session.    *)
Open(l) ==
  /\ pc[l] = "idle"
  /\ IF dir[Path] = Nothing
     THEN /\ got' = [got EXCEPT ![l] = Nothing]
          /\ UNCHANGED <<pc, fd>>
     ELSE /\ fd' = [fd EXCEPT ![l] = dir[Path]]
          /\ Go(l, "read")
          /\ UNCHANGED got
  /\ UNCHANGED <<dir, data, tmp, abandoned>>

(* The session is what was read; anything else than a whole one does not   *)
(* decode.                                                                 *)
Read(l) ==
  /\ pc[l] = "read"
  /\ got' = [got EXCEPT ![l] = data[fd[l]]]
  /\ fd' = [fd EXCEPT ![l] = Nothing]
  /\ Go(l, "idle")
  /\ UNCHANGED <<dir, data, tmp, abandoned>>

(* The file cannot be opened or read, for another reason than that there   *)
(* is none.                                                                *)
LoadFails(l) ==
  /\ pc[l] \in {"idle", "read"}
  /\ got' = [got EXCEPT ![l] = Failed]
  /\ fd' = [fd EXCEPT ![l] = Nothing]
  /\ Go(l, "idle")
  /\ UNCHANGED <<dir, data, tmp, abandoned>>

(* The process with the goroutines in gone dies: its deferred functions do *)
(* not run, files stay, and what its loads returned is forgotten.          *)
Crash(gone) ==
  /\ abandoned' = abandoned \cup ({tmp[s] : s \in gone \cap Savers} \ {Nothing})
  /\ pc' = [p \in Savers \cup Loaders |-> IF p \in gone THEN "idle" ELSE pc[p]]
  /\ fd' = [p \in Savers \cup Loaders |-> IF p \in gone THEN Nothing ELSE fd[p]]
  /\ tmp' = [s \in Savers |-> IF s \in gone THEN Nothing ELSE tmp[s]]
  /\ got' = [l \in Loaders |-> IF l \in gone THEN Nothing ELSE got[l]]
  /\ UNCHANGED <<dir, data>>

Save(s) ==
  \/ CreateTemp(s) \/ WriteSome(s) \/ WriteRest(s) \/ Rename(s)
  \/ SaveFails(s) \/ Cleanup(s) \/ RemoveFails(s)

Next ==
  \/ \E s \in Savers : Save(s)
  \/ \E l \in Loaders : Open(l) \/ Read(l) \/ LoadFails(l)
  \/ \E gone \in SUBSET (Savers \cup Loaders) : Crash(gone)

Spec == Init /\ [][Next]_vars

-----------------------------------------------------------------------------
(* Properties.                                                             *)

(* A Save that ended, well or not, leaves no temporary file behind: only a *)
(* crash in the midst of it or its failing Remove does.                    *)
NoStrayTemps ==
  \A n \in Names :
    dir[n] # Nothing => n \in abandoned \/ \E s \in Savers : tmp[s] = n

(* Whatever savers, loaders, errors and crashes do, the session file is an *)
(* atomic store: a Load finds a complete session, the last one renamed     *)
(* when it opened the file, unless it fails, and a failed Save or a crash  *)
(* changes nothing.                                                        *)
Store == INSTANCE AtomicStore WITH
  Sessions <- Savers,
  value <- IF dir[Path] = Nothing THEN Nothing ELSE data[dir[Path]],
  last  <- [l \in Loaders |-> IF pc[l] = "read" THEN data[fd[l]] ELSE got[l]]

StoreSpec == Store!Spec

=============================================================================
