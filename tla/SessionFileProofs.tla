--------------------------- MODULE SessionFileProofs ---------------------------
(***************************************************************************)
(* Proofs about SessionFile, for any number of savers, loaders, names and  *)
(* inodes, any errors and crashes: the types, which files are left over,   *)
(* and that the session file is an atomic store.                           *)
(*                                                                         *)
(* The argument is one of ownership: the inode a saver writes to is        *)
(* reachable through its own temporary name only, so neither the session   *)
(* file nor a file a loader has open is ever written to.                   *)
(***************************************************************************)
EXTENDS SessionFile, TLAPS

(* No two names share an inode, no two savers a temporary name.            *)
Apart ==
  /\ \A m, n \in Names \cup {Path} : dir[m] = dir[n] /\ dir[m] # Nothing => m = n
  /\ \A s, q \in Savers : tmp[s] = tmp[q] /\ tmp[s] # Nothing => s = q

(* What a saver has, by its place in Save.                                 *)
Saving ==
  \A s \in Savers :
    /\ pc[s] # "read"
    /\ pc[s] = "idle" <=> tmp[s] = Nothing
    /\ pc[s] \in {"write", "rest"} => fd[s] # Nothing /\ fd[s] = dir[tmp[s]]
    /\ pc[s] \notin {"write", "rest"} => fd[s] = Nothing
    /\ pc[s] = "rename" => dir[tmp[s]] # Nothing /\ data[dir[tmp[s]]] = s

(* A loader reads a whole session, from an inode nobody writes to.         *)
Loading ==
  \A l \in Loaders :
    /\ pc[l] \in {"idle", "read"}
    /\ pc[l] = "read" =>
         /\ fd[l] # Nothing
         /\ data[fd[l]] \in Savers
         /\ \A s \in Savers : fd[s] # fd[l]

(* The session file holds a whole session.                                 *)
Whole == dir[Path] # Nothing => data[dir[Path]] \in Savers

IInv == TypeOK /\ Apart /\ Saving /\ Loading /\ Whole

-----------------------------------------------------------------------------
(* The inode of a new file is nobody's.                                    *)
LEMMA NewInodeFree ==
  ASSUME Free # {}
  PROVE  /\ NewInode \in Inodes
         /\ \A n \in DOMAIN dir : dir[n] # NewInode
         /\ \A p \in DOMAIN fd : fd[p] # NewInode
<1>1. NewInode \in Free
  BY DEF NewInode
<1> QED
  BY <1>1 DEF Free

(* What a step can be.                                                     *)
LEMMA StepCases ==
  ASSUME [Next]_vars
  PROVE  \/ \E s \in Savers : Save(s)
         \/ \E l \in Loaders : Open(l) \/ Read(l) \/ LoadFails(l)
         \/ \E gone \in SUBSET (Savers \cup Loaders) : Crash(gone)
         \/ UNCHANGED vars
BY DEF Next

(* Every step preserves the invariant.                                     *)
LEMMA IInvStep ==
  ASSUME IInv, [Next]_vars
  PROVE  IInv'
<1> USE FileAssumption DEF FileAssumption, IInv, TypeOK, Go
<1>1. ASSUME NEW s \in Savers, CreateTemp(s) PROVE IInv'
  <2>1. /\ NewInode \in Inodes
        /\ \A n \in DOMAIN dir : dir[n] # NewInode
        /\ \A p \in DOMAIN fd : fd[p] # NewInode
    BY <1>1, NewInodeFree DEF CreateTemp
  <2>2. PICK n \in Names :
          /\ dir[n] = Nothing
          /\ \A q \in Savers : tmp[q] # n
          /\ dir' = [dir EXCEPT ![n] = NewInode]
          /\ data' = [data EXCEPT ![NewInode] = "empty"]
          /\ fd' = [fd EXCEPT ![s] = NewInode]
          /\ tmp' = [tmp EXCEPT ![s] = n]
    BY <1>1 DEF CreateTemp
  <2>3. /\ pc[s] = "idle" /\ pc' = [pc EXCEPT ![s] = "write"]
        /\ UNCHANGED <<got, abandoned>>
    BY <1>1 DEF CreateTemp
  <2>4. n # Path /\ NewInode # Nothing /\ n # Nothing
    BY <2>1, <2>2
  <2>5. TypeOK'
    BY <2>1, <2>2, <2>3
  <2>6. Apart'
    BY <2>1, <2>2, <2>3, <2>4 DEF Apart
  <2>7. Saving'
    BY <2>1, <2>2, <2>3, <2>4 DEF Apart, Saving
  <2>8. Loading'
    BY <2>1, <2>2, <2>3, <2>4 DEF Loading
  <2>9. Whole'
    BY <2>1, <2>2, <2>3, <2>4 DEF Whole
  <2> QED
    BY <2>5, <2>6, <2>7, <2>8, <2>9
<1>2. ASSUME NEW s \in Savers, WriteSome(s) PROVE IInv'
  <2>1. TypeOK' /\ Apart'
    BY <1>2 DEF WriteSome, Apart, Saving
  <2>2. Saving'
    BY <1>2 DEF WriteSome, Apart, Saving
  <2>3. Loading' /\ Whole'
    BY <1>2 DEF WriteSome, Apart, Saving, Loading, Whole
  <2> QED
    BY <2>1, <2>2, <2>3
<1>3. ASSUME NEW s \in Savers, WriteRest(s) PROVE IInv'
  <2>1. TypeOK' /\ Apart'
    BY <1>3 DEF WriteRest, Apart, Saving
  <2>2. Saving'
    BY <1>3 DEF WriteRest, Apart, Saving
  <2>3. Loading' /\ Whole'
    BY <1>3 DEF WriteRest, Apart, Saving, Loading, Whole
  <2> QED
    BY <2>1, <2>2, <2>3
<1>4. ASSUME NEW s \in Savers, Rename(s) PROVE IInv'
  <2>1. tmp[s] \in Names /\ tmp[s] # Path
    BY <1>4 DEF Rename, Saving
  <2>2. TypeOK' /\ Apart'
    BY <1>4, <2>1 DEF Rename, Apart
  <2>3. Saving'
    BY <1>4, <2>1 DEF Rename, Apart, Saving
  <2>4. Loading' /\ Whole'
    BY <1>4, <2>1 DEF Rename, Saving, Loading, Whole
  <2> QED
    BY <2>2, <2>3, <2>4
<1>5. ASSUME NEW s \in Savers, SaveFails(s) PROVE IInv'
  <2>1. TypeOK' /\ Apart' /\ Whole'
    BY <1>5 DEF SaveFails, Apart, Whole
  <2>2. Saving'
    BY <1>5 DEF SaveFails, Saving
  <2>3. Loading'
    BY <1>5 DEF SaveFails, Loading
  <2> QED
    BY <2>1, <2>2, <2>3
<1>6. ASSUME NEW s \in Savers, Cleanup(s) PROVE IInv'
  <2>1. tmp[s] \in Names /\ tmp[s] # Path
    BY <1>6 DEF Cleanup, Saving
  <2>2. TypeOK' /\ Apart' /\ Whole'
    BY <1>6, <2>1 DEF Cleanup, Apart, Whole
  <2>3. Saving'
    BY <1>6, <2>1 DEF Cleanup, Apart, Saving
  <2>4. Loading'
    BY <1>6, <2>1 DEF Cleanup, Loading
  <2> QED
    BY <2>2, <2>3, <2>4
<1>7. ASSUME NEW l \in Loaders, Open(l) PROVE IInv'
  <2>1. TypeOK' /\ Apart' /\ Whole'
    BY <1>7 DEF Open, Apart, Whole
  <2>2. Saving'
    BY <1>7 DEF Open, Saving
  <2>3. \A s \in Savers : dir[Path] # Nothing => fd[s] # dir[Path]
    BY DEF Apart, Saving
  <2>4. Loading'
    BY <1>7, <2>3 DEF Open, Loading, Whole
  <2> QED
    BY <2>1, <2>2, <2>4
<1>8. ASSUME NEW l \in Loaders, Read(l) PROVE IInv'
  <2>1. TypeOK' /\ Apart' /\ Whole'
    BY <1>8 DEF Read, Apart, Whole, Loading
  <2>2. Saving' /\ Loading'
    BY <1>8 DEF Read, Saving, Loading
  <2> QED
    BY <2>1, <2>2
<1>9. ASSUME NEW s \in Savers, RemoveFails(s) PROVE IInv'
  <2>1. tmp[s] \in Names
    BY <1>9 DEF RemoveFails, Saving
  <2>2. TypeOK' /\ Apart' /\ Whole'
    BY <1>9, <2>1 DEF RemoveFails, Apart, Whole
  <2>3. Saving'
    BY <1>9 DEF RemoveFails, Apart, Saving
  <2>4. Loading'
    BY <1>9 DEF RemoveFails, Loading
  <2> QED
    BY <2>2, <2>3, <2>4
<1>10. ASSUME NEW l \in Loaders, LoadFails(l) PROVE IInv'
  <2>1. TypeOK' /\ Apart' /\ Whole'
    BY <1>10 DEF LoadFails, Apart, Whole
  <2>2. Saving' /\ Loading'
    BY <1>10 DEF LoadFails, Saving, Loading
  <2> QED
    BY <2>1, <2>2
<1>11. ASSUME NEW gone \in SUBSET (Savers \cup Loaders), Crash(gone) PROVE IInv'
  <2>1. TypeOK' /\ Apart' /\ Whole'
    BY <1>11 DEF Crash, Apart, Whole
  <2>2. Saving' /\ Loading'
    BY <1>11 DEF Crash, Saving, Loading
  <2> QED
    BY <2>1, <2>2
<1>12. CASE UNCHANGED vars
  BY <1>12 DEF vars, Apart, Saving, Loading, Whole
<1> QED
  BY <1>1, <1>2, <1>3, <1>4, <1>5, <1>6, <1>7, <1>8, <1>9, <1>10, <1>11, <1>12, StepCases
  DEF Save

(* IInv is an invariant of every instance.                                 *)
THEOREM Invariance == Spec => []IInv
<1>1. Init => IInv
  BY FileAssumption DEF FileAssumption, Init, IInv, TypeOK, Apart, Saving, Loading, Whole
<1>2. IInv /\ [Next]_vars => IInv'
  BY IInvStep
<1> QED
  BY <1>1, <1>2, PTL DEF Spec

(* Whatever savers and loaders do, the variables keep their types: in      *)
(* particular every Load returns a whole session.                          *)
THEOREM TypeCorrect == Spec => []TypeOK
<1>1. IInv => TypeOK
  BY DEF IInv
<1> QED
  BY <1>1, Invariance, PTL

(* Every temporary file belongs to a running Save, or was left by a crash  *)
(* or by a Remove that failed.                                             *)
THEOREM NoLeftovers == Spec => []NoStrayTemps
<1>1. Init => NoStrayTemps
  BY FileAssumption DEF FileAssumption, Init, NoStrayTemps
<1>2. ASSUME IInv, NoStrayTemps, [Next]_vars PROVE NoStrayTemps'
  <2> USE <1>2, FileAssumption DEF FileAssumption, IInv, TypeOK, NoStrayTemps, Go
  <2>1. ASSUME NEW s \in Savers, CreateTemp(s) PROVE NoStrayTemps'
    BY <2>1 DEF CreateTemp, Saving
  <2>2. ASSUME NEW s \in Savers, WriteSome(s) \/ WriteRest(s) \/ SaveFails(s)
        PROVE NoStrayTemps'
    BY <2>2 DEF WriteSome, WriteRest, SaveFails
  <2>3. ASSUME NEW s \in Savers, Rename(s) PROVE NoStrayTemps'
    BY <2>3 DEF Rename, Saving
  <2>4. ASSUME NEW s \in Savers, Cleanup(s) PROVE NoStrayTemps'
    BY <2>4 DEF Cleanup, Saving
  <2>5. ASSUME NEW s \in Savers, RemoveFails(s) PROVE NoStrayTemps'
    BY <2>5 DEF RemoveFails
  <2>6. ASSUME NEW l \in Loaders, Open(l) \/ Read(l) \/ LoadFails(l)
        PROVE NoStrayTemps'
    BY <2>6 DEF Open, Read, LoadFails
  <2>7. ASSUME NEW gone \in SUBSET (Savers \cup Loaders), Crash(gone)
        PROVE NoStrayTemps'
    BY <2>7 DEF Crash
  <2>8. CASE UNCHANGED vars
    BY <2>8 DEF vars
  <2> QED
    BY <2>1, <2>2, <2>3, <2>4, <2>5, <2>6, <2>7, <2>8, StepCases DEF Save
<1>3. IInv /\ NoStrayTemps /\ [Next]_vars => NoStrayTemps'
  BY <1>2
<1> QED
  BY <1>1, <1>3, Invariance, PTL DEF Spec

-----------------------------------------------------------------------------
(* The refinement: what the store holds, and what each loader found.       *)
Value == IF dir[Path] = Nothing THEN Nothing ELSE data[dir[Path]]
Found == [l \in Loaders |-> IF pc[l] = "read" THEN data[fd[l]] ELSE got[l]]

(* A step that leaves the session file, the loaders and what they read     *)
(* alone is a stutter of the store.                                        *)
LEMMA Stutter ==
  ASSUME dir'[Path] = dir[Path],
         dir[Path] # Nothing => data'[dir[Path]] = data[dir[Path]],
         \A l \in Loaders : pc'[l] = pc[l] /\ fd'[l] = fd[l],
         \A l \in Loaders : pc[l] = "read" => data'[fd[l]] = data[fd[l]],
         got' = got
  PROVE  UNCHANGED <<Value, Found>>
BY DEF Value, Found

(* Nobody writes to the session file or to a file a loader has open.       *)
LEMMA NotWritten ==
  ASSUME IInv, NEW s \in Savers, pc[s] \in {"write", "rest"}
  PROVE  /\ dir[Path] # fd[s]
         /\ \A l \in Loaders : pc[l] = "read" => fd[l] # fd[s]
<1>1. tmp[s] \in Names /\ tmp[s] # Path /\ fd[s] # Nothing /\ fd[s] = dir[tmp[s]]
  BY FileAssumption DEF FileAssumption, IInv, TypeOK, Saving
<1>2. dir[Path] # fd[s]
  BY <1>1 DEF IInv, Apart
<1> QED
  BY <1>2 DEF IInv, Loading

(* Every step is one of the store's, or a stutter: Rename is its Save,     *)
(* opening the file its Load, a crash its Crash.                           *)
LEMMA StoreStep ==
  ASSUME IInv, [Next]_vars
  PROVE  Store!Next \/ UNCHANGED <<Value, Found>>
<1> USE FileAssumption DEF FileAssumption, IInv, TypeOK, Go
<1>1. ASSUME NEW s \in Savers, CreateTemp(s) PROVE UNCHANGED <<Value, Found>>
  <2>1. /\ NewInode \in Inodes
        /\ \A n \in DOMAIN dir : dir[n] # NewInode
        /\ \A p \in DOMAIN fd : fd[p] # NewInode
    BY <1>1, NewInodeFree DEF CreateTemp
  <2>2. /\ dir'[Path] = dir[Path]
        /\ dir[Path] # Nothing => data'[dir[Path]] = data[dir[Path]]
    BY <1>1, <2>1 DEF CreateTemp
  <2>3. \A l \in Loaders : pc'[l] = pc[l] /\ fd'[l] = fd[l]
    BY <1>1 DEF CreateTemp
  <2>4. \A l \in Loaders : pc[l] = "read" => data'[fd[l]] = data[fd[l]]
    BY <1>1, <2>1 DEF CreateTemp, Loading
  <2> QED
    BY <1>1, <2>2, <2>3, <2>4, Stutter DEF CreateTemp
<1>2. ASSUME NEW s \in Savers, WriteSome(s) \/ WriteRest(s)
      PROVE  UNCHANGED <<Value, Found>>
  <2>1. /\ dir[Path] # fd[s]
        /\ \A l \in Loaders : pc[l] = "read" => fd[l] # fd[s]
    BY <1>2, NotWritten DEF WriteSome, WriteRest
  <2>2. /\ dir'[Path] = dir[Path]
        /\ dir[Path] # Nothing => data'[dir[Path]] = data[dir[Path]]
    BY <1>2, <2>1 DEF WriteSome, WriteRest
  <2>3. \A l \in Loaders : pc'[l] = pc[l] /\ fd'[l] = fd[l]
    BY <1>2 DEF WriteSome, WriteRest
  <2>4. \A l \in Loaders : pc[l] = "read" => data'[fd[l]] = data[fd[l]]
    BY <1>2, <2>1 DEF WriteSome, WriteRest, Loading
  <2> QED
    BY <1>2, <2>2, <2>3, <2>4, Stutter DEF WriteSome, WriteRest
<1>3. ASSUME NEW s \in Savers, Rename(s) PROVE Store!Save(s)
  <2>1. tmp[s] \in Names /\ tmp[s] # Path
    BY <1>3 DEF Rename, Saving
  <2>2. dir'[Path] # Nothing /\ data'[dir'[Path]] = s
    BY <1>3, <2>1 DEF Rename, Saving
  <2>3. Value' = s
    BY <2>2 DEF Value
  <2>4. Found' = Found
    BY <1>3 DEF Rename, Found
  <2> QED
    BY <2>3, <2>4 DEF Store!Save, Value, Found
<1>4. ASSUME NEW s \in Savers, SaveFails(s) \/ Cleanup(s) \/ RemoveFails(s)
      PROVE  UNCHANGED <<Value, Found>>
  <2>1. tmp[s] \in Names /\ tmp[s] # Path
    BY <1>4 DEF SaveFails, Cleanup, RemoveFails, Saving
  <2>2. dir'[Path] = dir[Path] /\ data' = data
    BY <1>4, <2>1 DEF SaveFails, Cleanup, RemoveFails
  <2>3. \A l \in Loaders : pc'[l] = pc[l] /\ fd'[l] = fd[l]
    BY <1>4 DEF SaveFails, Cleanup, RemoveFails
  <2> QED
    BY <1>4, <2>2, <2>3, Stutter DEF SaveFails, Cleanup, RemoveFails
<1>5. ASSUME NEW l \in Loaders, Open(l) PROVE Store!Load(l)
  <2>1. Value' = Value
    BY <1>5 DEF Open, Value
  <2>2. Found' = [Found EXCEPT ![l] = Value]
    BY <1>5 DEF Open, Value, Found
  <2> QED
    BY <2>1, <2>2 DEF Store!Load, Value, Found
<1>6. ASSUME NEW l \in Loaders, Read(l) PROVE UNCHANGED <<Value, Found>>
  BY <1>6 DEF Read, Value, Found
<1>7. ASSUME NEW l \in Loaders, LoadFails(l) PROVE Store!LoadFails(l)
  <2>1. Value' = Value
    BY <1>7 DEF LoadFails, Value
  <2>2. Found' = [Found EXCEPT ![l] = Failed]
    BY <1>7 DEF LoadFails, Found
  <2> QED
    BY <2>1, <2>2 DEF Store!LoadFails, Value, Found
<1>8. ASSUME NEW gone \in SUBSET (Savers \cup Loaders), Crash(gone)
      PROVE  Store!Crash(gone \cap Loaders)
  BY <1>8 DEF Crash, Store!Crash
<1>9. CASE UNCHANGED vars
  BY <1>9 DEF vars, Value, Found
<1>10. ASSUME NEW gone \in SUBSET (Savers \cup Loaders), Crash(gone)
      PROVE  Store!Next
  <2>1. gone \cap Loaders \in SUBSET Loaders
    OBVIOUS
  <2> QED
    BY <1>8, <1>10, <2>1 DEF Store!Next
<1> QED
  BY <1>1, <1>2, <1>3, <1>4, <1>5, <1>6, <1>7, <1>9, <1>10, StepCases
  DEF Save, Store!Next

(* FileSessionStore is an atomic store, whatever fails and whenever a      *)
(* process dies.                                                           *)
THEOREM ImplementsStore == Spec => StoreSpec
<1>1. Init => Store!Init
  BY FileAssumption DEF FileAssumption, Init, Store!Init
<1>2. IInv /\ [Next]_vars => [Store!Next]_(Store!vars)
  BY StoreStep DEF Store!vars, Value, Found
<1> QED
  BY <1>1, <1>2, Invariance, PTL DEF Spec, StoreSpec, Store!Spec

=============================================================================
