--------------------------- MODULE HybridCacheProofs ---------------------------
(***************************************************************************)
(* Proofs about HybridCache, for any number of checkouts, files and runs,  *)
(* and every finite set of keys: types and links, that an entry which a    *)
(* Check accepts is complete, and that an executed or downloaded task has  *)
(* the outputs of its inputs.                                              *)
(***************************************************************************)
EXTENDS HybridCache, FiniteSetTheorems, TLAPS

(* What the disk has of one file, and the links that one inode has.         *)
Inode == [ino : 0 .. Cardinality(Place), val : Vals]
Disk  == [Place -> Inode]
Linked(d) ==
    /\ \A p, q \in Place : d[p].ino = d[q].ino => d[p].val = d[q].val
    /\ \A p \in Place : d[p].ino = 0 => d[p].val = None

DiskInv ==
    /\ disk \in [Host -> [File -> Disk]]
    /\ \A h \in Host, f \in File : Linked(disk[h][f])

Saving == {"save", "link", "ask", "upload", "put", "write", "seal"}

Delivered(h) == \A f \in File : Val(h, f, Project) = input[h]

(* A file that was downloaded, which a bucket of files may have truncated.  *)
Got(h, f) == Val(h, f, Project) = input[h] \/ (Files /\ Val(h, f, Project) = Broken)

(* What a process has done so far of its save, and of its restore.          *)
SaveOf(h) ==
    /\ pc[h] \in Saving => Delivered(h)
    /\ pc[h] = "link" =>
         /\ input[h] \in dir[h]
         /\ \A f \in File : f \in todo[h] \/ Val(h, f, input[h]) # None
    /\ pc[h] \in {"upload", "put", "write"} => \A f \in File :
         IF f \in todo[h] THEN held[h][f] \in {None, input[h]}
         ELSE held[h][f] = input[h] /\ <<f, input[h]>> \in blobs
    /\ pc[h] = "upload" => \A f \in todo[h] : held[h][f] = None
    /\ pc[h] \in {"put", "write"} => \A e, f \in todo[h] :
         held[h][e] # None /\ held[h][f] # None => e = f
    /\ pc[h] = "write" => \A f \in todo[h] :
         held[h][f] # None => <<f, input[h]>> \in blobs
RestoreOf(h) ==
    /\ pc[h] = "fetch" => manifest[input[h]] # NoManifest
    /\ pc[h] = "remote" => \A f \in File :
         /\ f \in todo[h] \/ Got(h, f)
         /\ held[h][f] = input[h] /\ <<f, input[h]>> \in blobs
    /\ last[h] = "executed" => pc[h] \in Saving \cup {"idle"} /\ Delivered(h)
    /\ last[h] = "remote" => pc[h] = "idle" /\ \A f \in File : Got(h, f)
ProcInv == \A h \in Host : SaveOf(h) /\ RestoreOf(h)

(* Something half written is in a bucket of files, and before the first     *)
(* fault it is what the process that opened it is at.                       *)
HalfInv ==
    /\ \A o \in halfBlobs :
         /\ Files
         /\ \/ faults > 0
            \/ /\ pc[o[2]] = "write"
               /\ \E f \in todo[o[2]] : held[o[2]][f] # None /\ o[1] = <<f, held[o[2]][f]>>
    /\ \A o \in halfManifests :
         Files /\ (faults > 0 \/ (pc[o[2]] = "seal" /\ o[1] = input[o[2]]))

(* The types of all but the disk.                                           *)
PCs == {"idle", "local", "copy", "fetch", "remote", "exec"} \cup Saving

TypeInv ==
    /\ cfg \in [strategy : {"local-first", "remote-first"}, fallback : BOOLEAN,
                bucket : {"objects", "files"}]
    /\ input \in [Host -> Key]
    /\ meta \in [Host -> [Key -> {"none", "marker", "outputs", "left"}]]
    /\ dir \in [Host -> SUBSET Key]
    /\ \A h \in Host, k \in Key : meta[h][k] = "outputs" => k \in dir[h]
    /\ blobs \subseteq File \X Key
    /\ manifest \in [Key -> [File -> Vals]] /\ held \in [Host -> [File -> Vals]]
    /\ halfBlobs \subseteq blobs \X Host /\ halfManifests \subseteq Key \X Host
    /\ pc \in [Host -> PCs]
    /\ todo \in [Host -> SUBSET File]
    /\ last \in [Host -> {"none", "local", "remote", "executed", "failed"}]
    /\ runs \in 0 .. MaxRuns /\ faults \in 0 .. MaxFaults

LocalComplete ==
    \A h \in Host, k \in Key : meta[h][k] = "outputs" =>
        \A f \in File : Val(h, f, k) # None
RemoteComplete ==
    \A k \in Key : manifest[k] # NoManifest =>
        \A f \in File : manifest[k][f] = k /\ <<f, k>> \in blobs

IInv == TypeInv /\ DiskInv /\ LocalComplete /\ RemoteComplete /\ ProcInv /\ HalfInv

USE DEF vars, vlocal, vremote, vproc, vbound, Goto, End, At, Fault, NoFault,
        Local, Remote, LocalFirst, RestoreLocal, RestoreRemote, Execute, Drop, PCs, Saving

--------------------------------------------------------------------------------
(* The places, and the values that stand for no content.                    *)
LEMMA Places ==
    /\ Project \in Place /\ Key \subseteq Place /\ Project \notin Key
    /\ None \notin Key /\ Broken \notin Key /\ None # Broken
    /\ IsFiniteSet(Place) /\ Cardinality(Place) \in Nat
<1>1. IsFiniteSet(Place)
  BY FS_AddElement, HybridCacheAssumption, Key \cup {Project} = Place DEF Place
<1>2. Cardinality(Place) \in Nat
  BY <1>1, FS_CardinalityType
<1> QED
  BY <1>1, <1>2, PlaceAssumption DEF Place, None, Broken

(* There is an inode for a file that does not exist: the others need less   *)
(* than there are.                                                          *)
LEMMA FreshInode ==
    ASSUME NEW d \in Disk, NEW p \in Place, d[p].ino = 0
    PROVE  \E i \in 1 .. Cardinality(Place) : \A q \in Place : d[q].ino # i
<1> DEFINE n == Cardinality(Place)
<1> SUFFICES ASSUME \A i \in 1 .. n : \E q \in Place : d[q].ino = i
             PROVE  FALSE
  OBVIOUS
<1> DEFINE f == [i \in 1 .. n |-> CHOOSE q \in Place : d[q].ino = i]
<1>1. \A i \in 1 .. n : f[i] \in Place \ {p} /\ d[f[i]].ino = i
  OBVIOUS
<1>2. n \in Nat /\ IsFiniteSet(Place \ {p}) /\ Cardinality(Place \ {p}) = n - 1
  BY Places, FS_RemoveElement
<1>3. IsFiniteSet(1 .. n) /\ Cardinality(1 .. n) = n
  BY <1>2, FS_Interval
<1>4. f \in [1 .. n -> Place \ {p}]
  BY <1>1
<1> HIDE DEF f
<1>5. \E x, y \in 1 .. n : x # y /\ f[x] = f[y]
  BY <1>2, <1>3, <1>4, FS_PigeonHole
<1> QED
  BY <1>1, <1>5

(* Writing into a file gives its content to every link of it and to nothing *)
(* else.                                                                    *)
LEMMA Writing ==
    ASSUME NEW d \in Disk, Linked(d), NEW p \in Place, NEW v \in Vals \ {None}
    PROVE  /\ WriteInto(d, p, v) \in Disk
           /\ Linked(WriteInto(d, p, v))
           /\ WriteInto(d, p, v)[p].val = v
           /\ \A q \in Place : d[q].val # None => WriteInto(d, p, v)[q].val # None
<1> DEFINE new == CHOOSE i \in 1 .. Cardinality(Place) : \A q \in Place : d[q].ino # i
<1>1. CASE d[p].ino = 0
  <2>1. new \in 1 .. Cardinality(Place) /\ \A q \in Place : d[q].ino # new
    BY <1>1, FreshInode
  <2>2. WriteInto(d, p, v) = [d EXCEPT ![p] = [ino |-> new, val |-> v]]
    BY <1>1 DEF WriteInto
  <2>3. [ino |-> new, val |-> v] \in Inode
    BY <2>1, Places DEF Inode
  <2> HIDE DEF new
  <2>4. WriteInto(d, p, v) \in Disk
    BY <2>2, <2>3 DEF Disk
  <2>5. \A q \in Place : WriteInto(d, p, v)[q] =
            IF q = p THEN [ino |-> new, val |-> v] ELSE d[q]
    BY <2>2 DEF Disk
  <2> QED
    BY <2>1, <2>4, <2>5, Places DEF Linked
<1>2. CASE d[p].ino # 0
  <2>1. WriteInto(d, p, v) =
            [q \in Place |-> IF d[q].ino = d[p].ino THEN [d[q] EXCEPT !.val = v] ELSE d[q]]
    BY <1>2 DEF WriteInto
  <2>2. \A q \in Place : [d[q] EXCEPT !.val = v] \in Inode
                         /\ [d[q] EXCEPT !.val = v].ino = d[q].ino
                         /\ [d[q] EXCEPT !.val = v].val = v
    BY DEF Disk, Inode
  <2>3. WriteInto(d, p, v) \in Disk
    BY <2>1, <2>2 DEF Disk
  <2>4. \A q \in Place :
            /\ WriteInto(d, p, v)[q].ino = d[q].ino
            /\ WriteInto(d, p, v)[q].val = IF d[q].ino = d[p].ino THEN v ELSE d[q].val
    BY <2>1, <2>2
  <2> QED
    BY <1>2, <2>3, <2>4 DEF Linked
<1> QED
  BY <1>1, <1>2

(* Removing a file, and linking one place to another.                       *)
LEMMA Linking ==
    ASSUME NEW d \in Disk, Linked(d), NEW p \in Place, NEW q \in Place
    PROVE  /\ Remove(d, p) \in Disk /\ Linked(Remove(d, p))
           /\ \A r \in Place \ {p} : Remove(d, p)[r] = d[r]
           /\ CopyFile(d, p, q) \in Disk /\ Linked(CopyFile(d, p, q))
           /\ CopyFile(d, p, q)[q] = d[p]
           /\ \A r \in Place \ {q} : CopyFile(d, p, q)[r] = d[r]
<1>1. Absent \in Inode /\ Absent.ino = 0 /\ Absent.val = None
  BY Places DEF Absent, Inode, Vals
<1>2. /\ Remove(d, p) \in Disk
      /\ \A r \in Place : Remove(d, p)[r] = IF r = p THEN Absent ELSE d[r]
  BY <1>1 DEF Remove, Disk
<1>3. /\ CopyFile(d, p, q) \in Disk
      /\ \A r \in Place : CopyFile(d, p, q)[r] = IF r = q THEN d[p] ELSE d[r]
  BY DEF CopyFile, Disk
<1>4. Linked(Remove(d, p))
  BY <1>1, <1>2 DEF Linked, Disk, Inode
<1>5. Linked(CopyFile(d, p, q))
  BY <1>3 DEF Linked
<1> QED
  BY <1>2, <1>3, <1>4, <1>5












--------------------------------------------------------------------------------
(* A checkout writes one of its files, or all of them.                      *)
LEMMA OneFile ==
    ASSUME DiskInv, NEW h \in Host, NEW f \in File, NEW d \in Disk, Linked(d),
           OnDisk(h, f, d)
    PROVE  /\ DiskInv'
           /\ \A g \in Host, e \in File :
                disk'[g][e] = IF g = h /\ e = f THEN d ELSE disk[g][e]
  BY DEF DiskInv, OnDisk

(* The same for all of its files at once.                                   *)
LEMMA AllFiles ==
    ASSUME DiskInv, NEW h \in Host, NEW D \in [File -> Disk],
           \A f \in File : Linked(D[f]), disk' = [disk EXCEPT ![h] = D]
    PROVE  /\ DiskInv'
           /\ \A g \in Host, e \in File :
                disk'[g][e] = IF g = h THEN D[e] ELSE disk[g][e]
  BY DEF DiskInv

(* What a broken download leaves: nothing is lost, nor is any other         *)
(* checkout touched.                                                        *)
LEMMA Half ==
    ASSUME TypeInv, DiskInv, NEW h \in Host, HalfWritten(h)
    PROVE  /\ DiskInv'
           /\ \A g \in Host, e \in File, p \in Place :
                /\ g # h => disk'[g][e] = disk[g][e]
                /\ disk[g][e][p].val # None => disk'[g][e][p].val # None
           /\ pc[h] # "remote" => disk' = disk
<1>1. CASE UNCHANGED disk
  BY <1>1 DEF DiskInv
<1>2. ASSUME pc[h] = "remote", NEW f \in todo[h],
             OnDisk(h, f, WriteInto(disk[h][f], Project, Broken))
      PROVE  /\ DiskInv'
             /\ \A g \in Host, e \in File, p \in Place :
                  /\ g # h => disk'[g][e] = disk[g][e]
                  /\ disk[g][e][p].val # None => disk'[g][e][p].val # None
  <2>1. f \in File /\ disk[h][f] \in Disk /\ Linked(disk[h][f]) /\ Broken \in Vals \ {None}
    BY Places DEF TypeInv, DiskInv, Vals
  <2> DEFINE d == WriteInto(disk[h][f], Project, Broken)
  <2>2. d \in Disk /\ Linked(d)
        /\ \A p \in Place : disk[h][f][p].val # None => d[p].val # None
    BY <2>1, Writing, Places
  <2>3. OnDisk(h, f, d)
    BY <1>2
  <2> HIDE DEF d
  <2> QED BY <2>1, <2>2, <2>3, OneFile
<1> QED
  BY <1>1, <1>2 DEF HalfWritten

(* What an execution leaves that writes the files in S.                     *)
LEMMA Executing ==
    ASSUME TypeInv, DiskInv, NEW h \in Host, NEW S \in SUBSET File, NEW into \in BOOLEAN,
           Written(h, S, into)
    PROVE  /\ DiskInv'
           /\ \A g \in Host, e \in File :
                /\ g # h => disk'[g][e] = disk[g][e]
                /\ e \in S => disk'[h][e][Project].val = input[h]
                /\ \A k \in Key : disk[g][e][k].val # None => disk'[g][e][k].val # None
<1> DEFINE from(f) == IF into THEN disk[h][f] ELSE Remove(disk[h][f], Project)
           D == [f \in File |-> IF f \notin S THEN disk[h][f]
                                ELSE WriteInto(from(f), Project, input[h])]
<1>1. \A f \in File : disk[h][f] \in Disk /\ Linked(disk[h][f])
  BY DEF DiskInv
<1>2. input[h] \in Vals \ {None}
  BY Places DEF TypeInv, Vals
<1>3. ASSUME NEW f \in File
      PROVE  /\ from(f) \in Disk /\ Linked(from(f))
             /\ \A k \in Key : from(f)[k] = disk[h][f][k]
  <2> DEFINE r == Remove(disk[h][f], Project)
  <2>1. r \in Disk /\ Linked(r) /\ \A k \in Key : r[k] = disk[h][f][k]
    <3>1. Project \in Place
      BY Places
    <3>2. r \in Disk /\ Linked(r) /\ \A k \in Place \ {Project} : r[k] = disk[h][f][k]
      BY <1>1, <3>1, Linking
    <3> HIDE DEF r
    <3> QED BY <3>2, Places
  <2>2. from(f) = disk[h][f] \/ from(f) = r
    OBVIOUS
  <2> HIDE DEF r, from
  <2> QED BY <1>1, <2>1, <2>2
<1> HIDE DEF from
<1>4. ASSUME NEW f \in File
      PROVE  /\ D[f] \in Disk /\ Linked(D[f])
             /\ f \in S => D[f][Project].val = input[h]
             /\ \A k \in Key : disk[h][f][k].val # None => D[f][k].val # None
  <2>1. CASE f \notin S
    BY <1>1, <2>1
  <2>2. CASE f \in S
    <3>1. D[f] = WriteInto(from(f), Project, input[h])
      BY <2>2
    <3> QED BY <1>2, <1>3, <3>1, Writing, Places
  <2> QED BY <2>1, <2>2
<1>5. disk' = [disk EXCEPT ![h] = D]
  BY DEF Written, from
<1> HIDE DEF D
<1>6. D \in [File -> Disk]
  BY <1>4 DEF D
<1>7. /\ DiskInv'
      /\ \A g \in Host, e \in File :
           disk'[g][e] = IF g = h THEN D[e] ELSE disk[g][e]
  <2>1. \A f \in File : Linked(D[f]) BY <1>4
  <2> QED BY <2>1, <1>5, <1>6, AllFiles
<1> QED
  BY <1>4, <1>7

(* Removing outputs leaves the entries, clearing the entries the outputs.   *)
LEMMA Cleaning ==
    ASSUME DiskInv, NEW h \in Host, NEW S \in SUBSET File, Clean(h, S)
    PROVE  /\ DiskInv'
           /\ \A g \in Host, e \in File :
                /\ g # h => disk'[g][e] = disk[g][e]
                /\ \A k \in Key : disk'[g][e][k] = disk[g][e][k]
<1> DEFINE D == [f \in File |-> IF f \in S THEN Remove(disk[h][f], Project)
                                ELSE disk[h][f]]
<1>1. \A f \in File : disk[h][f] \in Disk /\ Linked(disk[h][f])
  BY DEF DiskInv
<1>2. ASSUME NEW f \in File
      PROVE  D[f] \in Disk /\ Linked(D[f]) /\ \A k \in Key : D[f][k] = disk[h][f][k]
  <2> DEFINE r == Remove(disk[h][f], Project)
  <2>1. r \in Disk /\ Linked(r) /\ \A k \in Key : r[k] = disk[h][f][k]
    <3>1. Project \in Place
      BY Places
    <3>2. r \in Disk /\ Linked(r) /\ \A k \in Place \ {Project} : r[k] = disk[h][f][k]
      BY <1>1, <3>1, Linking
    <3> HIDE DEF r
    <3> QED BY <3>2, Places
  <2>2. D[f] = disk[h][f] \/ D[f] = r
    OBVIOUS
  <2> HIDE DEF r, D
  <2> QED BY <1>1, <2>1, <2>2
<1>3. disk' = [disk EXCEPT ![h] = D]
  BY DEF Clean
<1> HIDE DEF D
<1>4. D \in [File -> Disk]
  BY <1>2 DEF D
<1>5. /\ DiskInv'
      /\ \A g \in Host, e \in File :
           disk'[g][e] = IF g = h THEN D[e] ELSE disk[g][e]
  <2>1. \A f \in File : Linked(D[f]) BY <1>2
  <2> QED BY <2>1, <1>3, <1>4, AllFiles
<1> QED
  BY <1>2, <1>5

(* Removing entries leaves the outputs, the other entries and the other     *)
(* checkouts alone.                                                         *)
LEMMA Removing ==
    ASSUME DiskInv, NEW h \in Host, NEW G \in SUBSET Key, NEW k \in Key,
           NEW S \in SUBSET File, Removed(h, G, k, S)
    PROVE  /\ DiskInv'
           /\ \A g \in Host, e \in File :
                /\ g # h => disk'[g][e] = disk[g][e]
                /\ disk'[g][e][Project] = disk[g][e][Project]
                /\ \A j \in Key : j \notin G \cup {k} => disk'[g][e][j] = disk[g][e][j]
<1> DEFINE D == [f \in File |-> [p \in Place |->
                    IF p \in G \/ (p = k /\ f \in S) THEN Absent ELSE disk[h][f][p]]]
<1>1. \A f \in File : disk[h][f] \in Disk /\ Linked(disk[h][f])
  BY DEF DiskInv
<1>2. Absent \in Inode /\ Absent.ino = 0 /\ Absent.val = None
  BY Places DEF Absent, Inode, Vals
<1>3. \A f \in File : D[f] \in Disk
  BY <1>1, <1>2 DEF Disk
<1>4. \A f \in File : Linked(D[f])
  BY <1>1, <1>2 DEF Linked, Disk
<1>5. disk' = [disk EXCEPT ![h] = D]
  BY DEF Removed
<1>6. \A f \in File : /\ D[f][Project] = disk[h][f][Project]
                      /\ \A j \in Key : j \notin G \cup {k} => D[f][j] = disk[h][f][j]
  BY Places
<1> HIDE DEF D
<1>7. D \in [File -> Disk]
  BY <1>3 DEF D
<1>8. /\ DiskInv'
      /\ \A g \in Host, e \in File :
           disk'[g][e] = IF g = h THEN D[e] ELSE disk[g][e]
  BY <1>4, <1>5, <1>7, AllFiles
<1> QED
  BY <1>6, <1>8

--------------------------------------------------------------------------------
(* The invariant holds at the start, when there is no file.                 *)
LEMMA InitInv == Init => IInv
<1> SUFFICES ASSUME Init PROVE IInv
  OBVIOUS
<1>1. Absent \in Inode /\ Absent.ino = 0 /\ Absent.val = None
  BY Places DEF Absent, Inode, Vals
<1>2. DiskInv
  BY <1>1 DEF Init, DiskInv, Disk, Linked
<1>3. NoManifest \in [File -> Vals]
  BY DEF NoManifest, Vals
<1>4. TypeInv
  BY <1>3, HybridCacheAssumption DEF Init, TypeInv
<1>5. LocalComplete /\ RemoteComplete /\ ProcInv /\ HalfInv
  BY DEF Init, LocalComplete, RemoteComplete, ProcInv, SaveOf, RestoreOf, HalfInv
<1> QED
  BY <1>2, <1>4, <1>5 DEF IInv

(* The links of a disk stay coherent in every step.                         *)
LEMMA DiskStep == IInv /\ [Next]_vars => DiskInv'
<1> SUFFICES ASSUME IInv, [Next]_vars PROVE DiskInv'
  OBVIOUS
<1> USE DEF IInv, TypeInv, DiskInv
<1>1. ASSUME NEW h \in Host, Check(h) PROVE DiskInv'
  BY <1>1 DEF Check, CheckLocalFirst, CheckRemoteFirst
<1>2. ASSUME NEW h \in Host, OpenLocal(h) PROVE DiskInv'
  BY <1>2 DEF OpenLocal
<1>3. ASSUME NEW h \in Host, RestoreFile(h) PROVE DiskInv'
  <2>1. CASE UNCHANGED disk
    BY <2>1
  <2>2. ASSUME NEW f \in File, OnDisk(h, f, CopyFile(disk[h][f], input[h], Project))
        PROVE  DiskInv'
    BY <2>2, Linking, OneFile, Places
  <2> QED BY <1>3, <2>1, <2>2 DEF RestoreFile
<1>4. ASSUME NEW h \in Host, DownloadFile(h) PROVE DiskInv'
  <2>1. PICK f \in todo[h], v \in Vals \ {None} :
             OnDisk(h, f, WriteInto(disk[h][f], Project, v))
    BY <1>4, Places DEF DownloadFile, Vals
  <2> QED BY <2>1, Writing, OneFile, Places
<1>5. ASSUME NEW h \in Host, RestoreFails(h) PROVE DiskInv'
  BY <1>5, Half DEF RestoreFails
<1>6. ASSUME NEW h \in Host, WarmLocal(h) PROVE DiskInv'
  BY <1>6 DEF WarmLocal
<1>7. ASSUME NEW h \in Host, Exec(h) PROVE DiskInv'
  <2>1. PICK into \in BOOLEAN, S \in SUBSET File : Written(h, S, into)
    BY <1>7 DEF Exec
  <2>2. TypeInv /\ DiskInv
    OBVIOUS
  <2> HIDE DEF TypeInv, DiskInv
  <2> QED BY <2>1, <2>2, Executing
<1>8. ASSUME NEW h \in Host, OpenSave(h) PROVE DiskInv'
  BY <1>8 DEF OpenSave, AfterLocal
<1>9. ASSUME NEW h \in Host, SaveFile(h) PROVE DiskInv'
  <2>1. PICK f \in todo[h] : OnDisk(h, f, CopyFile(disk[h][f], Project, input[h]))
    BY <1>9 DEF SaveFile
  <2> QED BY <2>1, Linking, OneFile, Places
<1>10. ASSUME NEW h \in Host, SaveMetadata(h) PROVE DiskInv'
  BY <1>10 DEF SaveMetadata, SetMetadata, AfterLocal
<1>11. ASSUME NEW h \in Host, AskRemote(h) PROVE DiskInv'
  BY <1>11 DEF AskRemote, AfterRemote
<1>12. ASSUME NEW h \in Host, OfferFile(h) PROVE DiskInv'
  BY <1>12 DEF OfferFile
<1>13. ASSUME NEW h \in Host, UploadFails(h) PROVE DiskInv'
  BY <1>13 DEF UploadFails
<1>14. ASSUME NEW h \in Host, PutManifest(h) PROVE DiskInv'
  BY <1>14 DEF PutManifest, AfterRemote
<1>15. ASSUME NEW h \in Host, Crash(h) PROVE DiskInv'
  BY <1>15, Half DEF Crash
<1>16. ASSUME NEW h \in Host, Clear(h) PROVE DiskInv'
  BY <1>16, Removing DEF Clear, Between
<1>17. ASSUME NEW h \in Host, NEW k \in Key, Edit(h, k) PROVE DiskInv'
  BY <1>17 DEF Edit, Between
<1>18. ASSUME NEW h \in Host, NEW S \in SUBSET File, Clean(h, S) PROVE DiskInv'
  BY <1>18, Cleaning
<1>19. ASSUME NEW h \in Host, FetchManifest(h) PROVE DiskInv'
  BY <1>19 DEF FetchManifest
<1>20. ASSUME NEW h \in Host, PutBlob(h) PROVE DiskInv'
  BY <1>20 DEF PutBlob
<1>21. ASSUME NEW h \in Host, WriteBlob(h) PROVE DiskInv'
  BY <1>21 DEF WriteBlob
<1>22. ASSUME NEW h \in Host, WriteManifest(h) PROVE DiskInv'
  BY <1>22 DEF WriteManifest
<1>23. ASSUME NEW h \in Host, NEW G \in SUBSET Key, NEW k \in Key, NEW S \in SUBSET File,
             NEW D \in BOOLEAN, NEW M \in BOOLEAN, ClearDies(h, G, k, S, D, M)
       PROVE  DiskInv'
  BY <1>23, Removing DEF ClearDies
<1>24. CASE UNCHANGED vars
  BY <1>24
<1>25. ASSUME NEW h \in Host, User(h) PROVE DiskInv'
  <2> HIDE DEF IInv, TypeInv, DiskInv
  <2> QED BY <1>16, <1>17, <1>18, <1>23, <1>25, Zenon DEF User
<1> QED
  BY <1>1, <1>2, <1>3, <1>4, <1>5, <1>6, <1>7, <1>8, <1>9, <1>10, <1>11, <1>12,
     <1>13, <1>14, <1>15, <1>19, <1>20, <1>21, <1>22, <1>24, <1>25
     DEF Next, Restore, Save

(* Where a process goes, with which files to handle.                        *)
ControlType ==
    /\ pc \in [Host -> PCs] /\ todo \in [Host -> SUBSET File]
    /\ last \in [Host -> {"none", "local", "remote", "executed", "failed"}]

(* A move of a process to a known place keeps the types of its control.     *)
LEMMA Going ==
    ASSUME TypeInv, NEW h \in Host, NEW l \in PCs, NEW S \in SUBSET File, Goto(h, l, S),
           \/ UNCHANGED last
           \/ \E w \in {"none", "local", "remote"} : last' = [last EXCEPT ![h] = w]
    PROVE  ControlType'
<1>1. pc' \in [Host -> PCs]
  BY DEF TypeInv
<1>2. todo' \in [Host -> SUBSET File]
  BY DEF TypeInv
<1>3. last' \in [Host -> {"none", "local", "remote", "executed", "failed"}]
  BY DEF TypeInv
<1> QED BY <1>1, <1>2, <1>3 DEF ControlType

(* The types of all but the disk, step by step.                             *)
LEMMA TypeStep == IInv /\ [Next]_vars => TypeInv'
<1> SUFFICES ASSUME IInv, [Next]_vars PROVE TypeInv'
  OBVIOUS
<1> USE HybridCacheAssumption, Places DEF IInv, TypeInv
<1>0. ASSUME NEW h \in Host, Drop(h) PROVE held' \in [Host -> [File -> Vals]]
  BY <1>0 DEF NoManifest, Vals
<1>1. ASSUME NEW h \in Host, Check(h) PROVE TypeInv'
  <2>1. Check(h)
    BY <1>1
  <2>2. runs' \in 0 .. MaxRuns /\ faults' \in 0 .. MaxFaults
    BY <2>1 DEF Check, CheckLocalFirst, CheckRemoteFirst
  <2>3. PICK l \in PCs, S \in SUBSET File : Goto(h, l, S)
    BY <2>1 DEF Check, CheckLocalFirst, CheckRemoteFirst, PCs
  <2>4. ControlType'
    BY <2>1, <2>3, Going DEF Check
  <2> QED BY <2>1, <2>2, <2>4 DEF Check, ControlType, PCs
<1>2. ASSUME NEW h \in Host, OpenLocal(h) PROVE TypeInv'
  <2>1. PICK l \in PCs, S \in SUBSET File :
             Goto(h, l, S) /\ (UNCHANGED last \/ last' = [last EXCEPT ![h] = "local"])
    BY <1>2 DEF OpenLocal, PCs
  <2>2. ControlType'
    BY <2>1, Going
  <2> QED BY <1>2, <2>2 DEF OpenLocal, ControlType, PCs
<1>3. ASSUME NEW h \in Host, RestoreFile(h) PROVE TypeInv'
  <2>1. PICK l \in PCs, S \in SUBSET File :
             Goto(h, l, S) /\ (UNCHANGED last \/ last' = [last EXCEPT ![h] = "local"])
    BY <1>3 DEF RestoreFile, PCs
  <2>2. ControlType'
    BY <2>1, Going
  <2> QED BY <1>3, <2>2 DEF RestoreFile, ControlType, PCs
<1>4. ASSUME NEW h \in Host, DownloadFile(h) PROVE TypeInv'
  BY <1>4 DEF DownloadFile
<1>5. ASSUME NEW h \in Host, RestoreFails(h) PROVE TypeInv'
  <2>1. PICK l \in PCs : Goto(h, l, {})
    BY <1>5 DEF RestoreFails, PCs
  <2>2. ControlType'
    <3>1. UNCHANGED last /\ {} \in SUBSET File
      BY <1>5 DEF RestoreFails
    <3> QED BY <2>1, <3>1, Going
  <2>3. faults' \in 0 .. MaxFaults
    BY <1>5 DEF RestoreFails
  <2> QED BY <1>0, <1>5, <2>2, <2>3 DEF RestoreFails, ControlType
<1>6. ASSUME NEW h \in Host, WarmLocal(h) PROVE TypeInv'
  <2>1. ControlType'
    BY <1>6 DEF WarmLocal, ControlType, PCs
  <2>2. /\ meta' \in [Host -> [Key -> {"none", "marker", "outputs", "left"}]]
        /\ \A g \in Host, j \in Key : meta'[g][j] = "outputs" => meta[g][j] = "outputs"
    BY <1>6 DEF WarmLocal
  <2>3. dir' \in [Host -> SUBSET Key] /\ \A g \in Host : dir[g] \subseteq dir'[g]
    <3> DEFINE D == IF Local(h) THEN dir[h] ELSE dir[h] \cup {input[h]}
    <3>1. dir' = [dir EXCEPT ![h] = D]
      BY <1>6 DEF WarmLocal
    <3>2. D \in SUBSET Key /\ dir[h] \subseteq D
      OBVIOUS
    <3> HIDE DEF D
    <3>3. \A g \in Host : dir'[g] = IF g = h THEN D ELSE dir[g]
      BY <3>1
    <3> QED BY <3>1, <3>2, <3>3
  <2> QED BY <1>0, <1>6, <2>1, <2>2, <2>3 DEF WarmLocal, ControlType
<1>7. ASSUME NEW h \in Host, Exec(h) PROVE TypeInv'
  BY <1>7 DEF Exec, Written
<1>8. ASSUME NEW h \in Host, OpenSave(h) PROVE TypeInv'
  <2>1. PICK l \in PCs, S \in SUBSET File : Goto(h, l, S)
    BY <1>8 DEF OpenSave, AfterLocal, PCs
  <2>2. ControlType'
    BY <1>8, <2>1, Going DEF OpenSave
  <2>3. dir' \in [Host -> SUBSET Key] /\ \A g \in Host : dir[g] \subseteq dir'[g]
    <3>1. dir' = [dir EXCEPT ![h] = dir[h] \cup {input[h]}] \/ dir' = dir
      BY <1>8 DEF OpenSave
    <3>2. dir[h] \cup {input[h]} \in SUBSET Key
      OBVIOUS
    <3>3. CASE dir' = [dir EXCEPT ![h] = dir[h] \cup {input[h]}]
      <4>1. \A g \in Host : dir'[g] = IF g = h THEN dir[h] \cup {input[h]} ELSE dir[g]
        BY <3>3
      <4>2. dir' \in [Host -> SUBSET Key]
        BY <3>2, <3>3
      <4> QED BY <4>1, <4>2
    <3> QED BY <3>1, <3>3
  <2> QED BY <1>8, <2>2, <2>3 DEF OpenSave, ControlType, PCs
<1>9. ASSUME NEW h \in Host, SaveFile(h) PROVE TypeInv'
  BY <1>9 DEF SaveFile
<1>10. ASSUME NEW h \in Host, SaveMetadata(h) PROVE TypeInv'
  <2>1. PICK l \in PCs : Goto(h, l, {})
    BY <1>10 DEF SaveMetadata, SetMetadata, AfterLocal, PCs
  <2>2. ControlType'
    BY <1>10, <2>1, Going DEF SaveMetadata, SetMetadata
  <2>3. meta' = [meta EXCEPT ![h][input[h]] = "outputs"] /\ input[h] \in dir[h]
    BY <1>10 DEF SaveMetadata, SetMetadata, ProcInv, SaveOf
  <2>4. /\ meta' \in [Host -> [Key -> {"none", "marker", "outputs", "left"}]]
        /\ \A g \in Host, k \in Key :
             meta'[g][k] = IF g = h /\ k = input[h] THEN "outputs" ELSE meta[g][k]
    BY <2>3
  <2> QED BY <1>10, <2>2, <2>3, <2>4 DEF SaveMetadata, SetMetadata, ControlType, PCs
<1>11. ASSUME NEW h \in Host, AskRemote(h) PROVE TypeInv'
  <2>1. PICK l \in PCs, S \in SUBSET File : Goto(h, l, S)
    BY <1>11 DEF AskRemote, AfterRemote, PCs
  <2>2. ControlType'
    BY <1>11, <2>1, Going DEF AskRemote
  <2>3. held' \in [Host -> [File -> Vals]]
    BY <1>0, <1>11 DEF AskRemote
  <2>4. faults' \in 0 .. MaxFaults
    BY <1>11 DEF AskRemote
  <2> QED BY <1>11, <2>2, <2>3, <2>4 DEF AskRemote, ControlType, PCs
<1>12. ASSUME NEW h \in Host, OfferFile(h) PROVE TypeInv'
  <2>1. PICK f \in todo[h] :
             /\ held' = [held EXCEPT ![h][f] = Val(h, f, Project)]
             /\ \/ Goto(h, "upload", todo[h] \ {f})
                \/ Goto(h, "put", todo[h])
    BY <1>12 DEF OfferFile
  <2>5. todo[h] \ {f} \in SUBSET File /\ {"upload", "put"} \subseteq PCs
    BY DEF PCs, Saving
  <2>2. ControlType'
    <3>1. todo[h] \in SUBSET File /\ UNCHANGED last
      BY <1>12 DEF OfferFile
    <3>2. CASE Goto(h, "upload", todo[h] \ {f})
      BY <2>5, <3>1, <3>2, Going
    <3>3. CASE Goto(h, "put", todo[h])
      BY <2>5, <3>1, <3>3, Going
    <3> QED BY <2>1, <3>2, <3>3
  <2>3. f \in File /\ Val(h, f, Project) = input[h]
    BY <1>12 DEF OfferFile, ProcInv, SaveOf, Delivered
  <2>4. held' \in [Host -> [File -> Vals]]
    BY <2>1, <2>3 DEF Vals
  <2> QED BY <1>12, <2>2, <2>4 DEF OfferFile, ControlType
<1>13. ASSUME NEW h \in Host, UploadFails(h) PROVE TypeInv'
  <2>1. PICK l \in PCs : Goto(h, l, {})
    BY <1>13 DEF UploadFails, PCs
  <2>2. ControlType'
    <3>1. UNCHANGED last /\ {} \in SUBSET File
      BY <1>13 DEF UploadFails
    <3> QED BY <2>1, <3>1, Going
  <2>3. faults' \in 0 .. MaxFaults
    BY <1>13 DEF UploadFails
  <2> QED BY <1>0, <1>13, <2>2, <2>3 DEF UploadFails, ControlType
<1>14. ASSUME NEW h \in Host, PutManifest(h) PROVE TypeInv'
  <2>1. PICK l \in PCs : Goto(h, l, {})
    BY <1>14 DEF PutManifest, AfterRemote
  <2>2. ControlType'
    BY <1>14, <2>1, Going DEF PutManifest
  <2>3. halfManifests' \subseteq Key \X Host
    BY <1>14 DEF PutManifest, Opened
  <2>4. manifest' \in [Key -> [File -> Vals]]
    BY <1>14 DEF PutManifest
  <2> QED BY <1>0, <1>14, <2>2, <2>3, <2>4 DEF PutManifest, ControlType
<1>15. ASSUME NEW h \in Host, Crash(h) PROVE TypeInv'
  <2>1. ControlType'
    BY <1>15 DEF Crash, ControlType
  <2>2. /\ meta' \in [Host -> [Key -> {"none", "marker", "outputs", "left"}]]
        /\ \A g \in Host, j \in Key : meta'[g][j] = "outputs" => meta[g][j] = "outputs"
    <3>1. CASE UNCHANGED meta
      BY <3>1
    <3>2. CASE meta' = [meta EXCEPT ![h][input[h]] = "marker"]
      BY <3>2
    <3> QED BY <1>15, <3>1, <3>2 DEF Crash
  <2>3. faults' \in 0 .. MaxFaults /\ UNCHANGED <<cfg, input, dir, vremote, runs>> /\ Drop(h)
    BY <1>15 DEF Crash
  <2> QED BY <1>0, <2>1, <2>2, <2>3 DEF ControlType
<1>16. ASSUME NEW h \in Host, Clear(h) PROVE TypeInv'
  BY <1>16 DEF Clear, Between
<1>17. ASSUME NEW h \in Host, NEW k \in Key, Edit(h, k) PROVE TypeInv'
  BY <1>17 DEF Edit, Between
<1>18. ASSUME NEW h \in Host, NEW S \in SUBSET File, Clean(h, S) PROVE TypeInv'
  BY <1>18 DEF Clean, Between
<1>19. ASSUME NEW h \in Host, FetchManifest(h) PROVE TypeInv'
  <2> DEFINE S == {f \in File : manifest[input[h]][f] # None}
  <2>1. S \in SUBSET File /\ Goto(h, "remote", S) /\ UNCHANGED last
    BY <1>19 DEF FetchManifest
  <2> HIDE DEF S
  <2>2. ControlType'
    <3>1. "remote" \in PCs
      BY DEF PCs
    <3> QED BY <2>1, <3>1, Going
  <2> QED BY <1>19, <2>2 DEF FetchManifest, ControlType
<1>20. ASSUME NEW h \in Host, PutBlob(h) PROVE TypeInv'
  <2>1. PICK f \in todo[h] :
             /\ held[h][f] # None
             /\ blobs' = blobs \cup {<<f, held[h][f]>>}
             /\ \/ /\ halfBlobs' = Opened(halfBlobs, <<f, held[h][f]>>, h)
                   /\ Goto(h, "write", todo[h])
                \/ UNCHANGED halfBlobs /\ Goto(h, "upload", todo[h] \ {f})
    BY <1>20 DEF PutBlob
  <2>2. ControlType'
    <3>1. todo[h] \ {f} \in SUBSET File /\ {"upload", "write"} \subseteq PCs
      BY DEF PCs, Saving
    <3>2. todo[h] \in SUBSET File /\ UNCHANGED last
      BY <1>20 DEF PutBlob
    <3>3. CASE Goto(h, "upload", todo[h] \ {f})
      BY <3>1, <3>2, <3>3, Going
    <3>4. CASE Goto(h, "write", todo[h])
      BY <3>1, <3>2, <3>4, Going
    <3> QED BY <2>1, <3>3, <3>4
  <2>3. held[h][f] = input[h]
    BY <1>20, <2>1 DEF PutBlob, ProcInv, SaveOf
  <2>4. blobs' \subseteq File \X Key /\ halfBlobs' \subseteq blobs' \X Host
    BY <2>1, <2>3 DEF Opened
  <2> QED BY <1>20, <2>2, <2>4 DEF PutBlob, ControlType
<1>21. ASSUME NEW h \in Host, WriteBlob(h) PROVE TypeInv'
  <2>1. PICK S \in SUBSET File : Goto(h, "upload", S)
    BY <1>21 DEF WriteBlob
  <2>2. ControlType'
    BY <1>21, <2>1, Going DEF WriteBlob
  <2> QED BY <1>21, <2>2 DEF WriteBlob, ControlType, Closed
<1>22. ASSUME NEW h \in Host, WriteManifest(h) PROVE TypeInv'
  <2>1. PICK l \in PCs, S \in SUBSET File : Goto(h, l, S)
    BY <1>22 DEF WriteManifest, AfterRemote, PCs
  <2>2. ControlType'
    BY <1>22, <2>1, Going DEF WriteManifest
  <2> QED BY <1>22, <2>2 DEF WriteManifest, ControlType, Closed
<1>23. ASSUME NEW h \in Host, NEW G \in SUBSET Key, NEW k \in Key, NEW S \in SUBSET File,
             NEW D \in BOOLEAN, NEW M \in BOOLEAN, ClearDies(h, G, k, S, D, M)
       PROVE  TypeInv'
  <2>1. ControlType' /\ faults' \in 0 .. MaxFaults
    BY <1>23 DEF ClearDies, Between, ControlType
  <2>2. /\ meta' \in [Host -> [Key -> {"none", "marker", "outputs", "left"}]]
        /\ \A g \in Host, j \in Key : meta'[g][j] = "outputs" =>
             meta[g][j] = "outputs" /\ (g = h => j \notin G \cup {k})
    BY <1>23 DEF ClearDies
  <2>3. /\ dir' \in [Host -> SUBSET Key]
        /\ \A g \in Host, j \in Key :
             j \in dir[g] /\ (g = h => j \notin G \cup {k}) => j \in dir'[g]
    BY <1>23 DEF ClearDies
  <2> QED BY <1>23, <2>1, <2>2, <2>3 DEF ClearDies, Between, ControlType
<1>24. CASE UNCHANGED vars
  BY <1>24
<1>25. ASSUME NEW h \in Host, User(h) PROVE TypeInv'
  <2> HIDE DEF IInv, TypeInv
  <2>1. CASE \E G \in SUBSET Key, k \in Key, S \in SUBSET File, D, M \in BOOLEAN :
                ClearDies(h, G, k, S, D, M)
    <3>1. PICK G \in SUBSET Key, k \in Key, S \in SUBSET File :
                \E D, M \in BOOLEAN : ClearDies(h, G, k, S, D, M)
      BY <2>1
    <3>2. PICK D \in BOOLEAN : \E M \in BOOLEAN : ClearDies(h, G, k, S, D, M)
      BY <3>1
    <3>3. PICK M \in BOOLEAN : ClearDies(h, G, k, S, D, M)
      BY <3>2
    <3> QED BY <1>23, <3>3
  <2>2. CASE Clear(h) \/ (\E k \in Key : Edit(h, k)) \/ \E S \in SUBSET File : Clean(h, S)
    BY <1>16, <1>17, <1>18, <2>2
  <2> QED BY <1>25, <2>1, <2>2 DEF User
<1> QED
  BY <1>1, <1>2, <1>3, <1>4, <1>5, <1>6, <1>7, <1>8, <1>9, <1>10, <1>11, <1>12,
     <1>13, <1>14, <1>15, <1>19, <1>20, <1>21, <1>22, <1>24, <1>25
     DEF Next, Restore, Save

--------------------------------------------------------------------------------
(* What the steps that restore a file and that save one do to the disk.     *)
LEMMA Restoring ==
    ASSUME TypeInv, DiskInv, NEW h \in Host, RestoreFile(h)
    PROVE  \A g \in Host, e \in File :
             /\ g # h => disk'[g][e] = disk[g][e]
             /\ \A k \in Key : disk'[g][e][k] = disk[g][e][k]
<1>1. CASE UNCHANGED disk
  BY <1>1
<1>2. ASSUME NEW f \in File, OnDisk(h, f, CopyFile(disk[h][f], input[h], Project))
      PROVE  \A g \in Host, e \in File :
               /\ g # h => disk'[g][e] = disk[g][e]
               /\ \A k \in Key : disk'[g][e][k] = disk[g][e][k]
  <2> DEFINE d == CopyFile(disk[h][f], input[h], Project)
  <2>1. disk[h][f] \in Disk /\ Linked(disk[h][f]) /\ input[h] \in Place
    BY Places DEF TypeInv, DiskInv
  <2>2. d \in Disk /\ Linked(d) /\ \A k \in Place \ {Project} : d[k] = disk[h][f][k]
    BY <2>1, Linking, Places
  <2>3. OnDisk(h, f, d)
    BY <1>2
  <2> HIDE DEF d
  <2>4. \A g \in Host, e \in File :
            disk'[g][e] = IF g = h /\ e = f THEN d ELSE disk[g][e]
    BY <2>2, <2>3, OneFile
  <2> QED BY <2>2, <2>4, Places
<1> QED
  BY <1>1, <1>2 DEF RestoreFile, TypeInv

(* A download writes the content of the key, unless the blob is half        *)
(* written, and no link in the cache goes.                                  *)
LEMMA Downloading ==
    ASSUME TypeInv, DiskInv, ProcInv, HalfInv, NEW h \in Host, DownloadFile(h)
    PROVE  \E f \in todo[h] :
             /\ Goto(h, "remote", todo[h] \ {f})
             /\ Got(h, f)'
             /\ \A g \in Host, e \in File :
                  /\ g # h \/ e # f => disk'[g][e] = disk[g][e]
                  /\ \A k \in Key : disk[g][e][k].val # None => disk'[g][e][k].val # None
<1>1. PICK f \in todo[h] :
        LET v == IF Whole(halfBlobs, <<f, held[h][f]>>) THEN held[h][f] ELSE Broken
        IN  /\ OnDisk(h, f, WriteInto(disk[h][f], Project, v))
            /\ Goto(h, "remote", todo[h] \ {f})
            /\ UNCHANGED <<cfg, input>>
  BY DEF DownloadFile
<1> DEFINE v == IF Whole(halfBlobs, <<f, held[h][f]>>) THEN held[h][f] ELSE Broken
<1>2. f \in File /\ input[h] \in Key /\ held[h][f] = input[h]
  BY <1>1 DEF TypeInv, DownloadFile, ProcInv, RestoreOf
<1>3. v = input[h] \/ (v = Broken /\ Files)
  BY <1>1, <1>2 DEF Whole, HalfInv
<1> DEFINE d == WriteInto(disk[h][f], Project, v)
<1>5. disk[h][f] \in Disk /\ Linked(disk[h][f]) /\ v \in Vals \ {None}
  BY <1>2, <1>3, Places DEF DiskInv, Vals
<1>6. /\ d \in Disk /\ Linked(d) /\ d[Project].val = v
      /\ \A k \in Key : disk[h][f][k].val # None => d[k].val # None
  BY <1>5, Writing, Places
<1>7. OnDisk(h, f, d)
  BY <1>1
<1> HIDE DEF d
<1>8. \A g \in Host, e \in File : disk'[g][e] = IF g = h /\ e = f THEN d ELSE disk[g][e]
  BY <1>2, <1>6, <1>7, OneFile
<1>9. Got(h, f)'
  BY <1>1, <1>2, <1>3, <1>6, <1>8 DEF Got, Val, Files
<1>10. \A g \in Host, e \in File :
          /\ g # h \/ e # f => disk'[g][e] = disk[g][e]
          /\ \A k \in Key : disk[g][e][k].val # None => disk'[g][e][k].val # None
  BY <1>6, <1>8
<1> HIDE DEF Goto
<1> QED
  BY <1>1, <1>9, <1>10

(* A file saved is a link to the file of the checkout.                      *)
LEMMA SavingFile ==
    ASSUME TypeInv, DiskInv, NEW h \in Host, SaveFile(h)
    PROVE  \E f \in todo[h] :
             /\ Goto(h, "link", todo[h] \ {f})
             /\ disk'[h][f][input[h]] = disk[h][f][Project]
             /\ \A g \in Host, e \in File, p \in Place :
                  g # h \/ e # f \/ p # input[h] => disk'[g][e][p] = disk[g][e][p]
             /\ \A g \in Host, e \in File : g # h => disk'[g][e] = disk[g][e]
<1>1. PICK f \in todo[h] :
        /\ OnDisk(h, f, CopyFile(disk[h][f], Project, input[h]))
        /\ Goto(h, "link", todo[h] \ {f})
  BY DEF SaveFile
<1> DEFINE d == CopyFile(disk[h][f], Project, input[h])
<1>2. /\ f \in File /\ input[h] \in Place
      /\ disk[h][f] \in Disk /\ Linked(disk[h][f])
  BY Places DEF TypeInv, DiskInv
<1>3. /\ d \in Disk /\ Linked(d) /\ d[input[h]] = disk[h][f][Project]
      /\ \A p \in Place \ {input[h]} : d[p] = disk[h][f][p]
  BY <1>2, Linking, Places
<1>4. OnDisk(h, f, d)
  BY <1>1
<1> HIDE DEF d
<1>5. \A g \in Host, e \in File : disk'[g][e] = IF g = h /\ e = f THEN d ELSE disk[g][e]
  BY <1>2, <1>3, <1>4, OneFile
<1>6. disk'[h][f][input[h]] = disk[h][f][Project]
  BY <1>2, <1>3, <1>5
<1>7. \A g \in Host, e \in File, p \in Place :
         g # h \/ e # f \/ p # input[h] => disk'[g][e][p] = disk[g][e][p]
  BY <1>3, <1>5
<1>8. \A g \in Host, e \in File : g # h => disk'[g][e] = disk[g][e]
  BY <1>5
<1> HIDE DEF Goto
<1> QED
  BY <1>1, <1>6, <1>7, <1>8

(* An entry of outputs stays complete when no link in the cache is lost.    *)
LEMMA Kept ==
    ASSUME LocalComplete, TypeInv,
           \A g \in Host, k \in Key : meta'[g][k] = "outputs" => meta[g][k] = "outputs",
           \A g \in Host, e \in File, k \in Key :
             disk[g][e][k].val # None => disk'[g][e][k].val # None
    PROVE  LocalComplete'
  BY DEF LocalComplete, Val

(* A step of one checkout leaves the process of another, its files and what *)
(* is in the bucket alone.                                                  *)
Frame(h) ==
    /\ UNCHANGED cfg /\ blobs \subseteq blobs'
    /\ \A k \in Key : manifest[k] # NoManifest => manifest'[k] # NoManifest
    /\ \A g \in Host \ {h} :
         /\ pc'[g] = pc[g] /\ todo'[g] = todo[g] /\ last'[g] = last[g]
         /\ input'[g] = input[g] /\ dir'[g] = dir[g] /\ held'[g] = held[g]
         /\ \A e \in File : disk'[g][e] = disk[g][e]

(* So such a step needs only be looked at for its own process.             *)
LEMMA Others ==
    ASSUME TypeInv, ProcInv, NEW h \in Host, Frame(h), SaveOf(h)', RestoreOf(h)'
    PROVE  ProcInv'
<1> SUFFICES ASSUME NEW g \in Host \ {h} PROVE SaveOf(g)' /\ RestoreOf(g)'
  BY DEF ProcInv
<1>1. SaveOf(g) /\ RestoreOf(g)
  BY DEF ProcInv
<1>2. /\ Delivered(g)' <=> Delivered(g)
      /\ \A f \in File : Got(g, f)' <=> Got(g, f)
  BY DEF Delivered, Got, Val, Frame, Files
<1>3. SaveOf(g)'
  BY <1>1, <1>2 DEF SaveOf, Val, Frame
<1>4. RestoreOf(g)'
  BY <1>1, <1>2 DEF RestoreOf, Frame, TypeInv
<1> QED
  BY <1>3, <1>4

(* An entry of outputs gets its metadata last, and no step loses its files. *)
LEMMA LocalStep == IInv /\ [Next]_vars => LocalComplete'
<1> SUFFICES ASSUME IInv, [Next]_vars PROVE LocalComplete'
  OBVIOUS
<1> USE DEF IInv
<1>1. ASSUME NEW h \in Host, Check(h) PROVE LocalComplete'
  BY <1>1, Kept DEF Check
<1>2. ASSUME NEW h \in Host, OpenLocal(h) PROVE LocalComplete'
  BY <1>2, Kept DEF OpenLocal
<1>3. ASSUME NEW h \in Host, RestoreFile(h) PROVE LocalComplete'
  <2>1. UNCHANGED meta
    BY <1>3 DEF RestoreFile
  <2>2. \A g \in Host, e \in File, k \in Key :
            disk[g][e][k].val # None => disk'[g][e][k].val # None
    BY <1>3, Restoring
  <2> QED BY <2>1, <2>2, Kept
<1>4. ASSUME NEW h \in Host, DownloadFile(h) PROVE LocalComplete'
  <2>1. UNCHANGED meta
    BY <1>4 DEF DownloadFile
  <2>2. \A g \in Host, e \in File, k \in Key :
            disk[g][e][k].val # None => disk'[g][e][k].val # None
    BY <1>4, Downloading
  <2> QED BY <2>1, <2>2, Kept
<1>5. ASSUME NEW h \in Host, RestoreFails(h) PROVE LocalComplete'
  <2>1. UNCHANGED meta
    BY <1>5 DEF RestoreFails
  <2>2. \A g \in Host, e \in File, k \in Key :
            disk[g][e][k].val # None => disk'[g][e][k].val # None
    BY <1>5, Half, Places DEF RestoreFails
  <2> QED BY <2>1, <2>2, Kept
<1>6. ASSUME NEW h \in Host, WarmLocal(h) PROVE LocalComplete'
  <2>1. UNCHANGED disk
    BY <1>6 DEF WarmLocal
  <2>2. \A g \in Host, k \in Key :
            meta'[g][k] = IF g = h /\ k = input[h] /\ meta[g][k] = "none" THEN "marker"
                          ELSE meta[g][k]
    BY <1>6 DEF WarmLocal, TypeInv
  <2>3. \A g \in Host, k \in Key : meta'[g][k] = "outputs" => meta[g][k] = "outputs"
    BY <2>2
  <2> QED BY <2>1, <2>3, Kept
<1>7. ASSUME NEW h \in Host, Exec(h) PROVE LocalComplete'
  <2>1. PICK into \in BOOLEAN, S \in SUBSET File : Written(h, S, into)
    BY <1>7 DEF Exec
  <2>2. UNCHANGED meta
    BY <1>7 DEF Exec
  <2> QED BY <2>1, <2>2, Executing, Kept
<1>8. ASSUME NEW h \in Host, OpenSave(h) PROVE LocalComplete'
  BY <1>8, Kept DEF OpenSave
<1>9. ASSUME NEW h \in Host, SaveFile(h) PROVE LocalComplete'
  <2>1. UNCHANGED meta /\ Delivered(h) /\ input[h] # None
    BY <1>9, Places DEF SaveFile, ProcInv, SaveOf, TypeInv
  <2>2. \A g \in Host, e \in File, k \in Key :
            disk[g][e][k].val # None => disk'[g][e][k].val # None
    <3>1. PICK f \in todo[h] :
             /\ disk'[h][f][input[h]] = disk[h][f][Project]
             /\ \A g \in Host, e \in File, p \in Place :
                  g # h \/ e # f \/ p # input[h] => disk'[g][e][p] = disk[g][e][p]
      BY <1>9, SavingFile
    <3>2. disk[h][f][Project].val # None
      BY <2>1 DEF Delivered, Val, TypeInv
    <3> QED BY <3>1, <3>2, Places
  <2> QED BY <2>1, <2>2, Kept
<1>10. ASSUME NEW h \in Host, SaveMetadata(h) PROVE LocalComplete'
  <2>1. UNCHANGED disk /\ meta' = [meta EXCEPT ![h][input[h]] = "outputs"]
    BY <1>10 DEF SaveMetadata, SetMetadata
  <2>2. \A g \in Host, k \in Key :
            meta'[g][k] = IF g = h /\ k = input[h] THEN "outputs" ELSE meta[g][k]
    BY <2>1 DEF TypeInv
  <2>3. \A f \in File : Val(h, f, input[h]) # None
    BY <1>10 DEF SaveMetadata, ProcInv, SaveOf
  <2> QED BY <2>1, <2>2, <2>3 DEF LocalComplete, Val
<1>11. ASSUME NEW h \in Host, AskRemote(h) PROVE LocalComplete'
  BY <1>11, Kept DEF AskRemote
<1>12. ASSUME NEW h \in Host, OfferFile(h) PROVE LocalComplete'
  BY <1>12, Kept DEF OfferFile
<1>13. ASSUME NEW h \in Host, UploadFails(h) PROVE LocalComplete'
  BY <1>13, Kept DEF UploadFails
<1>14. ASSUME NEW h \in Host, PutManifest(h) PROVE LocalComplete'
  BY <1>14, Kept DEF PutManifest
<1>15. ASSUME NEW h \in Host, Crash(h) PROVE LocalComplete'
  <2>1. \A g \in Host, j \in Key : meta'[g][j] = "outputs" => meta[g][j] = "outputs"
    <3>1. CASE UNCHANGED meta
      BY <3>1
    <3>2. CASE meta' = [meta EXCEPT ![h][input[h]] = "marker"]
      BY <3>2 DEF TypeInv
    <3> QED BY <1>15, <3>1, <3>2 DEF Crash
  <2>2. \A g \in Host, e \in File, k \in Key :
            disk[g][e][k].val # None => disk'[g][e][k].val # None
    BY <1>15, Half, Places DEF Crash
  <2> QED BY <2>1, <2>2, Kept
<1>16. ASSUME NEW h \in Host, Clear(h) PROVE LocalComplete'
  <2>1. meta' = [meta EXCEPT ![h] = [k \in Key |-> "none"]] /\ Removed(h, Key, input[h], File)
    BY <1>16 DEF Clear
  <2>2. \A g \in Host, k \in Key :
            meta'[g][k] = "outputs" => meta[g][k] = "outputs" /\ g # h
    BY <2>1 DEF TypeInv
  <2>3. \A g \in Host, e \in File : g # h => disk'[g][e] = disk[g][e]
    <3>1. DiskInv /\ Key \in SUBSET Key /\ File \in SUBSET File /\ input[h] \in Key
      BY DEF TypeInv
    <3> HIDE DEF IInv
    <3> QED BY <2>1, <3>1, Removing
  <2> QED BY <2>2, <2>3 DEF LocalComplete, Val
<1>17. ASSUME NEW h \in Host, NEW k \in Key, Edit(h, k) PROVE LocalComplete'
  BY <1>17, Kept DEF Edit
<1>18. ASSUME NEW h \in Host, NEW S \in SUBSET File, Clean(h, S) PROVE LocalComplete'
  <2>1. UNCHANGED meta
    BY <1>18 DEF Clean, Between
  <2>2. \A g \in Host, e \in File, k \in Key :
            disk[g][e][k].val # None => disk'[g][e][k].val # None
    BY <1>18, Cleaning
  <2> QED BY <2>1, <2>2, Kept
<1>19. ASSUME NEW h \in Host, FetchManifest(h) PROVE LocalComplete'
  BY <1>19, Kept DEF FetchManifest
<1>20. ASSUME NEW h \in Host, PutBlob(h) PROVE LocalComplete'
  BY <1>20, Kept DEF PutBlob
<1>21. ASSUME NEW h \in Host, WriteBlob(h) PROVE LocalComplete'
  BY <1>21, Kept DEF WriteBlob
<1>22. ASSUME NEW h \in Host, WriteManifest(h) PROVE LocalComplete'
  BY <1>22, Kept DEF WriteManifest
<1>23. ASSUME NEW h \in Host, NEW G \in SUBSET Key, NEW k \in Key, NEW S \in SUBSET File,
             NEW D \in BOOLEAN, NEW M \in BOOLEAN, ClearDies(h, G, k, S, D, M)
       PROVE  LocalComplete'
  <2>1. \A g \in Host, j \in Key : meta'[g][j] = "outputs" =>
            meta[g][j] = "outputs" /\ (g = h => j \notin G \cup {k})
    BY <1>23 DEF ClearDies, TypeInv
  <2>2. \A g \in Host, e \in File :
            /\ g # h => disk'[g][e] = disk[g][e]
            /\ \A j \in Key : j \notin G \cup {k} => disk'[g][e][j] = disk[g][e][j]
    BY <1>23, Removing DEF ClearDies
  <2> QED BY <2>1, <2>2 DEF LocalComplete, Val
<1>24. CASE UNCHANGED vars
  BY <1>24, Kept DEF vars
<1>25. ASSUME NEW h \in Host, User(h) PROVE LocalComplete'
  BY <1>16, <1>17, <1>18, <1>23, <1>25, Zenon DEF User
<1> QED
  BY <1>1, <1>2, <1>3, <1>4, <1>5, <1>6, <1>7, <1>8, <1>9, <1>10, <1>11, <1>12,
     <1>13, <1>14, <1>15, <1>19, <1>20, <1>21, <1>22, <1>24, <1>25
     DEF Next, Restore, Save

(* A manifest is uploaded last.                                            *)
LEMMA RemoteStep == IInv /\ [Next]_vars => RemoteComplete'
<1> SUFFICES ASSUME IInv, [Next]_vars PROVE RemoteComplete'
  OBVIOUS
<1> USE DEF IInv
<1>1. ASSUME NEW h \in Host, Check(h) PROVE RemoteComplete'
  BY <1>1 DEF RemoteComplete, Check
<1>2. ASSUME NEW h \in Host, OpenLocal(h) PROVE RemoteComplete'
  BY <1>2 DEF RemoteComplete, OpenLocal
<1>3. ASSUME NEW h \in Host, RestoreFile(h) PROVE RemoteComplete'
  BY <1>3 DEF RemoteComplete, RestoreFile
<1>4. ASSUME NEW h \in Host, DownloadFile(h) PROVE RemoteComplete'
  BY <1>4 DEF RemoteComplete, DownloadFile
<1>5. ASSUME NEW h \in Host, RestoreFails(h) PROVE RemoteComplete'
  BY <1>5 DEF RemoteComplete, RestoreFails
<1>6. ASSUME NEW h \in Host, WarmLocal(h) PROVE RemoteComplete'
  BY <1>6 DEF RemoteComplete, WarmLocal
<1>7. ASSUME NEW h \in Host, Exec(h) PROVE RemoteComplete'
  BY <1>7 DEF RemoteComplete, Exec
<1>8. ASSUME NEW h \in Host, OpenSave(h) PROVE RemoteComplete'
  BY <1>8 DEF RemoteComplete, OpenSave
<1>9. ASSUME NEW h \in Host, SaveFile(h) PROVE RemoteComplete'
  BY <1>9 DEF RemoteComplete, SaveFile
<1>10. ASSUME NEW h \in Host, SaveMetadata(h) PROVE RemoteComplete'
  BY <1>10 DEF RemoteComplete, SaveMetadata, SetMetadata
<1>11. ASSUME NEW h \in Host, AskRemote(h) PROVE RemoteComplete'
  BY <1>11 DEF RemoteComplete, AskRemote
<1>12. ASSUME NEW h \in Host, OfferFile(h) PROVE RemoteComplete'
  BY <1>12 DEF OfferFile, RemoteComplete
<1>13. ASSUME NEW h \in Host, UploadFails(h) PROVE RemoteComplete'
  BY <1>13 DEF RemoteComplete, UploadFails
<1>14. ASSUME NEW h \in Host, PutManifest(h) PROVE RemoteComplete'
  <2>1. /\ pc[h] = "upload" /\ todo[h] = {} /\ UNCHANGED blobs
        /\ manifest' = [manifest EXCEPT ![input[h]] = held[h]]
    BY <1>14 DEF PutManifest
  <2>2. \A f \in File : held[h][f] = input[h] /\ <<f, input[h]>> \in blobs
    BY <2>1 DEF ProcInv, SaveOf
  <2> QED BY <2>1, <2>2 DEF RemoteComplete, TypeInv
<1>15. ASSUME NEW h \in Host, Crash(h) PROVE RemoteComplete'
  BY <1>15 DEF RemoteComplete, Crash
<1>16. ASSUME NEW h \in Host, Clear(h) PROVE RemoteComplete'
  BY <1>16 DEF RemoteComplete, Clear
<1>17. ASSUME NEW h \in Host, NEW k \in Key, Edit(h, k) PROVE RemoteComplete'
  BY <1>17 DEF RemoteComplete, Edit
<1>18. ASSUME NEW h \in Host, NEW S \in SUBSET File, Clean(h, S) PROVE RemoteComplete'
  BY <1>18 DEF RemoteComplete, Clean
<1>19. ASSUME NEW h \in Host, FetchManifest(h) PROVE RemoteComplete'
  BY <1>19 DEF RemoteComplete, FetchManifest
<1>20. ASSUME NEW h \in Host, PutBlob(h) PROVE RemoteComplete'
  BY <1>20 DEF RemoteComplete, PutBlob
<1>21. ASSUME NEW h \in Host, WriteBlob(h) PROVE RemoteComplete'
  BY <1>21 DEF RemoteComplete, WriteBlob
<1>22. ASSUME NEW h \in Host, WriteManifest(h) PROVE RemoteComplete'
  BY <1>22 DEF RemoteComplete, WriteManifest
<1>23. ASSUME NEW h \in Host, NEW G \in SUBSET Key, NEW k \in Key, NEW S \in SUBSET File,
             NEW D \in BOOLEAN, NEW M \in BOOLEAN, ClearDies(h, G, k, S, D, M)
       PROVE  RemoteComplete'
  BY <1>23 DEF RemoteComplete, ClearDies
<1>24. CASE UNCHANGED vars
  BY <1>24 DEF RemoteComplete
<1>25. ASSUME NEW h \in Host, User(h) PROVE RemoteComplete'
  BY <1>16, <1>17, <1>18, <1>23, <1>25, Zenon DEF User
<1> QED
  BY <1>1, <1>2, <1>3, <1>4, <1>5, <1>6, <1>7, <1>8, <1>9, <1>10, <1>11, <1>12,
     <1>13, <1>14, <1>15, <1>19, <1>20, <1>21, <1>22, <1>24, <1>25
     DEF Next, Restore, Save

(* What every process has done so far.                                      *)
LEMMA ProcStep == IInv /\ [Next]_vars => ProcInv'
<1> SUFFICES ASSUME IInv, [Next]_vars PROVE ProcInv'
  OBVIOUS
<1> USE DEF IInv
<1>1. ASSUME NEW h \in Host, Check(h) PROVE ProcInv'
  <2>1. Frame(h)
    BY <1>1 DEF Frame, TypeInv, Check, CheckLocalFirst, CheckRemoteFirst
  <2>2. SaveOf(h)' /\ RestoreOf(h)'
    <3>1. /\ pc'[h] \in {"local", "fetch", "exec"} /\ last'[h] = "none"
          /\ pc'[h] = "fetch" => manifest[input[h]] # NoManifest
          /\ UNCHANGED <<input, manifest>>
      BY <1>1 DEF Check, CheckLocalFirst, CheckRemoteFirst, TypeInv
    <3> QED BY <3>1 DEF SaveOf, RestoreOf
  <2> QED BY <2>1, <2>2, Others
<1>2. ASSUME NEW h \in Host, OpenLocal(h) PROVE ProcInv'
  <2>1. Frame(h)
    BY <1>2 DEF Frame, TypeInv, OpenLocal
  <2>2. SaveOf(h)' /\ RestoreOf(h)'
    <3>1. /\ pc'[h] \in {"idle", "copy", "exec"} /\ pc[h] = "local"
          /\ last'[h] = last[h] \/ last'[h] = "local"
      BY <1>2 DEF OpenLocal, TypeInv
    <3> QED BY <3>1 DEF ProcInv, SaveOf, RestoreOf
  <2> QED BY <2>1, <2>2, Others
<1>3. ASSUME NEW h \in Host, RestoreFile(h) PROVE ProcInv'
  <2>1. Frame(h)
    <3>1. \A g \in Host \ {h}, e \in File : disk'[g][e] = disk[g][e]
      BY <1>3, Restoring
    <3>2. \A g \in Host \ {h} : pc'[g] = pc[g] /\ todo'[g] = todo[g] /\ last'[g] = last[g]
      BY <1>3 DEF TypeInv, RestoreFile
    <3> QED BY <1>3, <3>1, <3>2 DEF Frame, RestoreFile
  <2>2. SaveOf(h)' /\ RestoreOf(h)'
    <3>1. /\ pc'[h] \in {"idle", "copy"} /\ pc[h] = "copy"
          /\ last'[h] = last[h] \/ last'[h] = "local"
      BY <1>3 DEF RestoreFile, TypeInv
    <3> QED BY <3>1 DEF ProcInv, SaveOf, RestoreOf
  <2> QED BY <2>1, <2>2, Others
<1>4. ASSUME NEW h \in Host, DownloadFile(h) PROVE ProcInv'
  <2>1. Frame(h)
    <3>1. \A g \in Host \ {h}, e \in File : disk'[g][e] = disk[g][e]
      BY <1>4, Downloading
    <3>2. \A g \in Host \ {h} : pc'[g] = pc[g] /\ todo'[g] = todo[g] /\ last'[g] = last[g]
      BY <1>4 DEF TypeInv, DownloadFile
    <3> QED BY <1>4, <3>1, <3>2 DEF Frame, DownloadFile
  <2>2. SaveOf(h)' /\ RestoreOf(h)'
    <3>1. PICK f \in todo[h] :
             /\ Goto(h, "remote", todo[h] \ {f})
             /\ Got(h, f)'
             /\ \A e \in File : e # f => disk'[h][e] = disk[h][e]
      BY <1>4, Downloading
    <3>2. /\ pc[h] = "remote" /\ pc'[h] = "remote" /\ todo'[h] = todo[h] \ {f}
          /\ UNCHANGED <<cfg, input, held, blobs, last>>
      BY <1>4, <3>1 DEF DownloadFile, TypeInv
    <3>3. \A e \in File : e \in todo'[h] \/ Got(h, e)'
      <4> SUFFICES ASSUME NEW e \in File, e \notin todo'[h], e # f PROVE Got(h, e)'
        BY <3>1
      <4>1. Got(h, e)
        BY <3>2 DEF ProcInv, RestoreOf
      <4> QED BY <3>1, <3>2, <4>1 DEF Got, Val, Files
    <3>4. last[h] \notin {"executed", "remote"}
      BY <3>2 DEF ProcInv, RestoreOf
    <3> QED BY <3>2, <3>3, <3>4 DEF ProcInv, SaveOf, RestoreOf
  <2> QED BY <2>1, <2>2, Others
<1>5. ASSUME NEW h \in Host, RestoreFails(h) PROVE ProcInv'
  <2>1. Frame(h)
    <3>1. \A g \in Host \ {h}, e \in File : disk'[g][e] = disk[g][e]
      <4>1. HalfWritten(h)
        BY <1>5 DEF RestoreFails
      <4>2. TypeInv /\ DiskInv
        OBVIOUS
      <4> HIDE DEF IInv
      <4> QED BY <4>1, <4>2, Half, Places
    <3>2. \A g \in Host \ {h} : pc'[g] = pc[g] /\ todo'[g] = todo[g] /\ last'[g] = last[g]
      BY <1>5 DEF TypeInv, RestoreFails
    <3> QED BY <1>5, <3>1, <3>2 DEF Frame, RestoreFails
  <2>2. SaveOf(h)' /\ RestoreOf(h)'
    <3>1. /\ pc'[h] \in {"local", "exec"} /\ pc[h] \in {"fetch", "remote"}
          /\ last'[h] = last[h]
      BY <1>5 DEF RestoreFails, TypeInv
    <3> QED BY <3>1 DEF ProcInv, SaveOf, RestoreOf
  <2> QED BY <2>1, <2>2, Others
<1>6. ASSUME NEW h \in Host, WarmLocal(h) PROVE ProcInv'
  <2>1. Frame(h)
    BY <1>6 DEF Frame, TypeInv, WarmLocal
  <2>2. SaveOf(h)' /\ RestoreOf(h)'
    <3>1. \A f \in File : Got(h, f)
      BY <1>6 DEF WarmLocal, ProcInv, RestoreOf
    <3>2. \A f \in File : Got(h, f)'
      BY <1>6, <3>1 DEF WarmLocal, Got, Val, Files
    <3>3. pc'[h] = "idle" /\ last'[h] = "remote"
      BY <1>6 DEF WarmLocal, TypeInv
    <3> QED BY <3>2, <3>3 DEF SaveOf, RestoreOf
  <2> QED BY <2>1, <2>2, Others
<1>7. ASSUME NEW h \in Host, Exec(h) PROVE ProcInv'
  <2>1. Frame(h)
    <3>1. PICK into \in BOOLEAN, S \in SUBSET File : Written(h, S, into)
      BY <1>7 DEF Exec
    <3>2. \A g \in Host, e \in File : g # h => disk'[g][e] = disk[g][e]
      BY <3>1, Executing
    <3> QED BY <1>7, <3>2 DEF Frame, TypeInv, Exec
  <2>2. SaveOf(h)' /\ RestoreOf(h)'
    <3>1. ASSUME NEW into \in BOOLEAN, Written(h, File, into), last'[h] = "executed",
                 pc'[h] \in {"save", "ask"}
          PROVE  SaveOf(h)' /\ RestoreOf(h)'
      <4>1. \A e \in File : disk'[h][e][Project].val = input[h]
        BY <3>1, Executing
      <4>2. UNCHANGED input
        BY <1>7 DEF Exec
      <4> QED BY <3>1, <4>1, <4>2 DEF SaveOf, RestoreOf, Delivered, Val
    <3>2. CASE pc'[h] = "idle" /\ last'[h] = "failed"
      BY <3>2 DEF SaveOf, RestoreOf
    <3> QED BY <1>7, <3>1, <3>2 DEF Exec, TypeInv
  <2> QED BY <2>1, <2>2, Others
<1>8. ASSUME NEW h \in Host, OpenSave(h) PROVE ProcInv'
  <2>1. Frame(h)
    BY <1>8 DEF Frame, TypeInv, OpenSave, AfterLocal
  <2>2. SaveOf(h)' /\ RestoreOf(h)'
    BY <1>8 DEF SaveOf, RestoreOf, Delivered, Val, TypeInv, ProcInv, OpenSave, AfterLocal
  <2> QED BY <2>1, <2>2, Others
<1>9. ASSUME NEW h \in Host, SaveFile(h) PROVE ProcInv'
  <2>1. Frame(h)
    <3>1. \A g \in Host \ {h}, e \in File : disk'[g][e] = disk[g][e]
      BY <1>9, SavingFile
    <3>2. \A g \in Host \ {h} : pc'[g] = pc[g] /\ todo'[g] = todo[g] /\ last'[g] = last[g]
      BY <1>9 DEF TypeInv, SaveFile
    <3> QED BY <1>9, <3>1, <3>2 DEF Frame, SaveFile
  <2>2. SaveOf(h)' /\ RestoreOf(h)'
    <3>1. PICK f \in todo[h] :
             /\ Goto(h, "link", todo[h] \ {f})
             /\ disk'[h][f][input[h]] = disk[h][f][Project]
             /\ \A g \in Host, e \in File, p \in Place :
                  g # h \/ e # f \/ p # input[h] => disk'[g][e][p] = disk[g][e][p]
      BY <1>9, SavingFile
    <3>2. /\ pc[h] = "link" /\ last'[h] = last[h] /\ UNCHANGED <<input, dir>>
          /\ pc'[h] = "link" /\ todo'[h] = todo[h] \ {f}
      BY <1>9, <3>1 DEF SaveFile, TypeInv
    <3>3. \A e \in File : disk'[h][e][Project] = disk[h][e][Project]
      BY <3>1, Places DEF TypeInv
    <3>4. Delivered(h) /\ Delivered(h)'
      BY <3>2, <3>3 DEF ProcInv, SaveOf, Delivered, Val
    <3>5. ASSUME NEW e \in File, e \notin todo'[h]
          PROVE  disk'[h][e][input[h]].val # None
      <4>1. CASE e = f
        BY <3>1, <3>4, <4>1, Places DEF Delivered, Val, TypeInv
      <4>2. CASE e # f
        <5>1. e \notin todo[h]
          BY <3>2, <3>5, <4>2
        <5>2. disk[h][e][input[h]].val # None
          BY <3>2, <5>1 DEF ProcInv, SaveOf, Val
        <5>3. input[h] \in Place
          BY Places DEF TypeInv
        <5> QED BY <3>1, <4>2, <5>2, <5>3
      <4> QED BY <4>1, <4>2
    <3> QED BY <3>2, <3>4, <3>5 DEF ProcInv, SaveOf, RestoreOf, Val
  <2> QED BY <2>1, <2>2, Others
<1>10. ASSUME NEW h \in Host, SaveMetadata(h) PROVE ProcInv'
  <2>1. Frame(h)
    BY <1>10 DEF Frame, TypeInv, SaveMetadata, SetMetadata, AfterLocal
  <2>2. SaveOf(h)' /\ RestoreOf(h)'
    BY <1>10 DEF SaveOf, RestoreOf, Delivered, Val, TypeInv, ProcInv, SaveMetadata,
       SetMetadata, AfterLocal
  <2> QED BY <2>1, <2>2, Others
<1>11. ASSUME NEW h \in Host, AskRemote(h) PROVE ProcInv'
  <2>1. Frame(h)
    BY <1>11 DEF Frame, TypeInv, AskRemote, AfterRemote
  <2>2. SaveOf(h)' /\ RestoreOf(h)'
    <3>1. /\ pc[h] = "ask" /\ Delivered(h)' /\ last'[h] = last[h] /\ last[h] # "remote"
          /\ held'[h] = NoManifest
      BY <1>11 DEF AskRemote, TypeInv, ProcInv, SaveOf, RestoreOf, Delivered, Val
    <3>2. pc'[h] \in {"idle", "save"} \/ (pc'[h] = "upload" /\ todo'[h] = File)
      BY <1>11 DEF AskRemote, AfterRemote, TypeInv
    <3> QED BY <3>1, <3>2 DEF SaveOf, RestoreOf, NoManifest
  <2> QED BY <2>1, <2>2, Others
<1>12. ASSUME NEW h \in Host, OfferFile(h) PROVE ProcInv'
  <2>1. Frame(h)
    BY <1>12 DEF Frame, TypeInv, OfferFile
  <2>2. SaveOf(h)' /\ RestoreOf(h)'
    <3>1. PICK f \in todo[h] :
             /\ held' = [held EXCEPT ![h][f] = Val(h, f, Project)]
             /\ IF <<f, Val(h, f, Project)>> \in blobs THEN Goto(h, "upload", todo[h] \ {f})
                ELSE Goto(h, "put", todo[h])
      BY <1>12 DEF OfferFile
    <3>2. /\ pc[h] = "upload" /\ f \in File /\ Val(h, f, Project) = input[h]
          /\ UNCHANGED <<input, blobs, disk, last>>
      BY <1>12 DEF OfferFile, ProcInv, SaveOf, Delivered, TypeInv
    <3>3. \A e \in File : held'[h][e] = IF e = f THEN input[h] ELSE held[h][e]
      BY <3>1, <3>2 DEF TypeInv
    <3>4. /\ Delivered(h)' /\ last[h] # "remote"
          /\ \A e \in todo[h] : held[h][e] = None
          /\ \A e \in File \ todo[h] : held[h][e] = input[h] /\ <<e, input[h]>> \in blobs
      BY <3>2 DEF ProcInv, SaveOf, RestoreOf, Delivered, Val
    <3>5. CASE <<f, input[h]>> \in blobs
      <4>1. pc'[h] = "upload" /\ todo'[h] = todo[h] \ {f}
        BY <3>1, <3>2, <3>5 DEF TypeInv
      <4>2. \A e \in File \ todo'[h] : held'[h][e] = input'[h] /\ <<e, input'[h]>> \in blobs'
        BY <3>2, <3>3, <3>4, <3>5, <4>1
      <4>3. \A e \in todo'[h] : held'[h][e] = None
        <5>1. todo[h] \subseteq File
          BY DEF TypeInv
        <5> QED BY <3>3, <3>4, <4>1, <5>1
      <4> QED BY <3>2, <3>4, <4>1, <4>2, <4>3 DEF SaveOf, RestoreOf
    <3>6. CASE <<f, input[h]>> \notin blobs
      <4>1. pc'[h] = "put" /\ todo'[h] = todo[h]
        BY <3>1, <3>2, <3>6 DEF TypeInv
      <4>2. todo[h] \subseteq File
        BY DEF TypeInv
      <4> QED BY <3>2, <3>3, <3>4, <4>1, <4>2 DEF SaveOf, RestoreOf
    <3> QED BY <3>5, <3>6
  <2> QED BY <2>1, <2>2, Others
<1>13. ASSUME NEW h \in Host, UploadFails(h) PROVE ProcInv'
  <2>1. Frame(h)
    BY <1>13 DEF Frame, TypeInv, UploadFails
  <2>2. SaveOf(h)' /\ RestoreOf(h)'
    BY <1>13 DEF SaveOf, RestoreOf, Delivered, Val, TypeInv, ProcInv, UploadFails
  <2> QED BY <2>1, <2>2, Others
<1>14. ASSUME NEW h \in Host, PutManifest(h) PROVE ProcInv'
  <2>1. Frame(h)
    <3>1. \A f \in File : held[h][f] = input[h] /\ input[h] # None
      <4>1. pc[h] = "upload" /\ todo[h] = {} /\ SaveOf(h)
        BY <1>14 DEF PutManifest, ProcInv
      <4>2. input[h] # None
        BY Places DEF TypeInv
      <4> QED BY <4>1, <4>2 DEF SaveOf
    <3>2. manifest[input[h]] # NoManifest => held[h] # NoManifest
      BY <3>1 DEF NoManifest, TypeInv
    <3>3. \A k \in Key : manifest[k] # NoManifest => manifest'[k] # NoManifest
      BY <1>14, <3>2 DEF PutManifest, TypeInv
    <3> QED BY <1>14, <3>3 DEF Frame, TypeInv, PutManifest, AfterRemote
  <2>2. SaveOf(h)' /\ RestoreOf(h)'
    <3>1. /\ pc[h] = "upload" /\ pc'[h] \in {"idle", "save", "seal"} /\ last'[h] = last[h]
          /\ Delivered(h)'
      BY <1>14 DEF PutManifest, AfterRemote, TypeInv, ProcInv, SaveOf, Delivered, Val
    <3> QED BY <3>1 DEF SaveOf, RestoreOf, ProcInv
  <2> QED BY <2>1, <2>2, Others
<1>15. ASSUME NEW h \in Host, Crash(h) PROVE ProcInv'
  <2>1. Frame(h)
    <3>1. \A g \in Host \ {h}, e \in File : disk'[g][e] = disk[g][e]
      <4>1. HalfWritten(h)
        BY <1>15 DEF Crash
      <4>2. TypeInv /\ DiskInv
        OBVIOUS
      <4> HIDE DEF IInv
      <4> QED BY <4>1, <4>2, Half, Places
    <3>2. \A g \in Host \ {h} : pc'[g] = pc[g] /\ todo'[g] = todo[g] /\ last'[g] = last[g]
      BY <1>15 DEF TypeInv, Crash
    <3> QED BY <1>15, <3>1, <3>2 DEF Frame, Crash
  <2>2. SaveOf(h)' /\ RestoreOf(h)'
    <3>1. pc'[h] = "idle" /\ last'[h] = "none"
      BY <1>15 DEF Crash, TypeInv
    <3> QED BY <3>1 DEF SaveOf, RestoreOf
  <2> QED BY <2>1, <2>2, Others
<1>16. ASSUME NEW h \in Host, Clear(h) PROVE ProcInv'
  <2>1. \A g \in Host, e \in File : g # h => disk'[g][e] = disk[g][e]
    <3>1. DiskInv /\ Key \in SUBSET Key /\ File \in SUBSET File /\ input[h] \in Key
      BY DEF TypeInv
    <3>2. Removed(h, Key, input[h], File)
      BY <1>16 DEF Clear
    <3> HIDE DEF IInv
    <3> QED BY <3>1, <3>2, Removing
  <2>2. Frame(h)
    BY <1>16, <2>1 DEF Frame, TypeInv, Clear, Between
  <2>3. SaveOf(h)' /\ RestoreOf(h)'
    BY <1>16 DEF SaveOf, RestoreOf, TypeInv, Clear, Between
  <2> QED BY <2>2, <2>3, Others
<1>17. ASSUME NEW h \in Host, NEW k \in Key, Edit(h, k) PROVE ProcInv'
  <2>1. Frame(h)
    BY <1>17 DEF Frame, TypeInv, Edit, Between
  <2>2. SaveOf(h)' /\ RestoreOf(h)'
    BY <1>17 DEF SaveOf, RestoreOf, TypeInv, Edit, Between
  <2> QED BY <2>1, <2>2, Others
<1>18. ASSUME NEW h \in Host, NEW S \in SUBSET File, Clean(h, S) PROVE ProcInv'
  <2>1. Frame(h)
    BY <1>18, Cleaning DEF Frame, TypeInv, Clean, Between
  <2>2. SaveOf(h)' /\ RestoreOf(h)'
    BY <1>18 DEF SaveOf, RestoreOf, TypeInv, Clean, Between
  <2> QED BY <2>1, <2>2, Others
<1>19. ASSUME NEW h \in Host, FetchManifest(h) PROVE ProcInv'
  <2>1. Frame(h)
    BY <1>19 DEF Frame, TypeInv, FetchManifest
  <2>2. SaveOf(h)' /\ RestoreOf(h)'
    <3>1. /\ pc[h] = "fetch" /\ pc'[h] = "remote" /\ held'[h] = manifest[input[h]]
          /\ todo'[h] = {f \in File : manifest[input[h]][f] # None}
          /\ UNCHANGED <<input, blobs, last>>
      BY <1>19 DEF FetchManifest, TypeInv
    <3>2. /\ manifest[input[h]] # NoManifest /\ last[h] \notin {"executed", "remote"}
          /\ input[h] \in Key /\ input[h] # None
      <4>1. RestoreOf(h)
        BY DEF ProcInv
      <4>2. input[h] \in Key /\ input[h] # None
        BY Places DEF TypeInv
      <4> QED BY <3>1, <4>1, <4>2 DEF RestoreOf
    <3>3. \A f \in File : manifest[input[h]][f] = input[h] /\ <<f, input[h]>> \in blobs
      BY <3>2 DEF RemoteComplete
    <3> QED BY <3>1, <3>2, <3>3 DEF SaveOf, RestoreOf
  <2> QED BY <2>1, <2>2, Others
<1>20. ASSUME NEW h \in Host, PutBlob(h) PROVE ProcInv'
  <2>1. Frame(h)
    BY <1>20 DEF Frame, TypeInv, PutBlob
  <2>2. SaveOf(h)' /\ RestoreOf(h)'
    <3>1. PICK f \in todo[h] :
             /\ held[h][f] # None /\ blobs' = blobs \cup {<<f, held[h][f]>>}
             /\ IF Files THEN Goto(h, "write", todo[h])
                ELSE Goto(h, "upload", todo[h] \ {f})
      BY <1>20 DEF PutBlob
    <3>2. /\ pc[h] = "put" /\ f \in File /\ held[h][f] = input[h]
          /\ UNCHANGED <<input, held, disk, last>>
      BY <1>20, <3>1 DEF PutBlob, ProcInv, SaveOf, TypeInv
    <3>3. /\ Delivered(h)' /\ last[h] # "remote"
          /\ \A e \in todo[h] \ {f} : held[h][e] = None
          /\ \A e \in File \ todo[h] : held[h][e] = input[h] /\ <<e, input[h]>> \in blobs
      BY <3>1, <3>2 DEF ProcInv, SaveOf, RestoreOf, Delivered, Val, TypeInv
    <3>4. CASE ~Files
      <4>1. pc'[h] = "upload" /\ todo'[h] = todo[h] \ {f}
        BY <3>1, <3>4 DEF TypeInv
      <4> QED BY <3>1, <3>2, <3>3, <4>1 DEF SaveOf, RestoreOf
    <3>5. CASE Files
      <4>1. pc'[h] = "write" /\ todo'[h] = todo[h] /\ todo[h] \subseteq File
        BY <3>1, <3>5 DEF TypeInv
      <4> QED BY <3>1, <3>2, <3>3, <4>1 DEF SaveOf, RestoreOf
    <3> QED BY <3>4, <3>5
  <2> QED BY <2>1, <2>2, Others
<1>21. ASSUME NEW h \in Host, WriteBlob(h) PROVE ProcInv'
  <2>1. Frame(h)
    BY <1>21 DEF Frame, TypeInv, WriteBlob
  <2>2. SaveOf(h)' /\ RestoreOf(h)'
    <3>1. PICK f \in todo[h] : held[h][f] # None /\ Goto(h, "upload", todo[h] \ {f})
      BY <1>21 DEF WriteBlob
    <3>2. /\ pc[h] = "write" /\ pc'[h] = "upload" /\ todo'[h] = todo[h] \ {f} /\ f \in File
          /\ UNCHANGED <<input, held, blobs, disk, last>>
      BY <1>21, <3>1 DEF WriteBlob, TypeInv
    <3>3. /\ Delivered(h)' /\ last[h] # "remote"
          /\ held[h][f] = input[h] /\ <<f, input[h]>> \in blobs
          /\ \A e \in todo[h] \ {f} : held[h][e] = None
          /\ \A e \in File \ todo[h] : held[h][e] = input[h] /\ <<e, input[h]>> \in blobs
      BY <3>1, <3>2 DEF ProcInv, SaveOf, RestoreOf, Delivered, Val, TypeInv
    <3> QED BY <3>2, <3>3 DEF SaveOf, RestoreOf
  <2> QED BY <2>1, <2>2, Others
<1>22. ASSUME NEW h \in Host, WriteManifest(h) PROVE ProcInv'
  <2>1. Frame(h)
    BY <1>22 DEF Frame, TypeInv, WriteManifest, AfterRemote
  <2>2. SaveOf(h)' /\ RestoreOf(h)'
    <3>1. /\ pc[h] = "seal" /\ pc'[h] \in {"idle", "save"} /\ last'[h] = last[h]
          /\ Delivered(h)'
      BY <1>22 DEF WriteManifest, AfterRemote, TypeInv, ProcInv, SaveOf, Delivered, Val
    <3> QED BY <3>1 DEF SaveOf, RestoreOf, ProcInv
  <2> QED BY <2>1, <2>2, Others
<1>23. ASSUME NEW h \in Host, NEW G \in SUBSET Key, NEW k \in Key, NEW S \in SUBSET File,
             NEW D \in BOOLEAN, NEW M \in BOOLEAN, ClearDies(h, G, k, S, D, M)
       PROVE  ProcInv'
  <2>1. \A g \in Host, e \in File : g # h => disk'[g][e] = disk[g][e]
    <3>1. DiskInv /\ Removed(h, G, k, S)
      BY <1>23 DEF ClearDies
    <3> HIDE DEF IInv
    <3> QED BY <3>1, Removing
  <2>2. Frame(h)
    BY <1>23, <2>1 DEF Frame, TypeInv, ClearDies, Between
  <2>3. SaveOf(h)' /\ RestoreOf(h)'
    BY <1>23 DEF SaveOf, RestoreOf, TypeInv, ClearDies, Between
  <2> QED BY <2>2, <2>3, Others
<1>24. CASE UNCHANGED vars
  BY <1>24 DEF ProcInv, SaveOf, RestoreOf, Delivered, Got, Val, Files
<1>25. ASSUME NEW h \in Host, User(h) PROVE ProcInv'
  BY <1>16, <1>17, <1>18, <1>23, <1>25, Zenon DEF User
<1> QED
  BY <1>1, <1>2, <1>3, <1>4, <1>5, <1>6, <1>7, <1>8, <1>9, <1>10, <1>11, <1>12,
     <1>13, <1>14, <1>15, <1>19, <1>20, <1>21, <1>22, <1>24, <1>25
     DEF Next, Restore, Save

(* A step that opens and closes nothing, of a process that is not at a Put  *)
(* or that fails.                                                           *)
LEMMA HalfFrame ==
    ASSUME TypeInv, HalfInv, NEW h \in Host, UNCHANGED <<cfg, halfBlobs, halfManifests>>,
           faults' \in Nat, faults' > 0 \/ (faults' = faults /\ pc[h] \notin {"write", "seal"}),
           \A g \in Host \ {h} : pc'[g] = pc[g] /\ todo'[g] = todo[g]
                                /\ input'[g] = input[g] /\ held'[g] = held[g]
    PROVE  HalfInv'
<1>1. ASSUME NEW o \in halfBlobs, faults' = 0
      PROVE  /\ pc'[o[2]] = "write"
             /\ \E f \in todo'[o[2]] : held'[o[2]][f] # None /\ o[1] = <<f, held'[o[2]][f]>>
  <2>1. faults = 0 /\ o[2] \in Host
    BY <1>1 DEF TypeInv
  <2>2. o[2] # h
    BY <1>1, <2>1 DEF HalfInv
  <2> QED BY <1>1, <2>1, <2>2 DEF HalfInv
<1>2. ASSUME NEW o \in halfManifests, faults' = 0
      PROVE  pc'[o[2]] = "seal" /\ o[1] = input'[o[2]]
  <2>1. faults = 0 /\ o[2] \in Host
    BY <1>2 DEF TypeInv
  <2> QED BY <1>2, <2>1 DEF HalfInv
<1> QED
  BY <1>1, <1>2 DEF HalfInv, Files

(* A process that opens or closes something of its own, before any fault.   *)
LEMMA HalfStep == IInv /\ [Next]_vars => HalfInv'
<1> SUFFICES ASSUME IInv, [Next]_vars PROVE HalfInv'
  OBVIOUS
<1> USE HybridCacheAssumption DEF IInv
<1>1. ASSUME NEW h \in Host, UNCHANGED <<cfg, halfBlobs, halfManifests>>,
             faults' = faults + 1 \/ (faults' = faults /\ pc[h] \notin {"write", "seal"}),
             \A g \in Host \ {h} : pc'[g] = pc[g] /\ todo'[g] = todo[g]
                                  /\ input'[g] = input[g] /\ held'[g] = held[g]
      PROVE  HalfInv'
  <2>1. faults' \in Nat /\ (faults' > 0 \/ (faults' = faults /\ pc[h] \notin {"write", "seal"}))
    BY <1>1 DEF TypeInv
  <2> QED BY <1>1, <2>1, HalfFrame
<1>2. ASSUME NEW h \in Host, Check(h) PROVE HalfInv'
  BY <1>1, <1>2 DEF Check, CheckLocalFirst, CheckRemoteFirst, TypeInv
<1>3. ASSUME NEW h \in Host, Restore(h) PROVE HalfInv'
  <2>1. OpenLocal(h) \/ RestoreFile(h) => HalfInv'
    BY <1>1 DEF OpenLocal, RestoreFile, TypeInv
  <2>2. FetchManifest(h) \/ DownloadFile(h) \/ WarmLocal(h) => HalfInv'
    BY <1>1 DEF FetchManifest, DownloadFile, WarmLocal, TypeInv
  <2>3. RestoreFails(h) => HalfInv'
    BY <1>1 DEF RestoreFails, TypeInv
  <2> QED BY <1>3, <2>1, <2>2, <2>3 DEF Restore
<1>4. ASSUME NEW h \in Host, Exec(h) \/ Crash(h) \/ Clear(h) PROVE HalfInv'
  BY <1>1, <1>4 DEF Exec, Crash, Clear, Between, TypeInv
<1>5. ASSUME NEW h \in Host, NEW G \in SUBSET Key, NEW k \in Key, NEW S \in SUBSET File,
             NEW D \in BOOLEAN, NEW M \in BOOLEAN, ClearDies(h, G, k, S, D, M)
      PROVE  HalfInv'
  BY <1>1, <1>5 DEF ClearDies, Between, TypeInv
<1>6. ASSUME NEW h \in Host, NEW k \in Key, Edit(h, k) PROVE HalfInv'
  BY <1>1, <1>6 DEF Edit, Between, TypeInv
<1>7. ASSUME NEW h \in Host, NEW S \in SUBSET File, Clean(h, S) PROVE HalfInv'
  BY <1>1, <1>7 DEF Clean, Between, TypeInv
<1>8. ASSUME NEW h \in Host, OpenSave(h) \/ SaveFile(h) \/ SaveMetadata(h) PROVE HalfInv'
  BY <1>1, <1>8 DEF OpenSave, SaveFile, SaveMetadata, SetMetadata, AfterLocal, TypeInv
<1>9. ASSUME NEW h \in Host, AskRemote(h) \/ OfferFile(h) \/ UploadFails(h) PROVE HalfInv'
  BY <1>1, <1>9 DEF AskRemote, AfterRemote, OfferFile, UploadFails, TypeInv
<1>10. ASSUME NEW h \in Host, PutBlob(h) PROVE HalfInv'
  <2>1. CASE ~Files
    BY <1>1, <1>10, <2>1 DEF PutBlob, TypeInv
  <2>2. CASE Files
    <3>1. PICK f \in todo[h] :
             /\ held[h][f] # None /\ Goto(h, "write", todo[h])
             /\ halfBlobs' = Opened(halfBlobs, <<f, held[h][f]>>, h)
      BY <1>10, <2>2 DEF PutBlob
    <3>2. /\ pc[h] = "put" /\ UNCHANGED <<cfg, input, held, halfManifests, faults>>
          /\ pc'[h] = "write" /\ todo'[h] = todo[h]
          /\ \A g \in Host \ {h} : pc'[g] = pc[g] /\ todo'[g] = todo[g]
      BY <1>10, <3>1 DEF PutBlob, TypeInv
    <3>3. \A o \in halfBlobs' : o = <<<<f, held[h][f]>>, h>> \/ o \in halfBlobs
      BY <3>1 DEF Opened
    <3>4. \A o \in halfBlobs : o[2] \in Host /\ (faults > 0 \/ o[2] # h)
      BY <3>2 DEF HalfInv, TypeInv
    <3>5. \A o \in halfManifests : o[2] \in Host /\ (faults > 0 \/ o[2] # h)
      BY <3>2 DEF HalfInv, TypeInv
    <3> QED BY <2>2, <3>1, <3>2, <3>3, <3>4, <3>5 DEF HalfInv, Files
  <2> QED BY <2>1, <2>2
<1>11. ASSUME NEW h \in Host, WriteBlob(h) PROVE HalfInv'
  <2>1. PICK f \in todo[h] :
           /\ held[h][f] # None /\ Goto(h, "upload", todo[h] \ {f})
           /\ halfBlobs' \in Closed(halfBlobs, <<f, held[h][f]>>, h)
    BY <1>11 DEF WriteBlob
  <2>2. /\ pc[h] = "write" /\ UNCHANGED <<cfg, input, held, halfManifests, faults>>
        /\ \A g \in Host \ {h} : pc'[g] = pc[g] /\ todo'[g] = todo[g]
    BY <1>11, <2>1 DEF WriteBlob, TypeInv
  <2>3. \A o \in halfBlobs' : o \in halfBlobs /\ o # <<<<f, held[h][f]>>, h>>
    BY <2>1 DEF Closed
  <2>4. ASSUME NEW o \in halfBlobs', faults = 0 PROVE o[2] \in Host \ {h}
    <3>1. o \in halfBlobs /\ o[2] \in Host /\ o = <<o[1], o[2]>>
      BY <2>3 DEF TypeInv
    <3>2. ASSUME o[2] = h PROVE FALSE
      <4>1. PICK e \in todo[h] : held[h][e] # None /\ o[1] = <<e, held[h][e]>>
        BY <2>4, <3>1, <3>2 DEF HalfInv, TypeInv
      <4>2. e = f
        BY <2>1, <2>2, <4>1 DEF ProcInv, SaveOf
      <4> QED BY <2>3, <3>1, <3>2, <4>1, <4>2
    <3> QED BY <3>1, <3>2
  <2>5. \A o \in halfManifests : o[2] \in Host /\ (faults > 0 \/ o[2] # h)
    BY <2>2 DEF HalfInv, TypeInv
  <2>6. faults = 0 \/ faults > 0
    BY DEF TypeInv
  <2> QED BY <2>2, <2>3, <2>4, <2>5, <2>6 DEF HalfInv, Files
<1>12. ASSUME NEW h \in Host, PutManifest(h) PROVE HalfInv'
  <2>1. CASE ~Files
    BY <1>1, <1>12, <2>1 DEF PutManifest, AfterRemote, TypeInv
  <2>2. CASE Files
    <3>1. /\ halfManifests' = Opened(halfManifests, input[h], h)
          /\ pc[h] = "upload" /\ UNCHANGED <<cfg, input, halfBlobs, faults>>
          /\ pc'[h] = "seal"
          /\ \A g \in Host \ {h} : pc'[g] = pc[g] /\ todo'[g] = todo[g] /\ held'[g] = held[g]
      BY <1>12, <2>2 DEF PutManifest, TypeInv
    <3>2. \A o \in halfManifests' : o = <<input[h], h>> \/ o \in halfManifests
      BY <3>1 DEF Opened
    <3>3. \A o \in halfBlobs : o[2] \in Host /\ (faults > 0 \/ o[2] # h)
      BY <3>1 DEF HalfInv, TypeInv
    <3>4. \A o \in halfManifests : o[2] \in Host /\ (faults > 0 \/ o[2] # h)
      BY <3>1 DEF HalfInv, TypeInv
    <3> QED BY <2>2, <3>1, <3>2, <3>3, <3>4 DEF HalfInv, Files
  <2> QED BY <2>1, <2>2
<1>13. ASSUME NEW h \in Host, WriteManifest(h) PROVE HalfInv'
  <2>1. /\ halfManifests' \in Closed(halfManifests, input[h], h)
        /\ pc[h] = "seal" /\ UNCHANGED <<cfg, input, held, halfBlobs, faults>>
        /\ \A g \in Host \ {h} : pc'[g] = pc[g] /\ todo'[g] = todo[g]
    BY <1>13 DEF WriteManifest, AfterRemote, TypeInv
  <2>2. \A o \in halfManifests' : o \in halfManifests /\ o # <<input[h], h>>
    BY <2>1 DEF Closed
  <2>3. \A o \in halfBlobs : o[2] \in Host /\ (faults > 0 \/ o[2] # h)
    BY <2>1 DEF HalfInv, TypeInv
  <2>4. \A o \in halfManifests' : o[2] \in Host /\ (faults > 0 \/ o[2] # h)
    BY <2>1, <2>2 DEF HalfInv, TypeInv
  <2> QED BY <2>1, <2>2, <2>3, <2>4 DEF HalfInv, Files
<1>14. CASE UNCHANGED vars
  BY <1>14 DEF HalfInv, Files
<1> QED
  BY <1>2, <1>3, <1>4, <1>5, <1>6, <1>7, <1>8, <1>9, <1>10, <1>11, <1>12, <1>13, <1>14
     DEF Next, Save, User

--------------------------------------------------------------------------------
(* The invariant is inductive.                                              *)
LEMMA Invariant == Spec => []IInv
<1>1. IInv /\ [Next]_vars => IInv'
  BY TypeStep, DiskStep, LocalStep, RemoteStep, ProcStep, HalfStep DEF IInv
<1> QED
  BY <1>1, InitInv, PTL DEF Spec

(* Every variable has the values the code gives it; in particular a file's  *)
(* links share their content, however the copies, downloads, executions and *)
(* crashes of the checkouts interleave (copyFile, store.go 283-317), and    *)
(* half written is only what a Put into a bucket of files is at, or has     *)
(* left by a fault (storage/filesystem.go 34-48).                           *)
THEOREM TypeCorrect == Spec => []TypeOK
<1>1. IInv => TypeOK
  <2> SUFFICES ASSUME IInv PROVE TypeOK
    OBVIOUS
  <2>1. disk \in [Host -> [File -> [Place -> [ino : 0 .. Cardinality(Place), val : Vals]]]]
    BY DEF IInv, DiskInv, Disk, Inode
  <2>2. \A h \in Host, f \in File, p, q \in Place :
            disk[h][f][p].ino = disk[h][f][q].ino => Val(h, f, p) = Val(h, f, q)
    BY DEF IInv, DiskInv, Linked, Val
  <2>3. TypeInv
    BY DEF IInv
  <2>4. \A h \in Host : {k \in Key : meta[h][k] = "outputs"} \subseteq dir[h]
                         /\ dir[h] \subseteq Key
    BY <2>3 DEF TypeInv
  <2>5. HalfInv
    BY DEF IInv
  <2> QED BY <2>1, <2>2, <2>3, <2>4, <2>5 DEF TypeOK, TypeInv, HalfInv
<1> QED
  BY <1>1, Invariant, PTL

(* Whatever run dies or request fails, an entry that a Check accepts has    *)
(* all its files: metadata and manifest are written last (store.go 109-117, *)
(* remote/backend.go 108-124).  Not claimed of metadata that a clear left   *)
(* as it died, nor that a blob is whole.                                    *)
THEOREM Complete == Spec => []EntriesComplete
<1>1. IInv => EntriesComplete
  BY DEF IInv, LocalComplete, RemoteComplete, EntriesComplete
<1> QED
  BY <1>1, Invariant, PTL

(* A run that executed the task, or restored it from a bucket of objects,   *)
(* leaves the outputs of its inputs; from a bucket of files an output is    *)
(* that of its inputs or truncated (hybrid.go 100-181, remote/backend.go    *)
(* 51-82).                                                                  *)
THEOREM Delivers == Spec => []RunDelivers
<1>1. IInv => RunDelivers
  BY DEF IInv, ProcInv, RestoreOf, Delivered, Got, RunDelivers
<1> QED
  BY <1>1, Invariant, PTL
================================================================================
