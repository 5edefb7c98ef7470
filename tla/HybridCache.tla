------------------------------ MODULE HybridCache ------------------------------
(***************************************************************************)
(* The cache of one task's outputs as the scheduler uses it (Check, then   *)
(* Restore, or execution and Save) over a HybridBackend: in every checkout *)
(* a local Store of files and metadata under .dagryn/cache, and a bucket   *)
(* that the checkouts share (remote.StorageBackend).                       *)
(*                                                                         *)
(* A key stands for the inputs it is the hash of, and for the content that *)
(* the task makes of them in each output file.  An entry's files are hard  *)
(* links, so a file has an inode: writing into it changes every link.  The *)
(* copying of a file is a step, as is every request to the bucket that     *)
(* matters to another.  A bucket of objects (S3, GCS) takes a Put whole or *)
(* not at all; a bucket of files (FilesystemBucket) creates the file and   *)
(* then writes it.  A request may fail and a process may die; operations   *)
(* on the checkout's own files do not fail.  Inputs and outputs are edited *)
(* between runs only, and a checkout runs one process.                     *)
(***************************************************************************)
EXTENDS Naturals, FiniteSets

CONSTANTS
    Host,           \* the checkouts
    Key,            \* the cache keys: what the inputs may be
    File,           \* the output files of the task
    Sampled,        \* those that the fast path of Restore looks for
    MaxRuns,        \* bound on the runs of all checkouts
    MaxFaults       \* bound on failed requests and crashes

ASSUME HybridCacheAssumption ==
    IsFiniteSet(Key) /\ Sampled \subseteq File /\ {MaxRuns, MaxFaults} \subseteq Nat

None    == "none"           \* no content: the file does not exist
Broken  == "broken"         \* the content of a file half written
Project == "project"        \* the place of a file in the checkout
ASSUME PlaceAssumption == {None, Broken, Project} \cap Key = {}

VARIABLES
    cfg,        \* the strategy, FallbackOnError, and the kind of the bucket
    input,      \* the inputs of the checkout
    disk,       \* of a file, per place, the project or an entry: inode, content
    meta,       \* metadata.json of an entry: none, one that lists no outputs
                \* (a marker, or half written), of outputs, or such a one that
                \* an interrupted clear has left
    dir,        \* the entries whose outputs directory exists
    blobs,      \* the files in the bucket, by content
    manifest,   \* the manifests in the bucket, a content per file
    halfBlobs,      \* the blobs and manifests in the bucket that are not
    halfManifests,  \* whole, each with the process that opened it last
    pc,         \* where the process of the checkout is
    todo,       \* the files that its current operation has still to handle
    held,       \* the manifest that Save is building or Restore has read
    last,       \* how the last run of the task ended
    runs,       \* how many runs there have been
    faults      \* how many requests failed and processes died

vlocal  == <<disk, meta, dir>>
vremote == <<blobs, manifest, halfBlobs, halfManifests>>
vproc   == <<pc, todo, held, last>>
vbound  == <<runs, faults>>
vars    == <<cfg, input, vlocal, vremote, vproc, vbound>>

Files      == cfg.bucket = "files"
LocalFirst == cfg.strategy = "local-first"

Place  == {Project} \cup Key
Absent == [ino |-> 0, val |-> None]
NoManifest == [f \in File |-> None]

(* Local first, FallbackOnError only decides how an error is reported.      *)
Init ==
    /\ cfg \in [strategy : {"local-first", "remote-first"}, fallback : BOOLEAN,
                bucket : {"objects", "files"}]
    /\ LocalFirst => cfg.fallback
    /\ input \in [Host -> Key]
    /\ disk = [h \in Host |-> [f \in File |-> [p \in Place |-> Absent]]]
    /\ meta = [h \in Host |-> [k \in Key |-> "none"]]
    /\ dir = [h \in Host |-> {}]
    /\ blobs = {} /\ manifest = [k \in Key |-> NoManifest]
    /\ halfBlobs = {} /\ halfManifests = {}
    /\ pc = [h \in Host |-> "idle"] /\ todo = [h \in Host |-> {}]
    /\ held = [h \in Host |-> NoManifest] /\ last = [h \in Host |-> "none"]
    /\ runs = 0 /\ faults = 0

--------------------------------------------------------------------------------
(* Files.  d is what the disk of a checkout has of one file.                *)

(* A file that is opened to be written keeps its inode if it exists.        *)
WriteInto(d, p, v) ==
    LET new == CHOOSE i \in 1 .. Cardinality(Place) : \A q \in Place : d[q].ino # i
    IN  IF d[p].ino = 0 THEN [d EXCEPT ![p] = [ino |-> new, val |-> v]]
        ELSE [q \in Place |-> IF d[q].ino = d[p].ino THEN [d[q] EXCEPT !.val = v] ELSE d[q]]

Remove(d, p) == [d EXCEPT ![p] = Absent]

(* copyFile: the destination is removed and linked to the source.           *)
CopyFile(d, from, to) == [d EXCEPT ![to] = d[from]]

(* The bucket.  Put opens an object, and closes it; if a second process has *)
(* opened it in between, it is whole when that one closes it, or before.    *)
Opened(half, x, h) == {o \in half : o[1] # x} \cup {<<x, h>>}
Closed(half, x, h) == {half \ {<<x, h>>}, {o \in half : o[1] # x}}
Whole(half, x)     == \A o \in half : o[1] # x

OnDisk(h, f, d) == disk' = [disk EXCEPT ![h][f] = d]
Val(h, f, p)    == disk[h][f][p].val

--------------------------------------------------------------------------------
(* The process of a checkout.                                               *)

Goto(h, l, fs) == pc' = [pc EXCEPT ![h] = l] /\ todo' = [todo EXCEPT ![h] = fs]
End(h, l, how) == pc' = [pc EXCEPT ![h] = l] /\ todo' = [todo EXCEPT ![h] = {}]
                  /\ last' = [last EXCEPT ![h] = how]
At(h, l)       == pc[h] = l
Drop(h)        == held' = [held EXCEPT ![h] = NoManifest]
Fault          == faults < MaxFaults /\ faults' = faults + 1
NoFault        == UNCHANGED faults

Local(h)  == meta[h][input[h]] # "none"
Remote(h) == manifest[input[h]] # NoManifest

RestoreLocal(h)  == Goto(h, "local", {})
RestoreRemote(h) == Goto(h, "fetch", {})
Execute(h)       == Goto(h, "exec", {})

(* Check, and the choice that Restore makes.  Local first, the remote is    *)
(* asked for what the local store has not got.                              *)
CheckLocalFirst(h) ==
    \/ Local(h) /\ RestoreLocal(h) /\ NoFault
    \/ ~Local(h) /\ Remote(h) /\ RestoreRemote(h) /\ NoFault
    \/ ~Local(h) /\ ~Remote(h) /\ Execute(h) /\ NoFault
    \/ ~Local(h) /\ Execute(h) /\ Fault

(* Remote first, the remote is asked by Check and again by Restore.  If one *)
(* request fails, the task is executed without fallback, and with fallback  *)
(* that Check or Restore turns to the local store.                          *)
CheckRemoteFirst(h) ==
    \/ Remote(h) /\ RestoreRemote(h) /\ NoFault
    \/ ~Remote(h) /\ Local(h) /\ RestoreLocal(h) /\ NoFault
    \/ ~Remote(h) /\ ~Local(h) /\ Execute(h) /\ NoFault
    \/ ~(cfg.fallback /\ Local(h)) /\ Execute(h) /\ Fault
    \/ cfg.fallback /\ (Local(h) \/ Remote(h)) /\ RestoreLocal(h) /\ Fault
    \/ cfg.fallback /\ Local(h) /\ Remote(h) /\ RestoreRemote(h) /\ Fault

Check(h) ==
    /\ At(h, "idle") /\ runs < MaxRuns /\ runs' = runs + 1
    /\ IF LocalFirst THEN CheckLocalFirst(h) ELSE CheckRemoteFirst(h)
    /\ last' = [last EXCEPT ![h] = "none"]
    /\ UNCHANGED <<cfg, input, vlocal, vremote, held>>

(* Store.Restore: no outputs directory is an error, and nothing is done if  *)
(* those outputs exist that the fast path samples of the metadata's.        *)
AlreadyPresent(h) ==
    /\ meta[h][input[h]] \in {"outputs", "left"}
    /\ \A f \in Sampled : Val(h, f, Project) # None

OpenLocal(h) ==
    LET k == input[h] IN
    /\ At(h, "local")
    /\ \/ k \notin dir[h] /\ Execute(h) /\ UNCHANGED last
       \/ k \in dir[h] /\ AlreadyPresent(h) /\ End(h, "idle", "local")
       \/ /\ k \in dir[h] /\ ~AlreadyPresent(h)
          /\ Goto(h, "copy", {f \in File : Val(h, f, k) # None}) /\ UNCHANGED last
    /\ UNCHANGED <<cfg, input, vlocal, vremote, held, vbound>>

RestoreFile(h) ==
    /\ At(h, "copy")
    /\ \/ todo[h] = {} /\ End(h, "idle", "local") /\ UNCHANGED disk
       \/ \E f \in todo[h] :
            /\ OnDisk(h, f, CopyFile(disk[h][f], input[h], Project))
            /\ Goto(h, "copy", todo[h] \ {f}) /\ UNCHANGED last
    /\ UNCHANGED <<cfg, input, meta, dir, vremote, held, vbound>>

(* StorageBackend.Restore reads the manifest, which must be whole for it.   *)
FetchManifest(h) ==
    LET m == manifest[input[h]] IN
    /\ At(h, "fetch") /\ Whole(halfManifests, input[h])
    /\ held' = [held EXCEPT ![h] = m]
    /\ Goto(h, "remote", {f \in File : m[f] # None})
    /\ UNCHANGED <<cfg, input, vlocal, vremote, last, vbound>>

(* It writes the blobs into the files that exist, as they are: the digest   *)
(* is not checked.                                                          *)
DownloadFile(h) ==
    /\ At(h, "remote")
    /\ \E f \in todo[h] :
         LET b == <<f, held[h][f]>>
             v == IF Whole(halfBlobs, b) THEN held[h][f] ELSE Broken
         IN  /\ b \in blobs
             /\ OnDisk(h, f, WriteInto(disk[h][f], Project, v))
             /\ Goto(h, "remote", todo[h] \ {f})
    /\ UNCHANGED <<cfg, input, meta, dir, vremote, held, last, vbound>>

(* Faulty: a file that cannot be downloaded is passed over.                 *)
RestoreFails_Skips(h) ==
    /\ At(h, "remote") /\ Fault
    /\ \E f \in todo[h] : Goto(h, "remote", todo[h] \ {f})
    /\ UNCHANGED <<cfg, input, vlocal, vremote, held, last, runs>>

(* A download that ends early leaves the file as it was, or half written.   *)
HalfWritten(h) ==
    \/ UNCHANGED disk
    \/ /\ At(h, "remote")
       /\ \E f \in todo[h] : OnDisk(h, f, WriteInto(disk[h][f], Project, Broken))

(* A request that fails, or a manifest that does not parse: remote first,   *)
(* the local entry is tried.                                                *)
RestoreFails(h) ==
    /\ \/ At(h, "fetch") /\ ~Whole(halfManifests, input[h]) /\ NoFault
       \/ At(h, "fetch") /\ Fault
       \/ At(h, "remote") /\ todo[h] # {} /\ Fault
    /\ IF ~LocalFirst /\ cfg.fallback THEN RestoreLocal(h) ELSE Execute(h)
    /\ HalfWritten(h) /\ Drop(h)
    /\ UNCHANGED <<cfg, input, meta, dir, vremote, last, runs>>

(* warmLocal saves an entry without outputs.                                *)
WarmLocal(h) ==
    LET k == input[h] IN
    /\ At(h, "remote") /\ todo[h] = {}
    /\ meta' = [meta EXCEPT ![h][k] = IF @ = "none" THEN "marker" ELSE @]
    /\ dir' = [dir EXCEPT ![h] = IF Local(h) THEN @ ELSE @ \cup {k}]
    /\ End(h, "idle", "remote") /\ Drop(h)
    /\ UNCHANGED <<cfg, input, disk, vremote, vbound>>

--------------------------------------------------------------------------------
(* The execution, and Save.                                                 *)

(* The task writes its outputs, into the files there are or in place of     *)
(* them, and if it fails, some of them.                                     *)
Written(h, S, into) ==
    disk' = [disk EXCEPT ![h] = [f \in File |->
        IF f \notin S THEN disk[h][f]
        ELSE WriteInto(IF into THEN disk[h][f] ELSE Remove(disk[h][f], Project),
                       Project, input[h])]]

Exec(h) ==
    /\ At(h, "exec")
    /\ \E into \in BOOLEAN :
         \/ /\ Written(h, File, into) /\ last' = [last EXCEPT ![h] = "executed"]
            /\ Goto(h, IF LocalFirst THEN "save" ELSE "ask", {})
         \/ \E S \in SUBSET File : Written(h, S, into) /\ End(h, "idle", "failed")
    /\ UNCHANGED <<cfg, input, meta, dir, vremote, held, vbound>>

(* Local first, the local entry is saved and then the remote one; remote    *)
(* first, the other way round.                                              *)
AfterLocal(h)  == Goto(h, IF LocalFirst THEN "ask" ELSE "idle", {})
AfterRemote(h) == Goto(h, IF LocalFirst THEN "idle" ELSE "save", {})

(* Store.Save does nothing if the entry has metadata.                       *)
OpenSave(h) ==
    /\ At(h, "save")
    /\ IF Local(h) THEN AfterLocal(h) /\ UNCHANGED dir
       ELSE Goto(h, "link", File) /\ dir' = [dir EXCEPT ![h] = @ \cup {input[h]}]
    /\ UNCHANGED <<cfg, input, disk, meta, vremote, held, last, vbound>>

SaveFile(h) ==
    /\ At(h, "link")
    /\ \E f \in todo[h] :
         /\ OnDisk(h, f, CopyFile(disk[h][f], Project, input[h]))
         /\ Goto(h, "link", todo[h] \ {f})
    /\ UNCHANGED <<cfg, input, meta, dir, vremote, held, last, vbound>>

SetMetadata(h) ==
    /\ meta' = [meta EXCEPT ![h][input[h]] = "outputs"]
    /\ AfterLocal(h)
    /\ UNCHANGED <<cfg, input, disk, dir, vremote, held, last, vbound>>

(* Faulty: the metadata is written with files still to copy.                *)
SaveMetadata_Early(h) == At(h, "link") /\ Cardinality(todo[h]) <= 1 /\ SetMetadata(h)

(* The metadata comes last.                                                 *)
SaveMetadata(h) == At(h, "link") /\ todo[h] = {} /\ SetMetadata(h)

(* The remote is not written if it has the entry; a failed request to know  *)
(* counts as no.                                                            *)
AskRemote(h) ==
    /\ At(h, "ask")
    /\ \/ Remote(h) /\ AfterRemote(h) /\ NoFault
       \/ ~Remote(h) /\ Goto(h, "upload", File) /\ NoFault
       \/ Goto(h, "upload", File) /\ Fault
    /\ Drop(h)
    /\ UNCHANGED <<cfg, input, vlocal, vremote, last, runs>>

(* A file goes to the bucket under its digest, unless it is there already,  *)
(* and into the manifest.                                                   *)
OfferFile(h) ==
    /\ At(h, "upload")
    /\ \E f \in todo[h] :
         /\ held' = [held EXCEPT ![h][f] = Val(h, f, Project)]
         /\ IF <<f, Val(h, f, Project)>> \in blobs THEN Goto(h, "upload", todo[h] \ {f})
            ELSE Goto(h, "put", todo[h])
    /\ UNCHANGED <<cfg, input, vlocal, vremote, last, vbound>>

(* The file that is being put is the one in the manifest and still to do.   *)
PutBlob(h) ==
    /\ At(h, "put")
    /\ \E f \in todo[h] : LET b == <<f, held[h][f]>> IN
         /\ held[h][f] # None
         /\ blobs' = blobs \cup {b}
         /\ IF Files THEN halfBlobs' = Opened(halfBlobs, b, h) /\ Goto(h, "write", todo[h])
            ELSE UNCHANGED halfBlobs /\ Goto(h, "upload", todo[h] \ {f})
    /\ UNCHANGED <<cfg, input, vlocal, manifest, halfManifests, held, last, vbound>>

WriteBlob(h) ==
    /\ At(h, "write")
    /\ \E f \in todo[h] :
         /\ held[h][f] # None
         /\ halfBlobs' \in Closed(halfBlobs, <<f, held[h][f]>>, h)
         /\ Goto(h, "upload", todo[h] \ {f})
    /\ UNCHANGED <<cfg, input, vlocal, blobs, manifest, halfManifests, held, last, vbound>>

(* The manifest comes last.                                                 *)
PutManifest(h) ==
    /\ At(h, "upload") /\ todo[h] = {}
    /\ manifest' = [manifest EXCEPT ![input[h]] = held[h]] /\ Drop(h)
    /\ IF Files THEN /\ halfManifests' = Opened(halfManifests, input[h], h)
                     /\ Goto(h, "seal", {})
       ELSE UNCHANGED halfManifests /\ AfterRemote(h)
    /\ UNCHANGED <<cfg, input, vlocal, blobs, halfBlobs, last, vbound>>

WriteManifest(h) ==
    /\ At(h, "seal")
    /\ halfManifests' \in Closed(halfManifests, input[h], h)
    /\ AfterRemote(h)
    /\ UNCHANGED <<cfg, input, vlocal, blobs, manifest, halfBlobs, held, last, vbound>>

(* A request or a write that fails ends the save of the remote entry, and   *)
(* remote first without fallback that of the local one.                     *)
UploadFails(h) ==
    /\ pc[h] \in {"upload", "put", "write", "seal"} /\ Fault
    /\ IF LocalFirst \/ ~cfg.fallback THEN Goto(h, "idle", {}) ELSE Goto(h, "save", {})
    /\ Drop(h)
    /\ UNCHANGED <<cfg, input, vlocal, vremote, last, runs>>

(* The process dies.  metadata.json may be half written.                    *)
Crash(h) ==
    /\ ~At(h, "idle") /\ Fault
    /\ End(h, "idle", "none")
    /\ HalfWritten(h) /\ Drop(h)
    /\ \/ UNCHANGED meta
       \/ /\ At(h, "link") /\ todo[h] = {}
          /\ meta' = [meta EXCEPT ![h][input[h]] = "marker"]
    /\ UNCHANGED <<cfg, input, dir, vremote, runs>>

--------------------------------------------------------------------------------
(* Between runs.                                                            *)

Between(h) == At(h, "idle") /\ last' = [last EXCEPT ![h] = "none"]

(* The inputs change, as when another branch is checked out.                *)
Edit(h, k) ==
    /\ Between(h) /\ runs < MaxRuns /\ k # input[h]
    /\ input' = [input EXCEPT ![h] = k]
    /\ UNCHANGED <<cfg, vlocal, vremote, pc, todo, held, vbound>>

(* Outputs are removed.                                                     *)
Clean(h, S) ==
    /\ Between(h) /\ runs < MaxRuns /\ \E f \in S : Val(h, f, Project) # None
    /\ disk' = [disk EXCEPT ![h] = [f \in File |->
                  IF f \in S THEN Remove(disk[h][f], Project) ELSE disk[h][f]]]
    /\ UNCHANGED <<cfg, input, meta, dir, vremote, pc, todo, held, vbound>>

(* Of the local entries those in G go, and of the entry of k the files S.   *)
Removed(h, G, k, S) ==
    disk' = [disk EXCEPT ![h] = [f \in File |-> [p \in Place |->
               IF p \in G \/ (p = k /\ f \in S) THEN Absent ELSE disk[h][f][p]]]]

(* Faulty: the metadata survives.                                           *)
Clear_KeepsMetadata(h) ==
    /\ Between(h) /\ runs < MaxRuns /\ \E k \in Key : k \in dir[h] \/ meta[h][k] # "none"
    /\ Removed(h, Key, input[h], File)
    /\ dir' = [dir EXCEPT ![h] = {}]
    /\ UNCHANGED <<cfg, input, meta, vremote, pc, todo, held, vbound>>

(* dagryn cache clear: the local entries go.                                *)
Clear(h) ==
    /\ Between(h) /\ runs < MaxRuns /\ \E k \in Key : k \in dir[h] \/ meta[h][k] # "none"
    /\ Removed(h, Key, input[h], File)
    /\ meta' = [meta EXCEPT ![h] = [k \in Key |-> "none"]]
    /\ dir' = [dir EXCEPT ![h] = {}]
    /\ UNCHANGED <<cfg, input, vremote, pc, todo, held, vbound>>

(* The command dies: os.RemoveAll has removed some entries, and of the one  *)
(* that it was at, k, some files, or all with their directory (D), and      *)
(* perhaps the metadata (M).                                                *)
ClearDies(h, G, k, S, D, M) ==
    /\ Between(h) /\ runs < MaxRuns /\ k \in dir[h] \ G /\ Fault
    /\ D => S = File
    /\ Removed(h, G, k, S)
    /\ meta' = [meta EXCEPT ![h] = [j \in Key |->
                  IF j \in G \/ (j = k /\ M) THEN "none"
                  ELSE IF j = k /\ @[j] = "outputs" THEN "left" ELSE @[j]]]
    /\ dir' = [dir EXCEPT ![h] = @ \ (G \cup IF D THEN {k} ELSE {})]
    /\ UNCHANGED <<cfg, input, vremote, pc, todo, held, runs>>

--------------------------------------------------------------------------------
Restore(h) ==
    \/ OpenLocal(h) \/ RestoreFile(h)
    \/ FetchManifest(h) \/ DownloadFile(h) \/ RestoreFails(h) \/ WarmLocal(h)
Save(h) ==
    \/ OpenSave(h) \/ SaveFile(h) \/ SaveMetadata(h)
    \/ AskRemote(h) \/ OfferFile(h) \/ PutBlob(h) \/ WriteBlob(h)
    \/ PutManifest(h) \/ WriteManifest(h) \/ UploadFails(h)
User(h) ==
    \/ Clear(h)
    \/ /\ At(h, "idle") /\ faults < MaxFaults  \* so that TLC tries no argument in vain
       /\ \E G \in SUBSET Key, k \in Key, S \in SUBSET File, D, M \in BOOLEAN :
             ClearDies(h, G, k, S, D, M)
    \/ \E k \in Key : Edit(h, k)
    \/ \E S \in SUBSET File : Clean(h, S)

Next ==
    \E h \in Host : Check(h) \/ Restore(h) \/ Exec(h) \/ Save(h) \/ Crash(h) \/ User(h)

Spec == Init /\ [][Next]_vars

--------------------------------------------------------------------------------
Vals == Key \cup {None, Broken}

(* The variables have the values the code can give them: links of one inode *)
(* have one content, metadata of outputs has its directory, and only a Put  *)
(* into a bucket of files leaves something half written, while it goes on   *)
(* or because it failed or died.                                            *)
TypeOK ==
    /\ cfg \in [strategy : {"local-first", "remote-first"}, fallback : BOOLEAN,
                bucket : {"objects", "files"}]
    /\ input \in [Host -> Key]
    /\ disk \in [Host -> [File -> [Place -> [ino : 0 .. Cardinality(Place), val : Vals]]]]
    /\ \A h \in Host, f \in File, p, q \in Place :
         disk[h][f][p].ino = disk[h][f][q].ino => Val(h, f, p) = Val(h, f, q)
    /\ meta \in [Host -> [Key -> {"none", "marker", "outputs", "left"}]]
    /\ \A h \in Host : {k \in Key : meta[h][k] = "outputs"} \subseteq dir[h]
                      /\ dir[h] \subseteq Key
    /\ blobs \subseteq File \X Key
    /\ manifest \in [Key -> [File -> Vals]] /\ held \in [Host -> [File -> Vals]]
    /\ halfBlobs \subseteq blobs \X Host /\ halfManifests \subseteq Key \X Host
    /\ \A o \in halfBlobs : Files /\ (faults > 0 \/ At(o[2], "write"))
    /\ \A o \in halfManifests : Files /\ (faults > 0 \/ At(o[2], "seal"))
    /\ pc \in [Host -> {"idle", "local", "copy", "fetch", "remote", "exec", "save", "link",
                        "ask", "upload", "put", "write", "seal"}]
    /\ todo \in [Host -> SUBSET File]
    /\ last \in [Host -> {"none", "local", "remote", "executed", "failed"}]
    /\ runs \in 0 .. MaxRuns /\ faults \in 0 .. MaxFaults

(* However runs die and requests fail, an entry that a Check accepts has    *)
(* all its files: a local one whose metadata lists outputs has each of them *)
(* (store.go 109-117), unless a clear died on it; a remote one has each     *)
(* file of its manifest with the content of its own key, and no download    *)
(* misses a blob (remote/backend.go 108-124), though in a bucket of files   *)
(* the blob may be half written.                                            *)
EntriesComplete ==
    /\ \A h \in Host, k \in Key : meta[h][k] = "outputs" =>
           \A f \in File : Val(h, f, k) # None
    /\ \A k \in Key : manifest[k] # NoManifest =>
           \A f \in File : manifest[k][f] = k /\ <<f, k>> \in blobs

(* After a run that executed the task the outputs are those of its inputs,  *)
(* whatever the checkout held before and whichever attempts to restore      *)
(* failed half-way; after one that restored it from a bucket of objects     *)
(* too.  From a bucket of files an output may come truncated, since nobody  *)
(* checks the digest, but it is never one of other inputs.                  *)
RunDelivers ==
    \A h \in Host : At(h, "idle") =>
        /\ last[h] = "executed" \/ (last[h] = "remote" /\ ~Files) =>
             \A f \in File : Val(h, f, Project) = input[h]
        /\ last[h] = "remote" =>
             \A f \in File : Val(h, f, Project) \in {input[h], Broken}

(* The comment in Store.Restore, "A cache hit means inputs haven't changed, *)
(* so existing outputs are still valid": after a hit in the local store the *)
(* outputs are those of the inputs.                                         *)
HitDelivers ==
    \A h \in Host : At(h, "idle") /\ last[h] = "local" =>
        \A f \in File : Val(h, f, Project) = input[h]
================================================================================
