--------------------------- MODULE RouteFilesProofs ---------------------------
(***************************************************************************)
(* Proofs about RouteFiles, for any set of files, of directories and of     *)
(* base names, lists of any length and any number of calls.                 *)
(***************************************************************************)
EXTENDS RouteFiles, TLAPS

\* The steps between MakeDestDir and the end of a move.
Moving == {"rename", "open", "create", "write", "unlink"}

\* While a file is being moved, it is a file of the list and has a destination.
MoveInv ==
  rpc \in Moving => /\ at <= Len(job.files) /\ File \in Files
                    /\ ~job.deleteAfter /\ DestDir(job) \in Dirs

\* A copy is under its own base name.
NamesInv == \A d \in Dirs, n \in Names :
              out[<<d, n>>] # NoCopy => Base[out[<<d, n>>].of] = n

\* copyFile truncates only with its source at hand; the source is removed only
\* when the copy is whole.
CopyInv == /\ rpc \in {"create", "write"} => File \in present
           /\ rpc = "unlink" => out[Dest(job, File)] = Whole(File)

RouteInv == RouteTypeOK /\ MoveInv /\ NamesInv /\ CopyInv

-----------------------------------------------------------------------------

LEMMA CopyFacts ==
  \A f \in Files : /\ Whole(f) \in Copy /\ Whole(f).of = f /\ Whole(f) # NoCopy
                   /\ Part(f) \in Copy /\ Part(f).of = f /\ Part(f) # NoCopy
                   /\ \A g \in Files : Whole(g) # Part(f)
                   /\ \A g \in Files : Whole(g) = Whole(f) => g = f
<1> TAKE f \in Files
<1>1. /\ Whole(f) \in Copy /\ Whole(f).of = f
      /\ Part(f) \in Copy /\ Part(f).of = f
  BY DEF Copy, Whole, Part
<1>2. Whole(f).kind = "whole" /\ Part(f).kind = "part" /\ NoCopy.kind = "none"
  BY DEF Whole, Part, NoCopy
<1>3. \A g \in Files : Whole(g).kind = "whole" /\ Whole(g).of = g
  BY DEF Whole
<1>4. Whole(f) # NoCopy /\ Part(f) # NoCopy
  BY <1>2
<1>5. \A g \in Files : Whole(g) # Part(f)
  BY <1>2, <1>3
<1>6. \A g \in Files : Whole(g) = Whole(f) => g = f
  BY <1>1, <1>3
<1> QED BY <1>1, <1>4, <1>5, <1>6

LEMMA DestFacts ==
  ASSUME NEW j, NEW f \in Files, DestDir(j) \in Dirs
  PROVE  Dest(j, f) \in Dirs \X Names
BY PathAssumption DEF Dest

LEMMA JobFacts ==
  ASSUME NEW j \in Job
  PROVE  /\ j.files \in Seq(Files \cup {NoPath})
         /\ j.deleteAfter \in BOOLEAN
         /\ DestDir(j) \in Dirs \cup {NoPath}
         /\ \A i \in 1..Len(j.files) : j.files[i] \in Files \cup {NoPath}
BY DEF Job, DestDir

\* The file of the current index is a path of the list.
LEMMA FileAtIndex ==
  ASSUME RouteTypeOK, AtFile
  PROVE  /\ File \in Files \cup {NoPath}
         /\ at + 1 \in Nat \ {0}
<1>1. at \in 1..Len(job.files) /\ at + 1 \in Nat \ {0}
  BY DEF RouteTypeOK, AtFile, Job
<1> QED BY <1>1, JobFacts DEF RouteTypeOK, File

LEMMA InitInv == RouteInit => RouteInv
<1> SUFFICES ASSUME RouteInit PROVE RouteInv
  OBVIOUS
<1>1. EmptyJob \in Job
  BY DEF EmptyJob, Job
<1>2. RouteTypeOK
  <2>1. out \in [Dirs \X Names -> Copy \cup {NoCopy}]
    BY DEF RouteInit
  <2>2. /\ present \subseteq Files /\ job \in Job /\ at \in Nat \ {0}
        /\ rpc \in RouteSteps /\ routeRet \in {"nil", "error"} /\ purged \subseteq Files
    BY <1>1 DEF RouteInit, RouteSteps
  <2> QED BY <2>1, <2>2 DEF RouteTypeOK
<1>3. NamesInv
  BY DEF RouteInit, NamesInv
<1>4. MoveInv /\ CopyInv
  BY DEF RouteInit, MoveInv, CopyInv, Moving
<1> QED BY <1>2, <1>3, <1>4 DEF RouteInv

\* Putting a copy of f under its own base name keeps the type of out and the
\* naming invariant.
LEMMA PutCopy ==
  ASSUME RouteInv, NEW f \in Files, NEW c \in Copy, c.of = f, DestDir(job) \in Dirs,
         out' = [out EXCEPT ![Dest(job, f)] = c]
  PROVE  /\ out' \in [Dirs \X Names -> Copy \cup {NoCopy}]
         /\ NamesInv'
         /\ out'[Dest(job, f)] = c
         /\ \A p \in Dirs \X Names : p # Dest(job, f) => out'[p] = out[p]
<1>1. Dest(job, f) \in Dirs \X Names
  BY DestFacts
<1>2. out \in [Dirs \X Names -> Copy \cup {NoCopy}]
  BY DEF RouteInv, RouteTypeOK
<1>3. /\ out' \in [Dirs \X Names -> Copy \cup {NoCopy}]
      /\ out'[Dest(job, f)] = c
      /\ \A p \in Dirs \X Names : p # Dest(job, f) => out'[p] = out[p]
  BY <1>1, <1>2
<1>4. NamesInv'
  <2> SUFFICES ASSUME NEW d \in Dirs, NEW n \in Names, out'[<<d, n>>] # NoCopy
               PROVE  Base[out'[<<d, n>>].of] = n
    BY DEF NamesInv
  <2>1. CASE <<d, n>> = Dest(job, f)
    BY <2>1, <1>3 DEF Dest
  <2>2. CASE <<d, n>> # Dest(job, f)
    BY <2>2, <1>3 DEF RouteInv, NamesInv
  <2> QED BY <2>1, <2>2
<1> QED BY <1>3, <1>4

-----------------------------------------------------------------------------

\* Steps that leave the disk alone: what remains is the control.
LEMMA SameDisk ==
  ASSUME RouteInv, DiskUnchanged,
         job' \in Job, at' \in Nat \ {0}, rpc' \in RouteSteps,
         routeRet' \in {"nil", "error"}, MoveInv', CopyInv'
  PROVE  RouteInv'
<1>1. RouteTypeOK'
  BY DEF RouteInv, RouteTypeOK, DiskUnchanged
<1>2. NamesInv'
  BY DEF RouteInv, NamesInv, DiskUnchanged
<1> QED BY <1>1, <1>2 DEF RouteInv

\* Leaving the loop with an error.
LEMMA FailInv == RouteInv /\ RouteFails /\ DiskUnchanged => RouteInv'
<1> SUFFICES ASSUME RouteInv, RouteFails, DiskUnchanged PROVE RouteInv'
  OBVIOUS
<1>1. /\ job' \in Job /\ at' \in Nat \ {0} /\ rpc' \in RouteSteps
      /\ routeRet' \in {"nil", "error"}
  BY DEF RouteFails, RouteInv, RouteTypeOK, RouteSteps
<1>2. MoveInv' /\ CopyInv'
  BY DEF RouteFails, MoveInv, CopyInv, Moving
<1> QED BY <1>1, <1>2, SameDisk

LEMMA ControlInv ==
  RouteInv /\ (\/ \E j \in Job : RouteCall(j)
               \/ RouteReturn \/ SkipFile \/ RouteDies \/ RouteRevives) => RouteInv'
<1> SUFFICES ASSUME RouteInv,
                    \/ \E j \in Job : RouteCall(j)
                    \/ RouteReturn \/ SkipFile \/ RouteDies \/ RouteRevives
             PROVE  RouteInv'
  OBVIOUS
<1>1. ASSUME NEW j \in Job, RouteCall(j) PROVE RouteInv'
  <2>1. /\ job' \in Job /\ at' \in Nat \ {0} /\ rpc' \in RouteSteps
        /\ routeRet' \in {"nil", "error"}
    BY <1>1 DEF RouteCall, RouteSteps
  <2>2. MoveInv' /\ CopyInv'
    BY <1>1 DEF RouteCall, MoveInv, CopyInv, Moving
  <2> QED BY <1>1, <2>1, <2>2, SameDisk DEF RouteCall
<1>2. CASE RouteReturn \/ RouteDies \/ RouteRevives
  <2>1. /\ job' \in Job /\ at' \in Nat \ {0} /\ rpc' \in RouteSteps
        /\ routeRet' \in {"nil", "error"}
    BY <1>2 DEF RouteReturn, RouteDies, RouteRevives, RouteSteps, RouteInv, RouteTypeOK
  <2>2. MoveInv' /\ CopyInv'
    BY <1>2 DEF RouteReturn, RouteDies, RouteRevives, MoveInv, CopyInv, Moving
  <2> QED BY <1>2, <2>1, <2>2, SameDisk DEF RouteReturn, RouteDies, RouteRevives
<1>3. CASE SkipFile
  <2>1. /\ job' \in Job /\ at' \in Nat \ {0} /\ rpc' \in RouteSteps
        /\ routeRet' \in {"nil", "error"}
    BY <1>3, FileAtIndex DEF SkipFile, NextFile, RouteSteps, RouteInv, RouteTypeOK
  <2>2. MoveInv' /\ CopyInv'
    BY <1>3 DEF SkipFile, NextFile, MoveInv, CopyInv, Moving
  <2> QED BY <1>3, <2>1, <2>2, SameDisk DEF SkipFile
<1> QED BY <1>1, <1>2, <1>3

LEMMA DeleteInv == RouteInv /\ DeleteFile => RouteInv'
<1> SUFFICES ASSUME RouteInv, DeleteFile PROVE RouteInv'
  OBVIOUS
<1>1. File \in Files /\ at + 1 \in Nat \ {0}
  BY FileAtIndex DEF DeleteFile, RouteInv
<1>2. CASE RouteFails /\ DiskUnchanged
  BY <1>2, FailInv
<1>3. CASE /\ present' = present \ {File}
           /\ purged' = purged \cup ({File} \cap present)
           /\ NextFile /\ UNCHANGED out
  <2>1. RouteTypeOK'
    BY <1>1, <1>3 DEF RouteInv, RouteTypeOK, NextFile, RouteSteps
  <2>2. NamesInv'
    BY <1>3 DEF RouteInv, NamesInv
  <2>3. MoveInv' /\ CopyInv'
    BY <1>3 DEF NextFile, MoveInv, CopyInv, Moving
  <2> QED BY <2>1, <2>2, <2>3 DEF RouteInv
<1> QED BY <1>2, <1>3 DEF DeleteFile

LEMMA MakeDestDirInv == RouteInv /\ MakeDestDir => RouteInv'
<1> SUFFICES ASSUME RouteInv, MakeDestDir PROVE RouteInv'
  OBVIOUS
<1>1. /\ File \in Files /\ at <= Len(job.files) /\ ~job.deleteAfter
      /\ DestDir(job) \in Dirs
  BY FileAtIndex, JobFacts DEF MakeDestDir, AtFile, RouteInv, RouteTypeOK
<1>2. CASE RouteFails
  BY <1>2, FailInv DEF MakeDestDir
<1>3. CASE StepTo("rename")
  <2>1. /\ job' \in Job /\ at' \in Nat \ {0} /\ rpc' \in RouteSteps
        /\ routeRet' \in {"nil", "error"}
    BY <1>3 DEF StepTo, RouteSteps, RouteInv, RouteTypeOK
  <2>2. MoveInv' /\ CopyInv'
    BY <1>1, <1>3 DEF StepTo, MoveInv, CopyInv, File, DestDir
  <2> QED BY <2>1, <2>2, SameDisk DEF MakeDestDir
<1> QED BY <1>2, <1>3 DEF MakeDestDir

LEMMA RenameInv == RouteInv /\ RenameFile => RouteInv'
<1> SUFFICES ASSUME RouteInv, RenameFile PROVE RouteInv'
  OBVIOUS
<1>1. /\ File \in Files /\ at + 1 \in Nat \ {0} /\ DestDir(job) \in Dirs
  BY DEF RouteInv, MoveInv, RenameFile, Moving, RouteTypeOK
<1>2. CASE StepTo("open") /\ DiskUnchanged
  <2>1. /\ job' \in Job /\ at' \in Nat \ {0} /\ rpc' \in RouteSteps
        /\ routeRet' \in {"nil", "error"}
    BY <1>2 DEF StepTo, RouteSteps, RouteInv, RouteTypeOK
  <2>2. MoveInv' /\ CopyInv'
    BY <1>2 DEF StepTo, RenameFile, RouteInv, MoveInv, CopyInv, File, DestDir, Moving
  <2> QED BY <1>2, <2>1, <2>2, SameDisk
<1>3. CASE /\ File \in present
           /\ out' = [out EXCEPT ![Dest(job, File)] = Whole(File)]
           /\ present' = present \ {File}
           /\ NextFile /\ UNCHANGED purged
  <2>1. out' \in [Dirs \X Names -> Copy \cup {NoCopy}] /\ NamesInv'
    BY <1>1, <1>3, CopyFacts, PutCopy
  <2>2. RouteTypeOK'
    BY <1>1, <1>3, <2>1 DEF RouteInv, RouteTypeOK, NextFile, RouteSteps
  <2>3. MoveInv' /\ CopyInv'
    BY <1>3 DEF NextFile, MoveInv, CopyInv, Moving
  <2> QED BY <2>1, <2>2, <2>3 DEF RouteInv
<1> QED BY <1>2, <1>3 DEF RenameFile

LEMMA OpenInv == RouteInv /\ OpenSource => RouteInv'
<1> SUFFICES ASSUME RouteInv, OpenSource PROVE RouteInv'
  OBVIOUS
<1>1. CASE RouteFails
  BY <1>1, FailInv DEF OpenSource
<1>2. CASE File \in present /\ StepTo("create")
  <2>1. /\ job' \in Job /\ at' \in Nat \ {0} /\ rpc' \in RouteSteps
        /\ routeRet' \in {"nil", "error"}
    BY <1>2 DEF StepTo, RouteSteps, RouteInv, RouteTypeOK
  <2>2. MoveInv'
    BY <1>2 DEF StepTo, OpenSource, RouteInv, MoveInv, File, DestDir, Moving
  <2>3. CopyInv'
    BY <1>2 DEF StepTo, OpenSource, CopyInv, File, DiskUnchanged
  <2> QED BY <2>1, <2>2, <2>3, SameDisk DEF OpenSource
<1> QED BY <1>1, <1>2 DEF OpenSource

\* CreateDest and WriteDest put a copy of the current file at its destination.
LEMMA CopyStepInv ==
  ASSUME RouteInv, rpc \in Moving, NEW c \in Copy, c.of = File,
         out' = [out EXCEPT ![Dest(job, File)] = c],
         UNCHANGED <<present, purged>>, NEW step \in Moving, StepTo(step),
         step \in {"create", "write"} => File \in present,
         step = "unlink" => c = Whole(File)
  PROVE  RouteInv'
<1>1. File \in Files /\ DestDir(job) \in Dirs
  BY DEF RouteInv, MoveInv
<1>2. /\ out' \in [Dirs \X Names -> Copy \cup {NoCopy}] /\ NamesInv'
      /\ out'[Dest(job, File)] = c
  BY <1>1, PutCopy
<1>3. rpc' = step /\ job' = job /\ at' = at /\ routeRet' = routeRet
  BY DEF StepTo
<1>4. rpc' \in RouteSteps
  BY <1>3 DEF Moving, RouteSteps
<1>5. RouteTypeOK'
  BY <1>2, <1>3, <1>4 DEF RouteInv, RouteTypeOK
<1>6. MoveInv'
  BY <1>3 DEF RouteInv, MoveInv, File, DestDir
<1>7. File' = File /\ Dest(job, File)' = Dest(job, File)
  BY <1>3 DEF File, Dest, DestDir
<1>8. CopyInv'
  BY <1>2, <1>3, <1>7 DEF CopyInv, Whole
<1> QED BY <1>2, <1>5, <1>6, <1>8 DEF RouteInv

LEMMA CreateInv == RouteInv /\ CreateDest => RouteInv'
<1> SUFFICES ASSUME RouteInv, CreateDest PROVE RouteInv'
  OBVIOUS
<1>1. CASE RouteFails /\ DiskUnchanged
  BY <1>1, FailInv
<1>2. CASE /\ out' = [out EXCEPT ![Dest(job, File)] = Part(File)]
           /\ StepTo("write") /\ UNCHANGED <<present, purged>>
  <2>1. File \in Files /\ File \in present /\ rpc \in Moving /\ "write" \in Moving
    BY DEF RouteInv, MoveInv, CopyInv, CreateDest, Moving
  <2> QED BY <1>2, <2>1, CopyFacts, CopyStepInv
<1> QED BY <1>1, <1>2 DEF CreateDest

LEMMA WriteInv == RouteInv /\ WriteDest => RouteInv'
<1> SUFFICES ASSUME RouteInv, WriteDest PROVE RouteInv'
  OBVIOUS
<1>1. CASE RouteFails /\ DiskUnchanged
  BY <1>1, FailInv
<1>2. CASE /\ out' = [out EXCEPT ![Dest(job, File)] = Whole(File)]
           /\ StepTo("unlink") /\ UNCHANGED <<present, purged>>
  <2>1. File \in Files /\ rpc \in Moving /\ "unlink" \in Moving
    BY DEF RouteInv, MoveInv, WriteDest, Moving
  <2> QED BY <1>2, <2>1, CopyFacts, CopyStepInv
<1> QED BY <1>1, <1>2 DEF WriteDest

LEMMA UnlinkInv == RouteInv /\ UnlinkSource => RouteInv'
<1> SUFFICES ASSUME RouteInv, UnlinkSource PROVE RouteInv'
  OBVIOUS
<1>1. RouteTypeOK'
  BY DEF RouteInv, RouteTypeOK, UnlinkSource, NextFile, RouteSteps
<1>2. NamesInv'
  BY DEF RouteInv, NamesInv, UnlinkSource
<1>3. MoveInv' /\ CopyInv'
  BY DEF UnlinkSource, NextFile, MoveInv, CopyInv, Moving
<1> QED BY <1>1, <1>2, <1>3 DEF RouteInv

LEMMA RouteStepInv == RouteInv /\ [RouteNext]_routeVars => RouteInv'
<1> SUFFICES ASSUME RouteInv, [RouteNext]_routeVars PROVE RouteInv'
  OBVIOUS
<1>1. CASE UNCHANGED routeVars
  BY <1>1 DEF routeVars, RouteInv, RouteTypeOK, MoveInv, NamesInv, CopyInv, File, DestDir, Dest
<1>2. CASE RouteNext
  BY <1>2, ControlInv, DeleteInv, MakeDestDirInv, RenameInv, OpenInv, CreateInv,
     WriteInv, UnlinkInv DEF RouteNext, RouteStep
<1> QED BY <1>1, <1>2

(* Every reachable state of routing is well typed, and its inductive         *)
(* invariant holds: a move has a file and a destination, a copy carries its  *)
(* own base name, and the source is there until the copy is whole.           *)
THEOREM RouteTypeCorrect == RouteSpec => [](RouteTypeOK /\ RouteInv)
<1>1. RouteInv => RouteTypeOK
  BY DEF RouteInv
<1> QED BY <1>1, InitInv, RouteStepInv, PTL DEF RouteSpec

\* One step of routing writes at most one path: that of its file, in the directory of
\* its job.
LEMMA RouteStepWrites ==
  ASSUME RouteInv, RouteStep, NEW p \in Dirs \X Names, out'[p] # out[p]
  PROVE  /\ job' = job /\ p[1] = DestDir(job) /\ rpc \in Moving
         /\ out'[p] \in Copy /\ out'[p].of = File
<1>1. RenameFile \/ CreateDest \/ WriteDest
  BY DEF RouteStep, RouteReturn, SkipFile, DeleteFile, MakeDestDir, OpenSource,
     UnlinkSource, DiskUnchanged
<1>2. File \in Files /\ DestDir(job) \in Dirs
  BY <1>1 DEF RouteInv, MoveInv, RenameFile, CreateDest, WriteDest, Moving
<1>3. PICK c \in Copy : c.of = File /\ out' = [out EXCEPT ![Dest(job, File)] = c]
  BY <1>1, <1>2, CopyFacts DEF RenameFile, CreateDest, WriteDest, DiskUnchanged
<1>4. p = Dest(job, File)
  BY <1>2, <1>3, PutCopy
<1>5. job' = job
  BY <1>1 DEF RenameFile, CreateDest, WriteDest, NextFile, StepTo, RouteFails
<1>6. rpc \in Moving
  BY <1>1 DEF RenameFile, CreateDest, WriteDest, Moving
<1>7. out'[p] = c
  BY <1>2, <1>3, <1>4, PutCopy
<1> QED BY <1>3, <1>4, <1>5, <1>6, <1>7 DEF Dest

LEMMA RouteStepJob == RouteStep => job' = job
BY DEF RouteStep, RouteReturn, SkipFile, DeleteFile, MakeDestDir, RenameFile, OpenSource,
   CreateDest, WriteDest, UnlinkSource, NextFile, StepTo, RouteFails

\* A step removes a file for good only for a deleting job.
LEMMA RouteStepPurges ==
  ASSUME RouteStep, NEW f, f \in purged', f \notin purged
  PROVE  f = File /\ AtFile /\ job.deleteAfter
BY DEF RouteStep, RouteReturn, SkipFile, DeleteFile, MakeDestDir, RenameFile, OpenSource,
   CreateDest, WriteDest, UnlinkSource, DiskUnchanged

-----------------------------------------------------------------------------

\* What a step can do to the disk: drop a file whose copy is whole or that was
\* to be deleted, or write a copy of a file that is present, or of the one
\* being copied, under its own name.
LEMMA OtherCopiesStay ==
  ASSUME RouteInv, DistinctNames, NEW c \in Copy, c.of = File, File \in Files,
         DestDir(job) \in Dirs, out' = [out EXCEPT ![Dest(job, File)] = c],
         NEW f \in Files, f # File, NEW p \in Dirs \X Names, out[p] = Whole(f)
  PROVE  out'[p] = Whole(f)
<1>1. PICK d \in Dirs, n \in Names : p = <<d, n>>
  OBVIOUS
<1>2. Base[f] = n
  BY <1>1, CopyFacts DEF RouteInv, NamesInv
<1>3. p # Dest(job, File)
  BY <1>1, <1>2 DEF Dest, DistinctNames
<1> QED BY <1>3, PutCopy

LEMMA PurgedGrows == [RouteNext]_routeVars => purged \subseteq purged'
BY DEF routeVars, RouteNext, RouteStep, RouteCall, RouteReturn, SkipFile, DeleteFile,
   MakeDestDir, RenameFile, OpenSource, CreateDest, WriteDest, UnlinkSource, RouteDies,
   RouteRevives, DiskUnchanged

LEMMA KeptStep ==
  ASSUME RouteInv, DistinctNames, [RouteNext]_routeVars,
         NEW f \in Files, f \notin purged', Kept(f)
  PROVE  Kept(f)'
<1>1. ASSUME DiskUnchanged PROVE Kept(f)'
  BY <1>1 DEF DiskUnchanged, Kept
<1>2. CASE UNCHANGED routeVars
  BY <1>1, <1>2 DEF routeVars, DiskUnchanged
<1>3. ASSUME NEW j \in Job, RouteCall(j) PROVE Kept(f)'
  BY <1>1, <1>3 DEF RouteCall
<1>4. CASE RouteReturn \/ SkipFile \/ MakeDestDir \/ OpenSource
           \/ RouteDies \/ RouteRevives
  BY <1>1, <1>4 DEF RouteReturn, SkipFile, MakeDestDir, OpenSource, RouteDies, RouteRevives
<1>5. CASE DeleteFile
  <2>1. CASE DiskUnchanged
    BY <1>1, <2>1
  <2>2. CASE /\ present' = present \ {File} /\ purged' = purged \cup ({File} \cap present)
             /\ UNCHANGED out
    BY <2>2 DEF Kept
  <2> QED BY <1>5, <2>1, <2>2 DEF DeleteFile
<1>6. ASSUME NEW c \in Copy, c.of = File, rpc \in Moving,
             out' = [out EXCEPT ![Dest(job, File)] = c],
             purged' = purged,
             \A g \in present : g \in present' \/ g = File,
             c = Whole(File) \/ File \in present'
      PROVE  Kept(f)'
  <2>1. File \in Files /\ DestDir(job) \in Dirs
    BY <1>6 DEF RouteInv, MoveInv
  <2>2. CASE f = File
    <3>1. out'[Dest(job, File)] = c /\ Dest(job, File) \in Dirs \X Names
      BY <1>6, <2>1, PutCopy, DestFacts
    <3> QED BY <1>6, <2>2, <3>1 DEF Kept, Whole
  <2>3. CASE f # File /\ f \in present
    BY <1>6, <2>3 DEF Kept
  <2>4. CASE f # File /\ f \notin present
    <3>1. PICK p \in Dirs \X Names : out[p] = Whole(f)
      BY <1>6, <2>4 DEF Kept
    <3>2. out'[p] = Whole(f)
      BY <1>6, <2>1, <2>4, <3>1, OtherCopiesStay
    <3> QED BY <3>2 DEF Kept, Whole
  <2> QED BY <2>2, <2>3, <2>4
<1>7. CASE RenameFile
  <2>1. CASE DiskUnchanged
    BY <1>1, <2>1
  <2>2. CASE /\ out' = [out EXCEPT ![Dest(job, File)] = Whole(File)]
             /\ present' = present \ {File} /\ UNCHANGED purged
    <3>1. File \in Files /\ rpc \in Moving
      BY <1>7 DEF RenameFile, RouteInv, MoveInv, Moving
    <3> QED BY <1>6, <2>2, <3>1, CopyFacts
  <2> QED BY <1>7, <2>1, <2>2 DEF RenameFile
<1>8. CASE CreateDest
  <2>1. CASE DiskUnchanged
    BY <1>1, <2>1
  <2>2. CASE /\ out' = [out EXCEPT ![Dest(job, File)] = Part(File)]
             /\ UNCHANGED <<present, purged>>
    <3>1. File \in Files /\ rpc \in Moving /\ File \in present
      BY <1>8 DEF CreateDest, RouteInv, MoveInv, CopyInv, Moving
    <3> QED BY <1>6, <2>2, <3>1, CopyFacts
  <2> QED BY <1>8, <2>1, <2>2 DEF CreateDest
<1>9. CASE WriteDest
  <2>1. CASE DiskUnchanged
    BY <1>1, <2>1
  <2>2. CASE /\ out' = [out EXCEPT ![Dest(job, File)] = Whole(File)]
             /\ UNCHANGED <<present, purged>>
    <3>1. File \in Files /\ rpc \in Moving
      BY <1>9 DEF WriteDest, RouteInv, MoveInv, Moving
    <3> QED BY <1>6, <2>2, <3>1, CopyFacts
  <2> QED BY <1>9, <2>1, <2>2 DEF WriteDest
<1>10. CASE UnlinkSource
  <2>1. /\ out[Dest(job, File)] = Whole(File) /\ Dest(job, File) \in Dirs \X Names
    BY <1>10, DestFacts DEF UnlinkSource, RouteInv, CopyInv, MoveInv, Moving
  <2>2. CASE f = File
    BY <1>10, <2>1, <2>2 DEF UnlinkSource, Kept, Whole
  <2>3. CASE f # File
    BY <1>10, <2>3 DEF UnlinkSource, Kept
  <2> QED BY <2>2, <2>3
<1> QED BY <1>2, <1>3, <1>4, <1>5, <1>7, <1>8, <1>9, <1>10 DEF RouteNext, RouteStep

(* When no two inputs share a base name, routing never loses a file it was   *)
(* not asked to delete, whatever fails and wherever the process is killed    *)
(* (routeAttachments, copyFile).                                             *)
THEOREM RouteKeepsFiles == ASSUME DistinctNames PROVE RouteSpec => []NoFileLost
<1>1. RouteInit => NoFileLost
  BY DEF RouteInit, NoFileLost, Kept
<1>2. RouteInv /\ NoFileLost /\ [RouteNext]_routeVars => NoFileLost'
  BY KeptStep, PurgedGrows, DistinctNames DEF NoFileLost
<1> QED BY <1>1, <1>2, InitInv, RouteStepInv, PTL DEF RouteSpec

(* And a copy whose source is gone is never touched again, not even by a     *)
(* call that is given the same file once more: copyFile opens its source     *)
(* before it truncates.                                                      *)
THEOREM RouteMovesAreFinal == ASSUME DistinctNames PROVE RouteSpec => MovedIsStable
<1> DEFINE Stable == \A p \in Dirs \X Names, f \in Files :
                       out[p] = Whole(f) /\ f \notin present => out'[p] = Whole(f)
<1>1. RouteInv /\ [RouteNext]_routeVars => [Stable]_routeVars
  <2> SUFFICES ASSUME RouteInv, RouteNext,
                      NEW p \in Dirs \X Names, NEW f \in Files,
                      out[p] = Whole(f), f \notin present
               PROVE  out'[p] = Whole(f)
    OBVIOUS
  <2>1. CASE UNCHANGED out
    BY <2>1
  <2>2. ASSUME NEW c \in Copy, c.of = File, rpc \in Moving,
               out' = [out EXCEPT ![Dest(job, File)] = c],
               f # File \/ c = Whole(File)
        PROVE  out'[p] = Whole(f)
    <3>1. File \in Files /\ DestDir(job) \in Dirs
      BY <2>2 DEF RouteInv, MoveInv
    <3>2. CASE f # File
      BY <2>2, <3>1, <3>2, OtherCopiesStay, DistinctNames
    <3>3. CASE f = File
      BY <2>2, <3>1, <3>3, PutCopy
    <3> QED BY <3>2, <3>3
  <2>3. CASE RenameFile \/ CreateDest \/ WriteDest
    <3>1. File \in Files /\ rpc \in Moving
      BY <2>3 DEF RenameFile, CreateDest, WriteDest, RouteInv, MoveInv, Moving
    <3>2. CreateDest => File \in present
      BY DEF CreateDest, RouteInv, CopyInv
    <3> QED BY <2>1, <2>2, <2>3, <3>1, <3>2, CopyFacts
            DEF RenameFile, CreateDest, WriteDest, DiskUnchanged
  <2> QED BY <2>1, <2>3 DEF RouteNext, RouteStep, RouteCall, RouteReturn, SkipFile,
          DeleteFile, MakeDestDir, OpenSource, UnlinkSource, RouteDies, RouteRevives,
          DiskUnchanged
<1> QED BY <1>1, InitInv, RouteStepInv, PTL DEF RouteSpec, MovedIsStable

-----------------------------------------------------------------------------

\* What a job that returns nil has done with f.
Finished(f) ==
  f # NoPath =>
    IF job.deleteAfter THEN f \notin present
    ELSE DestDir(job) # NoPath => out[Dest(job, f)] = Whole(f)

\* While no error has been met the entries behind the current one are finished; only
\* the copying of a file that is in the list twice undoes it for a while.
DoneInv ==
  /\ routeRet = "nil" /\ rpc # "dead" =>
       \A k \in 1..Len(job.files) :
         k < at => Finished(job.files[k]) \/ (rpc = "write" /\ job.files[k] = File)
  /\ routeRet = "nil" /\ rpc = "idle" => at > Len(job.files)

LEMMA FinishedStays ==
  ASSUME RouteInv, DistinctNames, job' = job, present' \subseteq present,
         NEW f \in Files \cup {NoPath}, Finished(f),
         \/ out' = out
         \/ \E c \in Copy : /\ c.of = File /\ File \in Files /\ DestDir(job) \in Dirs
                           /\ out' = [out EXCEPT ![Dest(job, File)] = c]
                           /\ (f # File \/ c = Whole(File))
  PROVE  Finished(f)'
<1>1. SUFFICES ASSUME f # NoPath, ~job.deleteAfter, DestDir(job) # NoPath
               PROVE  out'[Dest(job, f)] = Whole(f)
  BY DEF Finished, DestDir, Dest, Whole
<1>2. f \in Files /\ DestDir(job) \in Dirs /\ Dest(job, f) \in Dirs \X Names
      /\ out[Dest(job, f)] = Whole(f)
  BY <1>1, JobFacts, DestFacts DEF Finished, RouteInv, RouteTypeOK
<1>3. CASE out' = out
  BY <1>2, <1>3
<1>4. ASSUME NEW c \in Copy, c.of = File, File \in Files,
             out' = [out EXCEPT ![Dest(job, File)] = c], f # File \/ c = Whole(File)
      PROVE  out'[Dest(job, f)] = Whole(f)
  <2>1. CASE f # File
    BY <1>2, <1>4, <2>1, OtherCopiesStay
  <2>2. CASE f = File
    BY <1>2, <1>4, <2>2, PutCopy
  <2> QED BY <2>1, <2>2
<1> QED BY <1>3, <1>4

\* A step that stays at its entry and writes nothing.
LEMMA DoneAtEntry ==
  ASSUME RouteInv, DistinctNames, DoneInv, DiskUnchanged, job' = job,
         routeRet' = "nil" /\ rpc' # "dead" =>
           routeRet = "nil" /\ rpc \notin {"write", "dead"} /\ at' = at,
         routeRet' = "nil" /\ rpc' = "idle" => at' > Len(job.files)
  PROVE  DoneInv'
<1> SUFFICES ASSUME routeRet' = "nil", rpc' # "dead", NEW k \in 1..Len(job.files), k < at
             PROVE  Finished(job.files[k])'
  BY DEF DoneInv
<1>1. job.files[k] \in Files \cup {NoPath} /\ Finished(job.files[k])
  BY JobFacts DEF DoneInv, RouteInv, RouteTypeOK
<1> QED BY <1>1, FinishedStays DEF DiskUnchanged

\* The end of an entry that is finished.
LEMMA DoneNextEntry ==
  ASSUME RouteInv, DistinctNames, DoneInv, NextFile, rpc \notin {"idle", "dead", "write"},
         present' \subseteq present, NEW f, f = File, Finished(f)',
         \/ out' = out
         \/ /\ File \in Files /\ DestDir(job) \in Dirs
            /\ out' = [out EXCEPT ![Dest(job, File)] = Whole(File)]
  PROVE  DoneInv'
<1>1. job' = job /\ routeRet' = routeRet /\ rpc' = "file" /\ at' = at + 1
  BY DEF NextFile
<1>2. SUFFICES ASSUME routeRet = "nil", NEW k \in 1..Len(job.files), k < at + 1
               PROVE  Finished(job.files[k])'
  BY <1>1 DEF DoneInv
<1>3. at \in Nat
  BY DEF RouteInv, RouteTypeOK
<1>4. CASE k = at
  <2>1. job.files[k] = f
    BY <1>4 DEF File
  <2> QED BY <1>1, <2>1 DEF Finished, Dest, DestDir
<1>5. CASE k < at
  <2>1. job.files[k] \in Files \cup {NoPath} /\ Finished(job.files[k])
    BY <1>2, <1>5, JobFacts DEF DoneInv, RouteInv, RouteTypeOK
  <2> QED BY <1>1, <2>1, FinishedStays, CopyFacts
<1> QED BY <1>2, <1>3, <1>4, <1>5

\* Putting a copy of the current file where it belongs, whole or not yet.
LEMMA DoneCopying ==
  ASSUME RouteInv, DistinctNames, DoneInv, NEW c \in Copy, c.of = File, File \in Files,
         DestDir(job) \in Dirs, out' = [out EXCEPT ![Dest(job, File)] = c],
         present' = present, rpc \in {"create", "write"},
         \/ StepTo("write")
         \/ StepTo("unlink") /\ c = Whole(File)
  PROVE  DoneInv'
<1>1. job' = job /\ routeRet' = routeRet /\ at' = at /\ File' = File /\ rpc' \in {"write", "unlink"}
  BY DEF StepTo, File
<1>2. SUFFICES ASSUME routeRet = "nil", NEW k \in 1..Len(job.files), k < at
               PROVE  \/ Finished(job.files[k])'
                      \/ rpc' = "write" /\ job.files[k] = File
  BY <1>1 DEF DoneInv
<1>3. job.files[k] \in Files \cup {NoPath}
  BY JobFacts DEF RouteInv, RouteTypeOK
<1>4. CASE job.files[k] # File
  <2>1. Finished(job.files[k])
    BY <1>2, <1>4 DEF DoneInv
  <2> QED BY <1>1, <1>3, <1>4, <2>1, FinishedStays
<1>5. CASE job.files[k] = File /\ c = Whole(File)
  <2>1. ~job.deleteAfter
    BY DEF RouteInv, MoveInv, Moving
  <2>2. out'[Dest(job, File)] = Whole(File)
    BY <1>5, PutCopy
  <2> QED BY <1>1, <1>5, <2>1, <2>2 DEF Finished, Dest, DestDir, Whole
<1>6. CASE job.files[k] = File /\ StepTo("write")
  BY <1>6 DEF StepTo
<1> QED BY <1>4, <1>5, <1>6

LEMMA DoneStepInv ==
  ASSUME RouteInv, DistinctNames, DoneInv, [RouteNext]_routeVars
  PROVE  DoneInv'
<1>1. CASE UNCHANGED routeVars
  BY <1>1 DEF routeVars, DoneInv, Finished, File, Dest, DestDir
<1>2. ASSUME NEW j \in Job, RouteCall(j) PROVE DoneInv'
  BY <1>2 DEF RouteCall, DoneInv, Job
<1>3. ASSUME RouteFails \/ RouteDies \/ RouteRevives PROVE DoneInv'
  BY <1>3 DEF RouteFails, RouteDies, RouteRevives, DoneInv
<1>4. CASE RouteReturn
  BY <1>4, DoneAtEntry DEF RouteReturn
<1>5. CASE SkipFile
  <2> PICK f : f = File
    OBVIOUS
  <2>1. job' = job /\ present' = present /\ Finished(f)'
    BY <1>5 DEF SkipFile, NextFile, DiskUnchanged, Finished, DestDir
  <2> QED BY <1>5, <2>1, DoneNextEntry DEF SkipFile, AtFile, DiskUnchanged
<1>6. CASE DeleteFile
  <2>1. CASE present' = present \ {File} /\ NextFile /\ UNCHANGED out
    <3> PICK f : f = File
      OBVIOUS
    <3>1. Finished(f)'
      BY <1>6, <2>1 DEF DeleteFile, NextFile, Finished
    <3> QED BY <1>6, <2>1, <3>1, DoneNextEntry DEF DeleteFile, AtFile
  <2> QED BY <1>3, <1>6, <2>1 DEF DeleteFile
<1>7. CASE MakeDestDir
  <2>1. CASE StepTo("rename") /\ DiskUnchanged
    BY <1>7, <2>1, DoneAtEntry DEF MakeDestDir, AtFile, StepTo
  <2> QED BY <1>3, <1>7, <2>1 DEF MakeDestDir
<1>8. CASE RenameFile
  <2>1. File \in Files /\ DestDir(job) \in Dirs /\ ~job.deleteAfter
    BY <1>8 DEF RenameFile, RouteInv, MoveInv, Moving
  <2>2. CASE StepTo("open") /\ DiskUnchanged
    BY <1>8, <2>2, DoneAtEntry DEF RenameFile, StepTo
  <2>3. CASE /\ out' = [out EXCEPT ![Dest(job, File)] = Whole(File)]
             /\ present' = present \ {File} /\ NextFile
    <3>1. out'[Dest(job, File)] = Whole(File)
      BY <2>1, <2>3, PutCopy, CopyFacts
    <3> PICK f : f = File
      OBVIOUS
    <3>2. Finished(f)'
      BY <2>1, <2>3, <3>1 DEF NextFile, Finished, Dest, DestDir, Whole
    <3> QED BY <1>8, <2>1, <2>3, <3>2, DoneNextEntry DEF RenameFile
  <2> QED BY <1>8, <2>2, <2>3 DEF RenameFile
<1>9. CASE OpenSource
  <2>1. CASE StepTo("create") /\ DiskUnchanged
    BY <1>9, <2>1, DoneAtEntry DEF OpenSource, StepTo
  <2> QED BY <1>3, <1>9, <2>1 DEF OpenSource
<1>10. CASE CreateDest \/ WriteDest
  <2>1. File \in Files /\ DestDir(job) \in Dirs /\ rpc \in {"create", "write"}
    BY <1>10 DEF CreateDest, WriteDest, RouteInv, MoveInv, Moving
  <2>2. CASE CreateDest /\ out' = [out EXCEPT ![Dest(job, File)] = Part(File)]
             /\ StepTo("write") /\ UNCHANGED <<present, purged>>
    BY <2>1, <2>2, CopyFacts, DoneCopying
  <2>3. CASE WriteDest /\ out' = [out EXCEPT ![Dest(job, File)] = Whole(File)]
             /\ StepTo("unlink") /\ UNCHANGED <<present, purged>>
    BY <2>1, <2>3, CopyFacts, DoneCopying
  <2> QED BY <1>3, <1>10, <2>2, <2>3 DEF CreateDest, WriteDest
<1>11. CASE UnlinkSource
  <2>1. out[Dest(job, File)] = Whole(File) /\ ~job.deleteAfter
    BY <1>11 DEF UnlinkSource, RouteInv, CopyInv, MoveInv, Moving
  <2>2. present' \subseteq present /\ out' = out /\ NextFile
    BY <1>11 DEF UnlinkSource
  <2> PICK f : f = File
    OBVIOUS
  <2>3. Finished(f)'
    BY <2>1, <2>2 DEF NextFile, Finished, Dest, DestDir, Whole
  <2> QED BY <1>11, <2>2, <2>3, DoneNextEntry DEF UnlinkSource
<1> QED BY <1>1, <1>2, <1>3, <1>4, <1>5, <1>6, <1>7, <1>8, <1>9, <1>10, <1>11
        DEF RouteNext, RouteStep

(* A call that returns nil has done its work for the whole list, however     *)
(* long, with empty and repeated entries: every error of a system call but   *)
(* the discarded one of the last os.Remove ends the call with an error.      *)
THEOREM RouteNilMeansDone == ASSUME DistinctNames PROVE RouteSpec => []NilMeansDone
<1>1. RouteInit => DoneInv
  BY DEF RouteInit, EmptyJob, DoneInv
<1>2. RouteInv /\ DoneInv => NilMeansDone
  <2> SUFFICES ASSUME RouteInv, DoneInv, rpc = "idle", routeRet = "nil", NEW k \in DOMAIN job.files
               PROVE  Finished(job.files[k])
    BY DEF NilMeansDone, Finished
  <2>1. k \in 1..Len(job.files) /\ at \in Nat
    BY JobFacts DEF RouteInv, RouteTypeOK
  <2> QED BY <2>1 DEF DoneInv
<1> QED BY <1>1, <1>2, InitInv, RouteStepInv, DoneStepInv, DistinctNames, PTL DEF RouteSpec

-----------------------------------------------------------------------------

\* The loop of routeAttachments is never beyond the end of its list.
AtInv == rpc = "file" => at <= Len(job.files) + 1

LEMMA LenFacts == RouteTypeOK => Len(job.files) \in Nat /\ at \in Nat
BY DEF RouteTypeOK, Job

LEMMA AtInvStep == RouteInv /\ AtInv /\ [RouteNext]_routeVars => AtInv'
<1> SUFFICES ASSUME RouteInv, AtInv, [RouteNext]_routeVars PROVE AtInv'
  OBVIOUS
<1>1. Len(job.files) \in Nat /\ at \in Nat
  BY LenFacts DEF RouteInv
<1>2. CASE RouteStep
  BY <1>1, <1>2 DEF AtInv, RouteInv, MoveInv, Moving, RouteStep, RouteReturn, SkipFile,
     DeleteFile, MakeDestDir, RenameFile, OpenSource, CreateDest, WriteDest, UnlinkSource,
     AtFile, NextFile, StepTo, RouteFails
<1>3. ASSUME NEW j \in Job, RouteCall(j) PROVE AtInv'
  <2>1. Len(j.files) \in Nat /\ at' = 1 /\ job' = j
    BY <1>3 DEF Job, RouteCall
  <2> QED BY <2>1 DEF AtInv
<1>4. CASE UNCHANGED routeVars \/ RouteDies \/ RouteRevives
  BY <1>4 DEF AtInv, routeVars, RouteDies, RouteRevives
<1> QED BY <1>2, <1>3, <1>4 DEF RouteNext

LEMMA BehindIs ==
  /\ DOMAIN Behind = {"file", "rename", "open", "create", "write", "unlink"}
  /\ Behind["file"] = 0 /\ Behind["rename"] = 1 /\ Behind["open"] = 2
  /\ Behind["create"] = 3 /\ Behind["write"] = 4 /\ Behind["unlink"] = 5
BY DEF Behind

LEMMA RoutingLeftNat == RouteInv /\ AtInv => RoutingLeft \in Nat
<1> SUFFICES ASSUME RouteInv, AtInv PROVE RoutingLeft \in Nat
  OBVIOUS
<1>1. Len(job.files) \in Nat /\ at \in Nat
  BY LenFacts DEF RouteInv
<1>2. CASE rpc \in DOMAIN Behind
  <2>1. at <= Len(job.files) + 1 /\ (rpc # "file" => at <= Len(job.files))
    BY <1>1, <1>2, BehindIs DEF AtInv, RouteInv, MoveInv, Moving
  <2>2. Behind[rpc] \in 0..5 /\ (rpc = "file" => Behind[rpc] = 0)
    BY <1>2, BehindIs
  <2> QED BY <1>1, <1>2, <2>1, <2>2 DEF RoutingLeft
<1> QED BY <1>2 DEF RoutingLeft

LEMMA FileBehind ==
  ASSUME NEW len \in Nat, NEW k \in Nat, k <= len, NEW r \in 0..5
  PROVE  /\ 1 + 6 * (len + 1 - (k + 1)) \in 0 .. (1 + 6 * (len + 1 - k) - r) - 1
         /\ r + 1 <= 5 => 1 + 6 * (len + 1 - k) - (r + 1) \in 0 .. (1 + 6 * (len + 1 - k) - r) - 1
OBVIOUS

\* A step stays with its file and comes further, goes to the next, or returns.
LEMMA RouteStepAdvances ==
  ASSUME RouteInv, AtInv, RouteStep PROVE RoutingLeft' \in 0 .. RoutingLeft - 1
<1>1. Len(job.files) \in Nat /\ at \in Nat
  BY LenFacts DEF RouteInv
<1>2. RouteInv' /\ AtInv'
  BY RouteStepInv, AtInvStep DEF RouteNext
<1>3. job' = job /\ at' \in Nat /\ rpc \in DOMAIN Behind
  BY <1>2, RouteStepJob, BehindIs
     DEF RouteStep, RouteReturn, SkipFile, DeleteFile, MakeDestDir, RenameFile, OpenSource,
         CreateDest, WriteDest, UnlinkSource, AtFile, RouteInv, RouteTypeOK
<1>4. RoutingLeft \in Nat \ {0} /\ RoutingLeft = 1 + 6 * (Len(job.files) + 1 - at) - Behind[rpc]
  <2>1. at <= Len(job.files) + 1 /\ (rpc # "file" => at <= Len(job.files))
    BY <1>1, <1>3, BehindIs DEF AtInv, RouteInv, MoveInv, Moving
  <2>2. Behind[rpc] \in 0..5 /\ (rpc = "file" => Behind[rpc] = 0)
    BY <1>3, BehindIs
  <2> QED BY <1>1, <1>3, <2>1, <2>2 DEF RoutingLeft
<1>5. RoutingLeft' = IF rpc' \in DOMAIN Behind
                       THEN 1 + 6 * (Len(job.files) + 1 - at') - Behind[rpc'] ELSE 0
  BY <1>3 DEF RoutingLeft, Behind
<1>6. Behind[rpc] \in 0..5 /\ Behind["file"] = 0
  BY <1>3, BehindIs
<1>7. CASE rpc' = "idle"
  <2>1. RoutingLeft' = 0
    BY <1>5, <1>7, BehindIs
  <2> QED BY <1>4, <2>1
<1>8. CASE rpc' = "file" /\ at' = at + 1 /\ at <= Len(job.files)
  <2>1. RoutingLeft' = 1 + 6 * (Len(job.files) + 1 - at')
    <3>1. rpc' \in DOMAIN Behind /\ Behind[rpc'] = 0
      BY <1>8, BehindIs
    <3> QED BY <1>1, <1>3, <1>5, <3>1
  <2> QED BY <1>1, <1>4, <1>6, <1>8, <2>1, FileBehind
<1>9. CASE /\ at' = at /\ rpc' \in DOMAIN Behind /\ Behind[rpc'] = Behind[rpc] + 1
           /\ at <= Len(job.files)
  <2>1. Behind[rpc'] \in 0..5
    BY <1>9, BehindIs
  <2>2. RoutingLeft' = 1 + 6 * (Len(job.files) + 1 - at) - (Behind[rpc] + 1)
    BY <1>5, <1>9
  <2>3. Behind[rpc] + 1 <= 5
    BY <1>9, <2>1
  <2> QED BY <1>1, <1>4, <1>6, <1>9, <2>2, <2>3, FileBehind
<1>10. \/ rpc' = "idle"
       \/ rpc' = "file" /\ at' = at + 1 /\ at <= Len(job.files)
       \/ /\ at' = at /\ rpc' \in DOMAIN Behind /\ Behind[rpc'] = Behind[rpc] + 1
          /\ at <= Len(job.files)
  BY BehindIs DEF RouteInv, MoveInv, Moving, RouteStep, RouteReturn, SkipFile, DeleteFile,
     MakeDestDir, RenameFile, OpenSource, CreateDest, WriteDest, UnlinkSource, AtFile,
     NextFile, StepTo, RouteFails
<1> QED BY <1>7, <1>8, <1>9, <1>10

(* Each step of a call of routeAttachments, a failing one included, brings   *)
(* it nearer to its return: it takes at most six for each entry of the list. *)
THEOREM RouteCallAdvances == RouteSpec => RouteAdvances
<1>1. RouteInit => AtInv
  BY DEF RouteInit, AtInv
<1>2. RouteInv /\ AtInv /\ [RouteNext]_routeVars
        => [RouteStep => RoutingLeft' \in 0 .. RoutingLeft - 1]_routeVars
  BY RouteStepAdvances
<1> QED BY <1>1, <1>2, InitInv, RouteStepInv, AtInvStep, PTL DEF RouteSpec, RouteAdvances

=============================================================================
