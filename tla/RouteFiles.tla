------------------------------ MODULE RouteFiles ------------------------------
(***************************************************************************)
(* routeAttachments and copyFile of mailer.go, one action per system call.  *)
(* A call is given a list of input paths and moves each file into the       *)
(* success or the error directory, or deletes it.  Any system call may      *)
(* fail, and the process may die between any two of them.                   *)
(*                                                                          *)
(* The disk is two variables, which states the one assumption made about    *)
(* paths: an input file does not lie in a routing directory.                *)
(***************************************************************************)
EXTENDS Naturals, Sequences

CONSTANTS Files,    \* the absolute paths of body file and attachments
          Dirs,     \* the directories --route-success and --route-error name
          Names,    \* base names
          Base,     \* filepath.Base, a function from Files to Names
          NoPath    \* the empty string: an unset path, an empty list entry

ASSUME PathAssumption ==
  /\ Base \in [Files -> Names]
  /\ NoPath \notin Files
  /\ NoPath \notin Dirs

\* What a path of a routing directory holds: nothing, or a copy of an input
\* file, whole or cut short.
NoCopy  == [kind |-> "none"]
Copy    == [kind : {"whole", "part"}, of : Files]
Whole(f) == [kind |-> "whole", of |-> f]
Part(f)  == [kind |-> "part", of |-> f]

\* The arguments of one call of routeAttachments.
Job == [files       : Seq(Files \cup {NoPath}),
        success     : BOOLEAN,
        successPath : Dirs \cup {NoPath},
        errorPath   : Dirs \cup {NoPath},
        deleteAfter : BOOLEAN]

VARIABLES present,  \* the input files that are still at their own path
          out,      \* what each path of each routing directory holds
          job,      \* the arguments of the current or last call
          at,       \* index into job.files of the file being routed
          rpc,      \* where the call stands
          routeRet, \* what the last call returned
          purged    \* history: the files a deleting call has removed

routeVars == <<present, out, job, at, rpc, routeRet, purged>>

RouteSteps == {"idle", "file", "rename", "open", "create", "write", "unlink", "dead"}

RouteTypeOK ==
  /\ present \subseteq Files
  /\ out \in [Dirs \X Names -> Copy \cup {NoCopy}]
  /\ job \in Job
  /\ at \in Nat \ {0}
  /\ rpc \in RouteSteps
  /\ routeRet \in {"nil", "error"}
  /\ purged \subseteq Files

EmptyJob == [files |-> <<>>, success |-> TRUE, successPath |-> NoPath,
             errorPath |-> NoPath, deleteAfter |-> FALSE]

RouteInit ==
  /\ present = Files
  /\ out = [p \in Dirs \X Names |-> NoCopy]
  /\ job = EmptyJob
  /\ at = 1
  /\ rpc = "idle"
  /\ routeRet = "nil"
  /\ purged = {}

-----------------------------------------------------------------------------

File == job.files[at]

\* Variant: the first directory that is set, whatever the outcome.
FirstDir(j) == IF j.successPath # NoPath THEN j.successPath ELSE j.errorPath

\* The directory the job's outcome selects; NoPath when that one is not set.
DestDir(j) == IF j.success THEN j.successPath ELSE j.errorPath

Dest(j, f) == <<DestDir(j), Base[f]>>

\* The call is at the top of its loop with a file left.
AtFile == rpc = "file" /\ at <= Len(job.files)

NextFile == rpc' = "file" /\ at' = at + 1 /\ UNCHANGED <<job, routeRet>>

StepTo(step) == rpc' = step /\ UNCHANGED <<job, at, routeRet>>

\* Variant: an error of one file is skipped over.
FailsAndContinues == NextFile

\* Variant: a file that cannot be moved is tried again.
FailsAndRetries == StepTo("file")

\* Every error path of the loop body returns and leaves the rest of the list.
RouteFails == rpc' = "idle" /\ routeRet' = "error" /\ UNCHANGED <<job, at>>

DiskUnchanged == UNCHANGED <<present, out, purged>>

RouteCall(j) ==
  /\ rpc = "idle"
  /\ job' = j /\ at' = 1 /\ rpc' = "file" /\ routeRet' = "nil"
  /\ DiskUnchanged

RouteReturn ==
  /\ rpc = "file" /\ at > Len(job.files)
  /\ rpc' = "idle"
  /\ UNCHANGED <<job, at, routeRet>> /\ DiskUnchanged

\* An empty entry, or no directory for this outcome.
SkipFile ==
  /\ AtFile
  /\ \/ File = NoPath
     \/ ~job.deleteAfter /\ DestDir(job) = NoPath
  /\ NextFile /\ DiskUnchanged

\* os.Remove: a file that is already gone is no error, unless it is not said so (its
\* directory may be gone or closed as well).
DeleteFile ==
  /\ AtFile /\ File # NoPath /\ job.deleteAfter
  /\ \/ /\ present' = present \ {File}
        /\ purged' = purged \cup ({File} \cap present)
        /\ NextFile /\ UNCHANGED out
     \/ RouteFails /\ DiskUnchanged

\* os.MkdirAll of the destination.
MakeDestDir ==
  /\ AtFile /\ File # NoPath /\ ~job.deleteAfter /\ DestDir(job) # NoPath
  /\ StepTo("rename") \/ RouteFails
  /\ DiskUnchanged

\* os.Rename replaces the destination in one step, or fails (another device, a
\* missing source) and leaves both paths alone.
RenameFile ==
  /\ rpc = "rename"
  /\ \/ /\ File \in present
        /\ out' = [out EXCEPT ![Dest(job, File)] = Whole(File)]
        /\ present' = present \ {File}
        /\ NextFile /\ UNCHANGED purged
     \/ StepTo("open") /\ DiskUnchanged

\* Variant: the source is opened after the destination.
OpensLate == rpc = "open" /\ StepTo("create") /\ DiskUnchanged

\* copyFile opens its source before it touches the destination.
OpenSource ==
  /\ rpc = "open"
  /\ \/ File \in present /\ StepTo("create")
     \/ RouteFails
  /\ DiskUnchanged

\* O_CREATE|O_TRUNC: from here until the copy ends the destination is cut short.
CreateDest ==
  /\ rpc = "create"
  /\ \/ /\ out' = [out EXCEPT ![Dest(job, File)] = Part(File)]
        /\ StepTo("write") /\ UNCHANGED <<present, purged>>
     \/ RouteFails /\ DiskUnchanged

\* Variant: a failed copy is taken for a whole one.
UncheckedWrite ==
  /\ rpc = "write"
  /\ \E c \in {Whole(File), Part(File)} : out' = [out EXCEPT ![Dest(job, File)] = c]
  /\ StepTo("unlink") /\ UNCHANGED <<present, purged>>

\* copyBuffer and the checked Close; a failure leaves the part written so far.
WriteDest ==
  /\ rpc = "write"
  /\ \/ /\ out' = [out EXCEPT ![Dest(job, File)] = Whole(File)]
        /\ StepTo("unlink") /\ UNCHANGED <<present, purged>>
     \/ RouteFails /\ DiskUnchanged

\* The result of the final os.Remove is discarded.
UnlinkSource ==
  /\ rpc = "unlink"
  /\ present' \in {present, present \ {File}}
  /\ NextFile /\ UNCHANGED <<out, purged>>

\* The process is killed during the call.
RouteDies ==
  /\ rpc \notin {"idle", "dead"}
  /\ rpc' = "dead"
  /\ UNCHANGED <<job, at, routeRet>> /\ DiskUnchanged

\* The command is run again.
RouteRevives ==
  /\ rpc = "dead"
  /\ rpc' = "idle" /\ routeRet' = "error"
  /\ UNCHANGED <<job, at>> /\ DiskUnchanged

\* One step of a call in progress.
RouteStep == \/ RouteReturn \/ SkipFile \/ DeleteFile \/ MakeDestDir \/ RenameFile
        \/ OpenSource \/ CreateDest \/ WriteDest \/ UnlinkSource

RouteNext == (\E j \in Job : RouteCall(j)) \/ RouteStep \/ RouteDies \/ RouteRevives

RouteSpec == RouteInit /\ [][RouteNext]_routeVars

-----------------------------------------------------------------------------

\* No two input files have the same base name.
DistinctNames == \A f, g \in Files : Base[f] = Base[g] => f = g

\* The content of f is complete somewhere on the disk.
Kept(f) == f \in present \/ \E p \in Dirs \X Names : out[p] = Whole(f)

(* Unless a deleting call removed it, the whole content of every file is at *)
(* its own path or in a routing directory at every moment: across failed    *)
(* renames, half-finished copies, a repeated entry, a file routed twice, a  *)
(* second call after an error, and a kill between any two system calls.     *)
NoFileLost == \A f \in Files \ purged : Kept(f)

(* A call that returns nil has done its work for the whole list: each file  *)
(* of a moving job is whole at its destination, and no file of a deleting   *)
(* job is left.  A partial copy is never reported as a success.             *)
NilMeansDone ==
  rpc = "idle" /\ routeRet = "nil" =>
    \A i \in DOMAIN job.files :
      LET f == job.files[i] IN
      f # NoPath =>
        IF job.deleteAfter THEN f \notin present
        ELSE DestDir(job) # NoPath => out[Dest(job, f)] = Whole(f)

(* What has been moved stays moved: no later step truncates or replaces a   *)
(* whole copy whose source is gone, not even a call that is given the file  *)
(* once more.                                                               *)
MovedIsStable ==
  [][\A p \in Dirs \X Names, f \in Files :
       out[p] = Whole(f) /\ f \notin present => out'[p] = Whole(f)]_routeVars

-----------------------------------------------------------------------------

\* The steps the longest way through the loop body has behind it.
Behind == [file |-> 0, rename |-> 1, open |-> 2, create |-> 3, write |-> 4, unlink |-> 5]

\* The steps a call has left at most: six for each file of the rest, and the return.
RoutingLeft ==
  IF rpc \in DOMAIN Behind THEN 1 + 6 * (Len(job.files) + 1 - at) - Behind[rpc] ELSE 0

(* A call comes to its end whatever fails in it: each step leaves fewer.     *)
RouteAdvances == [][RouteStep => RoutingLeft' \in 0 .. RoutingLeft - 1]_routeVars

=============================================================================
