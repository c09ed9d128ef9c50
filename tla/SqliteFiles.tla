---------------------------- MODULE SqliteFiles ----------------------------
(***************************************************************************)
(* The SQLite files of the user_files volume, shared by the Superset       *)
(* container, where `fedctl source sqlite-files put` receives uploads, and *)
(* the ClickHouse container, whose SQLite databases read them.             *)
(*                                                                         *)
(* putSQLiteFile streams to a temporary file and renames it into place.    *)
(* `fedctl seed sqlite` runs cp in a throwaway container on the same       *)
(* volume: it writes the destination in place.  A file is read in pieces,  *)
(* by name when it is opened and by inode from then on.                    *)
(***************************************************************************)
EXTENDS Naturals, Sequences, FiniteSets

CONSTANTS
  Puts,       \* uploads that may run at the same time
  Seeds,      \* `fedctl seed sqlite` processes
  Readers,    \* who reads the files: ClickHouse, and `source test`
  FileNames,  \* names seedNameRe accepts
  Data,       \* what is uploaded or seeded
  Length,     \* how many pieces each of Data is written and read in
  Limit,      \* maxSQLiteUploadBytes, in pieces
  Inodes,     \* files the volume has room for, named or not
  MaxRunning, \* bound on the processes that run at the same time
  Faults,     \* what may go wrong
  MaxFaults,  \* bound on the different things that go wrong in a behaviour
  None

ASSUME LengthAssumption == Length \in [Data -> Nat \ {0}]
ASSUME LimitAssumption  == Limit \in Nat \ {0}
ASSUME BoundAssumption  == MaxRunning \in Nat /\ MaxFaults \in Nat
\* A system call of an upload fails, the sender of a stream dies before its end, an
\* upload is killed, a seed does not finish.
Kinds == {"failed", "cut", "killed", "unfinished"}
ASSUME FaultsAssumption == Faults \subseteq Kinds
ASSUME NoneAssumption   == None \notin Inodes

Procs == Puts \cup Seeds \cup Readers
ASSUME ProcsAssumption ==
  Puts \cap Seeds = {} /\ Puts \cap Readers = {} /\ Seeds \cap Readers = {}

VARIABLES
  dir,      \* the inode behind each name
  temps,    \* the inodes behind names like .upload-*
  content,  \* the pieces in each inode
  public,   \* the inodes ClickHouse's user may read
  pc,       \* where each process is
  job,      \* what it was asked to do, and whether it has found a file there
  file,     \* the inode it has open
  got,      \* the pieces a reader has read
  seeded,   \* history: the inodes that a seed has written
  faults    \* history: what has gone wrong so far

volume == <<dir, temps, content, public, seeded>>
vars == <<volume, pc, job, file, got, faults>>

Jobs == [name: FileNames, data: Data, replace: BOOLEAN, existed: BOOLEAN]

Job(n, d, replace) == [name |-> n, data |-> d, replace |-> replace, existed |-> FALSE]

\* Something goes wrong; it may go wrong again.
Fault(kind) ==
  /\ kind \in Faults
  /\ faults' = faults \cup {kind}
  /\ Cardinality(faults') <= MaxFaults

\* An inode some name or process refers to.  Mutant: every upload uses the same
\* temporary name.
Used_NotAsTemp(i) == \E n \in FileNames : dir[n] = i

Used(i) ==
  \/ \E n \in FileNames : dir[n] = i
  \/ i \in temps
  \/ \E p \in Procs : file[p] = i

VolumeIsFull == \A i \in Inodes : Used(i)

\* The volume takes back the inodes that nothing refers to any more.
Reclaim ==
  /\ content' = [i \in Inodes |-> IF Used(i)' THEN content[i] ELSE <<>>]
  /\ public' = {i \in public : Used(i)'}
  /\ seeded' = {i \in seeded : Used(i)'}

\* A process that is not running can be started.
Idle(p) == pc[p] = "idle" /\ Cardinality({q \in Procs : pc[q] # "idle"}) < MaxRunning

Goto(p, label) == pc' = [pc EXCEPT ![p] = label]

\* The process ends and its files are closed.  What it prints is left out.
Return(p) ==
  /\ Goto(p, "idle")
  /\ job' = [job EXCEPT ![p] = None]
  /\ file' = [file EXCEPT ![p] = None]
  /\ got' = [got EXCEPT ![p] = <<>>]

AppendTo(i, d) == content' = [content EXCEPT ![i] = Append(@, d)]
----------------------------------------------------------------------------
(***************************************************************************)
(* put                                                                     *)
(***************************************************************************)
StartPut(p, n, d, replace) ==
  /\ Idle(p)
  /\ Goto(p, "stat")
  /\ job' = [job EXCEPT ![p] = Job(n, d, replace)]
  /\ UNCHANGED <<volume, file, got, faults>>

\* Mutant: a file that is there is only noted.
MayWrite_Always(p) == TRUE
MayWrite(p) == dir[job[p].name] = None \/ job[p].replace

CheckDestination(p) ==
  /\ pc[p] = "stat"
  /\ \/ /\ MayWrite(p)
        /\ Goto(p, "create")
        /\ job' = [job EXCEPT ![p].existed = dir[job[p].name] # None]
        /\ UNCHANGED <<file, got, faults>>
     \/ Return(p) /\ ((~MayWrite(p) /\ UNCHANGED faults) \/ Fault("failed"))
  /\ UNCHANGED volume

\* os.CreateTemp: a new file only its owner can read.
CreateTemp(p) ==
  /\ pc[p] = "create"
  /\ \/ \E i \in Inodes :
          /\ ~Used(i)
          /\ temps' = temps \cup {i}
          /\ content' = [content EXCEPT ![i] = <<>>]
          /\ file' = [file EXCEPT ![p] = i]
          /\ Goto(p, "copy")
          /\ UNCHANGED <<job, got, faults>>
     \/ /\ Return(p)
        /\ Fault("failed") \/ (VolumeIsFull /\ UNCHANGED faults)
        /\ UNCHANGED <<temps, content>>
  /\ UNCHANGED <<dir, public, seeded>>

\* An error after CreateTemp: the deferred Remove is still to come.  Mutant:
\* it is only deferred once the copy has succeeded.
Abandon_KeepsTemp(p) ==
  IF pc[p] = "copy" THEN Return(p) ELSE Goto(p, "remove") /\ UNCHANGED <<job, file, got>>

Abandon(p) == Goto(p, "remove") /\ UNCHANGED <<job, file, got>>

\* What io.LimitReader lets through of d.  Mutant: exactly the limit.
Readable_UpToLimit(d) == IF Length[d] <= Limit THEN Length[d] ELSE Limit
Readable(d) == IF Length[d] <= Limit + 1 THEN Length[d] ELSE Limit + 1

\* io.Copy, one piece at a time.  It cannot tell the end of the data from the
\* end of a sender that died.
EndOfStream(p) ==
  \/ Len(content[file[p]]) <= Limit /\ Goto(p, "chmod") /\ UNCHANGED <<job, file, got>>
  \/ Len(content[file[p]]) > Limit  /\ Abandon(p)

Copy(p) ==
  LET d    == job[p].data
      sent == Len(content[file[p]]) IN
  /\ pc[p] = "copy"
  /\ \/ /\ sent < Readable(d)
        /\ AppendTo(file[p], d)
        /\ UNCHANGED <<pc, job, file, got, faults>>
     \/ /\ sent = Readable(d)
        /\ EndOfStream(p)
        /\ UNCHANGED <<content, faults>>
     \/ /\ sent < Readable(d) /\ Fault("cut")
        /\ EndOfStream(p)
        /\ UNCHANGED content
     \/ /\ Fault("failed")
        /\ Abandon(p)
        /\ UNCHANGED content
  /\ UNCHANGED <<dir, temps, public, seeded>>

Chmod(p) ==
  /\ pc[p] = "chmod"
  /\ \/ /\ public' = public \cup {file[p]}
        /\ Goto(p, "rename")
        /\ UNCHANGED <<job, file, got, faults>>
     \/ /\ Fault("failed")
        /\ Abandon(p)
        /\ UNCHANGED public
  /\ UNCHANGED <<dir, temps, content, seeded>>

\* One system call puts the new inode behind the name.  Mutant: the bytes are
\* copied over what the name has.
Rename_InPlace(p) ==
  /\ pc[p] = "rename"
  /\ LET n == job[p].name IN
       IF dir[n] = None
       THEN dir' = [dir EXCEPT ![n] = file[p]] /\ UNCHANGED content
       ELSE content' = [content EXCEPT ![dir[n]] = content[file[p]]] /\ UNCHANGED dir
  /\ temps' = temps \ {file[p]}
  /\ Return(p)
  /\ UNCHANGED <<public, seeded, faults>>

Rename(p) ==
  /\ pc[p] = "rename"
  /\ \/ /\ dir' = [dir EXCEPT ![job[p].name] = file[p]]
        /\ temps' = temps \ {file[p]}
        /\ Return(p)
        /\ UNCHANGED faults
     \/ /\ Fault("failed")
        /\ Abandon(p)
        /\ UNCHANGED <<dir, temps>>
  /\ Reclaim

Remove(p) ==
  /\ pc[p] = "remove"
  /\ temps' = temps \ {file[p]}
  /\ Return(p)
  /\ UNCHANGED <<dir, faults>>
  /\ Reclaim

\* The shim's timeout: no deferred call runs.
Kill(p) ==
  /\ pc[p] # "idle" /\ Fault("killed")
  /\ Return(p)
  /\ UNCHANGED volume

PutStep(p) ==
  CheckDestination(p) \/ CreateTemp(p) \/ Copy(p) \/ Chmod(p) \/ Rename(p) \/ Remove(p)
----------------------------------------------------------------------------
(***************************************************************************)
(* seed sqlite: cp onto the destination, of any size.                      *)
(***************************************************************************)
StartSeed(p, n, d) ==
  /\ Idle(p)
  /\ Goto(p, "truncate")
  /\ job' = [job EXCEPT ![p] = Job(n, d, TRUE)]
  /\ UNCHANGED <<volume, file, got, faults>>

Truncate(p) ==
  /\ pc[p] = "truncate"
  /\ \/ \E i \in Inodes :
          /\ \/ dir[job[p].name] = i
             \/ dir[job[p].name] = None /\ ~Used(i)
          /\ dir' = [dir EXCEPT ![job[p].name] = i]
          /\ content' = [content EXCEPT ![i] = <<>>]
          /\ public' = public \cup {i}
          /\ seeded' = seeded \cup {i}
          /\ file' = [file EXCEPT ![p] = i]
          /\ Goto(p, "write")
          /\ UNCHANGED <<job, got>>
     \/ /\ dir[job[p].name] = None /\ VolumeIsFull
        /\ Return(p)
        /\ UNCHANGED <<dir, content, public, seeded>>
  /\ UNCHANGED <<temps, faults>>

Write(p) ==
  LET written == Len(content[file[p]]) IN
  /\ pc[p] = "write"
  /\ UNCHANGED <<dir, temps>>
  /\ \/ /\ written < Length[job[p].data]
        /\ AppendTo(file[p], job[p].data)
        /\ UNCHANGED <<public, seeded, pc, job, file, got, faults>>
     \/ /\ Return(p)
        /\ (written >= Length[job[p].data] /\ UNCHANGED faults) \/ Fault("unfinished")
        /\ Reclaim

SeedStep(p) == Truncate(p) \/ Write(p)
----------------------------------------------------------------------------
(***************************************************************************)
(* Reading                                                                 *)
(***************************************************************************)
Open(p, n) ==
  /\ Idle(p)
  /\ dir[n] # None /\ dir[n] \in public
  /\ file' = [file EXCEPT ![p] = dir[n]]
  /\ Goto(p, "read")
  /\ UNCHANGED <<volume, job, got, faults>>

Read(p) ==
  LET c == content[file[p]] IN
  /\ pc[p] = "read"
  /\ UNCHANGED <<dir, temps, faults>>
  /\ \/ /\ Len(got[p]) < Len(c)
        /\ got' = [got EXCEPT ![p] = Append(@, c[Len(got[p]) + 1])]
        /\ UNCHANGED <<content, public, seeded, pc, job, file>>
     \/ /\ Len(got[p]) >= Len(c)
        /\ Return(p)
        /\ Reclaim
----------------------------------------------------------------------------
Init ==
  /\ dir = [n \in FileNames |-> None]
  /\ temps = {}
  /\ content = [i \in Inodes |-> <<>>]
  /\ public = {}
  /\ seeded = {}
  /\ pc = [p \in Procs |-> "idle"]
  /\ job = [p \in Procs |-> None]
  /\ file = [p \in Procs |-> None]
  /\ got = [p \in Procs |-> <<>>]
  /\ faults = {}

Next ==
  \/ \E p \in Puts :
       \/ \E n \in FileNames, d \in Data, replace \in BOOLEAN : StartPut(p, n, d, replace)
       \/ PutStep(p)
       \/ Kill(p)
  \/ \E p \in Seeds :
       \/ \E n \in FileNames, d \in Data : StartSeed(p, n, d)
       \/ SeedStep(p)
  \/ \E p \in Readers :
       \/ \E n \in FileNames : Open(p, n)
       \/ Read(p)

Spec == Init /\ [][Next]_vars
----------------------------------------------------------------------------
(***************************************************************************)
(* Properties                                                              *)
(***************************************************************************)
Labels == {"idle", "stat", "create", "copy", "chmod", "rename", "remove",
           "truncate", "write", "read"}

\* The volume and the processes have their shapes, and an upload past CreateTemp
\* has a temporary file that is its own.
TypeOK ==
  /\ dir \in [FileNames -> Inodes \cup {None}]
  /\ temps \subseteq Inodes
  /\ content \in [Inodes -> Seq(Data)]
  /\ public \subseteq Inodes /\ seeded \subseteq Inodes
  /\ pc \in [Procs -> Labels]
  /\ job \in [Procs -> Jobs \cup {None}]
  /\ file \in [Procs -> Inodes \cup {None}]
  /\ got \in [Procs -> Seq(Data)]
  /\ faults \subseteq Kinds
  /\ \A p \in Puts : pc[p] \in {"copy", "chmod", "rename", "remove"} => file[p] \in temps

Whole(c) == \E d \in Data : c = [k \in 1 .. Length[d] |-> d]

\* What an upload has put behind a name is all of one upload, within the limit, and
\* readable by ClickHouse, whatever fails and whoever is killed, as long as no sender
\* has died.
NamedFilesAreWhole ==
  "cut" \notin faults =>
    \A n \in FileNames : dir[n] # None /\ dir[n] \notin seeded =>
      /\ Whole(content[dir[n]]) /\ Len(content[dir[n]]) <= Limit
      /\ dir[n] \in public

\* What a seed has put behind a name is whole when it has finished: an upload that is
\* renamed over the file a seed is writing does not get the seed's remaining pieces.
SeededFilesGetWhole ==
  "unfinished" \notin faults =>
    \A n \in FileNames : dir[n] \in seeded /\ ~Whole(content[dir[n]]) =>
      \E p \in Seeds : file[p] = dir[n]

\* Whoever reads a file while uploads replace it reads all of one version of it.
ReadersSeeOneVersion ==
  "cut" \notin faults =>
    \A p \in Readers :
      pc[p] = "read" /\ file[p] \notin seeded /\ Len(got[p]) >= Len(content[file[p]]) =>
        Whole(got[p])

\* A temporary file belongs to an upload that is still running: every error path
\* removes it, and only a kill leaves it behind.
TempsBelongToUploads ==
  "killed" \notin faults =>
    \A i \in temps : \E p \in Puts : pc[p] # "idle" /\ file[p] = i

\* An upload "refuses to overwrite an existing file" without --replace: it takes the
\* place of no file but one that has come while it ran, and then it reports that it
\* has replaced nothing.
OnlyLateFilesAreOverwritten ==
  [][\A n \in FileNames : dir[n] # None /\ dir'[n] # dir[n] =>
       \E p \in Puts :
         pc[p] = "rename" /\ job[p].name = n /\ (job[p].replace \/ ~job[p].existed)]_vars
=============================================================================
