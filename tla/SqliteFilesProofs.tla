-------------------------- MODULE SqliteFilesProofs --------------------------
(***************************************************************************)
(* Theorems about SqliteFiles, for any number of uploads, seeds, readers,  *)
(* names, inodes and faults, and for files of any length.                  *)
(***************************************************************************)
EXTENDS SqliteFiles, SequenceTheorems, TLAPS

USE DEF Kinds

\* The steps at which an upload has a temporary file.
Uploading == {"copy", "chmod", "rename", "remove"}

\* Which process can be where, and what it has open there.
At(p) ==
  /\ pc[p] \in Uploading \cup {"stat", "create"} => p \in Puts /\ job[p] \in Jobs
  /\ pc[p] \in {"truncate", "write"} => p \in Seeds /\ job[p] \in Jobs
  /\ pc[p] = "read" => p \in Readers
  /\ pc[p] \in {"idle", "stat", "create", "truncate"} => file[p] = None
  /\ pc[p] \in {"write", "read"} => file[p] \in Inodes
  /\ pc[p] = "write" => file[p] \in seeded
  /\ pc[p] # "read" => got[p] = <<>>

Control == \A p \in Procs : At(p)

\* A temporary file has no other name, and only the upload that made it has it open.
Apart ==
  /\ \A n \in FileNames : dir[n] \notin temps
  /\ \A p \in Procs : pc[p] \in {"write", "read"} => file[p] \notin temps
  /\ \A p, q \in Puts :
       p # q /\ pc[p] \in Uploading /\ pc[q] \in Uploading => file[p] # file[q]

Inv == TypeOK /\ Control /\ Apart

LEMMA Processes ==
  /\ Procs = Puts \cup Seeds \cup Readers
  /\ Puts \cap Seeds = {} /\ Puts \cap Readers = {} /\ Seeds \cap Readers = {}
BY ProcsAssumption DEF Procs

\* A process that ends.
LEMMA Returns ==
  ASSUME TypeOK, NEW p \in Procs, Return(p)
  PROVE  /\ pc' \in [Procs -> Labels] /\ pc'[p] = "idle"
         /\ job' \in [Procs -> Jobs \cup {None}]
         /\ file' \in [Procs -> Inodes \cup {None}] /\ file'[p] = None
         /\ got' \in [Procs -> Seq(Data)] /\ got'[p] = <<>>
         /\ \A q \in Procs \ {p} :
              pc'[q] = pc[q] /\ job'[q] = job[q] /\ file'[q] = file[q] /\ got'[q] = got[q]
BY DEF TypeOK, Return, Goto, Labels

\* What nothing refers to is gone, and the rest is as it was.
LEMMA Reclaims ==
  ASSUME TypeOK, Reclaim
  PROVE  /\ content' \in [Inodes -> Seq(Data)]
         /\ public' \subseteq Inodes /\ seeded' \subseteq Inodes
         /\ \A i \in Inodes : Used(i)' =>
              content'[i] = content[i] /\ (i \in public => i \in public')
              /\ (i \in seeded <=> i \in seeded')
<1>1. <<>> \in Seq(Data)
  OBVIOUS
<1>2. \A i \in Inodes : (IF Used(i)' THEN content[i] ELSE <<>>) \in Seq(Data)
  BY <1>1 DEF TypeOK
<1>3. content' \in [Inodes -> Seq(Data)]
  BY <1>2 DEF Reclaim
<1>4. QED
  BY <1>3 DEF Reclaim, TypeOK

\* The end of one process brings no two uploads together.
LEMMA StaysApart ==
  ASSUME Apart, NEW p \in Procs, pc'[p] = "idle",
         \A q \in Procs \ {p} : pc'[q] = pc[q] /\ file'[q] = file[q],
         temps' \subseteq temps, \A n \in FileNames : dir'[n] \notin temps'
  PROVE  Apart'
<1>1. ASSUME NEW q \in Procs, pc'[q] \in {"write", "read"} PROVE file'[q] \notin temps'
  <2>1. q # p
    BY <1>1
  <2>2. pc[q] \in {"write", "read"} /\ file'[q] = file[q]
    BY <1>1, <2>1
  <2>3. QED BY <2>2 DEF Apart
<1>2. ASSUME NEW q \in Puts, NEW r \in Puts, q # r, pc'[q] \in Uploading, pc'[r] \in Uploading
      PROVE  file'[q] # file'[r]
  <2>1. q \in Procs \ {p} /\ r \in Procs \ {p}
    BY <1>2, Processes DEF Uploading
  <2>2. pc'[q] = pc[q] /\ file'[q] = file[q] /\ pc'[r] = pc[r] /\ file'[r] = file[r]
    BY <2>1
  <2>3. QED BY <1>2, <2>2 DEF Apart
<1>3. QED BY <1>1, <1>2 DEF Apart

LEMMA FaultsGrow ==
  ASSUME TypeOK, NEW kind, Fault(kind)
  PROVE  faults' \subseteq Kinds /\ faults \subseteq faults'
BY FaultsAssumption DEF TypeOK, Fault

LEMMA InitInv == Init => Inv
BY NoneAssumption, Processes DEF Init, Inv, TypeOK, Control, At, Apart, Labels, Uploading

LEMMA StartPutInv ==
  ASSUME Inv, NEW p \in Puts, NEW n \in FileNames, NEW d \in Data, NEW replace \in BOOLEAN,
         StartPut(p, n, d, replace)
  PROVE  Inv'
<1>1. Job(n, d, replace) \in Jobs /\ p \in Procs
  BY Processes DEF Job, Jobs
<1>2. /\ pc' = [pc EXCEPT ![p] = "stat"] /\ pc[p] = "idle"
      /\ job' = [job EXCEPT ![p] = Job(n, d, replace)]
      /\ UNCHANGED <<volume, file, got, faults>>
  BY DEF StartPut, Idle, Goto
<1>3. TypeOK'
  BY <1>1, <1>2 DEF Inv, TypeOK, volume, Labels
<1>4. Control' /\ Apart'
  BY <1>1, <1>2, Processes DEF Inv, TypeOK, Control, At, Apart, volume, Uploading
<1>5. QED BY <1>3, <1>4 DEF Inv

\* A process ends, and the volume stays as it is.
LEMMA EndInv ==
  ASSUME Inv, NEW p \in Procs, Return(p), UNCHANGED volume, faults' \subseteq Kinds
  PROVE  Inv'
<1>1. /\ pc' \in [Procs -> Labels] /\ pc'[p] = "idle"
      /\ job' \in [Procs -> Jobs \cup {None}]
      /\ file' \in [Procs -> Inodes \cup {None}] /\ file'[p] = None
      /\ got' \in [Procs -> Seq(Data)] /\ got'[p] = <<>>
      /\ \A q \in Procs \ {p} :
           pc'[q] = pc[q] /\ job'[q] = job[q] /\ file'[q] = file[q] /\ got'[q] = got[q]
  BY Returns DEF Inv
<1>2. \A q \in Puts : q \in Procs
  BY Processes
<1>3. TypeOK'
  BY <1>1, <1>2 DEF Inv, TypeOK, volume
<1>4. Control'
  BY <1>1 DEF Inv, Control, At, volume, Uploading
<1>5. Apart'
  <2>1. UNCHANGED <<dir, temps>> /\ \A n \in FileNames : dir[n] \notin temps
    BY DEF Inv, Apart, volume
  <2>2. QED BY <1>1, <2>1, StaysApart DEF Inv
<1>6. QED BY <1>3, <1>4, <1>5 DEF Inv

LEMMA CheckDestinationInv ==
  ASSUME Inv, NEW p \in Puts, CheckDestination(p)
  PROVE  Inv'
<1> USE Processes
<1>1. p \in Procs /\ job[p] \in Jobs /\ pc[p] = "stat" /\ file[p] = None
  BY DEF Inv, Control, At, CheckDestination
<1>2. CASE Return(p)
  <2>1. faults' \subseteq Kinds /\ UNCHANGED volume
    BY FaultsGrow DEF CheckDestination, Inv, TypeOK
  <2>2. QED BY <2>1, <1>1, <1>2, EndInv
<1>3. CASE /\ pc' = [pc EXCEPT ![p] = "create"]
           /\ job' = [job EXCEPT ![p].existed = dir[job[p].name] # None]
           /\ UNCHANGED <<volume, file, got, faults>>
  <2>1. job' \in [Procs -> Jobs \cup {None}] /\ job'[p] \in Jobs
    <3>1. [job[p] EXCEPT !.existed = dir[job[p].name] # None] \in Jobs
      BY <1>1 DEF Jobs
    <3>2. job' = [job EXCEPT ![p] = [job[p] EXCEPT !.existed = dir[job[p].name] # None]]
      BY <1>3
    <3>3. QED BY <3>1, <3>2, <1>1 DEF Inv, TypeOK
  <2>2. \A q \in Procs \ {p} : job'[q] = job[q]
    BY <1>3 DEF Inv, TypeOK
  <2>3. TypeOK'
    BY <2>1, <1>3 DEF Inv, TypeOK, volume, Labels
  <2>4. Control' /\ Apart'
    BY <1>1, <1>3, <2>1, <2>2 DEF Inv, TypeOK, Control, At, Apart, volume, Uploading
  <2>5. QED BY <2>3, <2>4 DEF Inv
<1>4. QED BY <1>2, <1>3 DEF CheckDestination, Goto

LEMMA CreateTempInv ==
  ASSUME Inv, NEW p \in Puts, CreateTemp(p)
  PROVE  Inv'
<1> USE Processes
<1>1. p \in Procs /\ job[p] \in Jobs /\ pc[p] = "create" /\ file[p] = None
  BY DEF Inv, Control, At, CreateTemp
<1>2. CASE Return(p) /\ UNCHANGED <<temps, content>>
  <2>1. faults' \subseteq Kinds /\ UNCHANGED volume
    BY <1>2, FaultsGrow, <1>1 DEF CreateTemp, Inv, TypeOK, volume, Return, Goto
  <2>2. QED BY <2>1, <1>1, <1>2, EndInv
<1>3. ASSUME NEW i \in Inodes, ~Used(i), temps' = temps \cup {i},
             content' = [content EXCEPT ![i] = <<>>], file' = [file EXCEPT ![p] = i],
             pc' = [pc EXCEPT ![p] = "copy"],
             UNCHANGED <<job, got, faults>>, UNCHANGED <<dir, public, seeded>>
      PROVE  Inv'
  <2>1. (\A n \in FileNames : dir[n] # i) /\ (\A q \in Procs : file[q] # i)
    BY <1>3 DEF Used
  <2>2. TypeOK'
    BY <1>1, <1>3 DEF Inv, TypeOK, Labels
  <2>3. Control' /\ Apart'
    BY <1>1, <1>3, <2>1 DEF Inv, TypeOK, Control, At, Apart, Uploading
  <2>4. QED BY <2>2, <2>3 DEF Inv
<1>4. QED BY <1>2, <1>3 DEF CreateTemp, Goto

\* An upload that gives up is on its way to the deferred Remove.
LEMMA AbandonInv ==
  ASSUME Inv, NEW p \in Puts, pc[p] \in Uploading, Abandon(p),
         faults' \subseteq Kinds, UNCHANGED volume
  PROVE  Inv'
<1> USE Processes
<1>1. p \in Procs /\ pc' = [pc EXCEPT ![p] = "remove"] /\ UNCHANGED <<job, file, got>>
  BY DEF Abandon, Goto
<1>2. QED BY <1>1 DEF Inv, TypeOK, Control, At, Apart, volume, Uploading, Labels

LEMMA CopyInv ==
  ASSUME Inv, NEW p \in Puts, Copy(p)
  PROVE  Inv'
<1> USE Processes
<1>1. p \in Procs /\ job[p] \in Jobs /\ pc[p] = "copy" /\ file[p] \in Inodes /\ job[p].data \in Data
  BY DEF Inv, Control, At, Copy, Uploading, TypeOK, Jobs
<1>2. UNCHANGED <<dir, temps, public, seeded>>
  BY DEF Copy
<1>3. faults' \subseteq Kinds
  BY FaultsGrow DEF Copy, Inv, TypeOK
<1>4. CASE AppendTo(file[p], job[p].data) /\ UNCHANGED <<pc, job, file, got, faults>>
  <2>1. content' \in [Inodes -> Seq(Data)]
    BY <1>1, <1>4 DEF AppendTo, Inv, TypeOK
  <2>2. QED BY <1>2, <1>4, <2>1 DEF Inv, TypeOK, Control, At, Apart, Uploading
<1>5. CASE EndOfStream(p) /\ UNCHANGED content
  <2>1. CASE Abandon(p)
    BY <2>1, <1>1, <1>2, <1>3, <1>5, AbandonInv DEF Uploading, volume
  <2>2. CASE pc' = [pc EXCEPT ![p] = "chmod"] /\ UNCHANGED <<job, file, got>>
    BY <2>2, <1>1, <1>2, <1>3, <1>5 DEF Inv, TypeOK, Control, At, Apart, Uploading, Labels
  <2>3. QED BY <1>5, <2>1, <2>2 DEF EndOfStream, Goto
<1>6. CASE Abandon(p) /\ UNCHANGED content
  BY <1>1, <1>2, <1>3, <1>6, AbandonInv DEF Uploading, volume
<1>7. QED BY <1>4, <1>5, <1>6 DEF Copy

LEMMA ChmodInv ==
  ASSUME Inv, NEW p \in Puts, Chmod(p)
  PROVE  Inv'
<1> USE Processes
<1>1. p \in Procs /\ job[p] \in Jobs /\ pc[p] = "chmod" /\ file[p] \in Inodes
  BY DEF Inv, Control, At, Chmod, Uploading, TypeOK
<1>2. CASE Abandon(p) /\ Fault("failed") /\ UNCHANGED public
  BY <1>1, <1>2, AbandonInv, FaultsGrow DEF Chmod, Uploading, volume, Inv
<1>3. CASE /\ public' = public \cup {file[p]} /\ pc' = [pc EXCEPT ![p] = "rename"]
           /\ UNCHANGED <<job, file, got, faults>>
  BY <1>1, <1>3 DEF Chmod, Inv, TypeOK, Control, At, Apart, Uploading, Labels
<1>4. QED BY <1>2, <1>3 DEF Chmod, Goto

\* The temporary file of p becomes the one behind its name, or is gone.
LEMMA ReleaseInv ==
  ASSUME Inv, NEW p \in Puts, pc[p] \in Uploading, Return(p), temps' = temps \ {file[p]}, Reclaim,
         faults' = faults,
         dir' = dir \/ dir' = [dir EXCEPT ![job[p].name] = file[p]]
  PROVE  Inv'
<1> USE Processes
<1>1. p \in Procs /\ job[p] \in Jobs /\ job[p].name \in FileNames /\ file[p] \in Inodes
  BY DEF Inv, Control, At, Uploading, TypeOK, Jobs
<1>2. dir' \in [FileNames -> Inodes \cup {None}] /\ \A n \in FileNames : dir'[n] = dir[n] \/ dir'[n] = file[p]
  BY <1>1 DEF Inv, TypeOK
<1>3. /\ pc' \in [Procs -> Labels] /\ pc'[p] = "idle"
      /\ job' \in [Procs -> Jobs \cup {None}]
      /\ file' \in [Procs -> Inodes \cup {None}] /\ file'[p] = None
      /\ got' \in [Procs -> Seq(Data)] /\ got'[p] = <<>>
      /\ \A q \in Procs \ {p} :
           pc'[q] = pc[q] /\ job'[q] = job[q] /\ file'[q] = file[q] /\ got'[q] = got[q]
  BY <1>1, Returns DEF Inv
<1>4. \A q \in Procs \ {p} : \A i \in Inodes : i = file[q] => Used(i)'
  BY <1>3 DEF Used
<1>5. /\ content' \in [Inodes -> Seq(Data)] /\ public' \subseteq Inodes /\ seeded' \subseteq Inodes
      /\ \A i \in Inodes : Used(i)' => (i \in seeded <=> i \in seeded')
  BY Reclaims DEF Inv
<1>6. \A q \in Puts \ {p} : q \in Procs /\ (pc[q] \in Uploading => file[q] # file[p])
  BY DEF Inv, Apart
<1>7. TypeOK'
  BY <1>1, <1>2, <1>3, <1>5, <1>6 DEF Inv, TypeOK, Uploading
<1>8. Control'
  <2>1. At(p)'
    BY <1>3 DEF At, Uploading
  <2>2. ASSUME NEW q \in Procs, q # p PROVE At(q)'
    <3>1. At(q) /\ (pc[q] = "write" => file[q] \in seeded')
      BY <1>4, <1>5, <2>2 DEF Inv, Control, At
    <3>2. QED BY <1>3, <2>2, <3>1 DEF At
  <2>3. QED BY <2>1, <2>2 DEF Control
<1>9. Apart'
  <2>1. \A n \in FileNames : dir'[n] \notin temps'
    BY <1>2 DEF Inv, Apart
  <2>2. QED BY <1>1, <1>3, <2>1, StaysApart DEF Inv
<1>10. QED BY <1>7, <1>8, <1>9 DEF Inv

LEMMA KillInv ==
  ASSUME Inv, NEW p \in Puts, Kill(p)
  PROVE  Inv'
BY EndInv, FaultsGrow, Processes DEF Kill, Inv

LEMMA StartSeedInv ==
  ASSUME Inv, NEW p \in Seeds, NEW n \in FileNames, NEW d \in Data, StartSeed(p, n, d)
  PROVE  Inv'
<1> USE Processes
<1>1. Job(n, d, TRUE) \in Jobs /\ p \in Procs
  BY DEF Job, Jobs
<1>2. /\ pc' = [pc EXCEPT ![p] = "truncate"] /\ pc[p] = "idle"
      /\ job' = [job EXCEPT ![p] = Job(n, d, TRUE)]
      /\ UNCHANGED <<volume, file, got, faults>>
  BY DEF StartSeed, Idle, Goto
<1>3. TypeOK'
  BY <1>1, <1>2 DEF Inv, TypeOK, volume, Labels
<1>4. Control' /\ Apart'
  BY <1>1, <1>2 DEF Inv, TypeOK, Control, At, Apart, volume, Uploading
<1>5. QED BY <1>3, <1>4 DEF Inv

LEMMA TruncateInv ==
  ASSUME Inv, NEW p \in Seeds, Truncate(p)
  PROVE  Inv'
<1> USE Processes
<1>1. p \in Procs /\ job[p] \in Jobs /\ pc[p] = "truncate" /\ job[p].name \in FileNames
  BY DEF Inv, Control, At, Truncate, Jobs
<1>2. CASE Return(p) /\ UNCHANGED <<dir, content, public, seeded>>
  BY <1>1, <1>2, EndInv DEF Truncate, Inv, TypeOK, volume
<1>3. ASSUME NEW i \in Inodes, dir[job[p].name] = i \/ (dir[job[p].name] = None /\ ~Used(i)),
             dir' = [dir EXCEPT ![job[p].name] = i], content' = [content EXCEPT ![i] = <<>>],
             public' = public \cup {i}, seeded' = seeded \cup {i},
             file' = [file EXCEPT ![p] = i], pc' = [pc EXCEPT ![p] = "write"],
             UNCHANGED <<job, got>>, UNCHANGED <<temps, faults>>
      PROVE  Inv'
  <2>1. i \notin temps
    BY <1>1, <1>3 DEF Inv, Apart, Used
  <2>2. TypeOK'
    BY <1>1, <1>3 DEF Inv, TypeOK, Labels
  <2>3. Control' /\ Apart'
    BY <1>1, <1>3, <2>1 DEF Inv, TypeOK, Control, At, Apart, Uploading
  <2>4. QED BY <2>2, <2>3 DEF Inv
<1>4. QED BY <1>2, <1>3 DEF Truncate, Goto

\* A seed or a reader closes its file.
LEMMA CloseInv ==
  ASSUME Inv, NEW p \in Procs, pc[p] \in {"write", "read"}, Return(p), Reclaim,
         faults' \subseteq Kinds, UNCHANGED <<dir, temps>>
  PROVE  Inv'
<1>1. /\ pc' \in [Procs -> Labels] /\ pc'[p] = "idle"
      /\ job' \in [Procs -> Jobs \cup {None}]
      /\ file' \in [Procs -> Inodes \cup {None}] /\ file'[p] = None
      /\ got' \in [Procs -> Seq(Data)] /\ got'[p] = <<>>
      /\ \A q \in Procs \ {p} :
           pc'[q] = pc[q] /\ job'[q] = job[q] /\ file'[q] = file[q] /\ got'[q] = got[q]
  BY Returns DEF Inv
<1>2. \A q \in Procs \ {p} : \A i \in Inodes : i = file[q] => Used(i)'
  BY <1>1 DEF Used
<1>3. /\ content' \in [Inodes -> Seq(Data)] /\ public' \subseteq Inodes /\ seeded' \subseteq Inodes
      /\ \A i \in Inodes : Used(i)' => (i \in seeded <=> i \in seeded')
  BY Reclaims DEF Inv
<1>4. \A q \in Puts : q \in Procs
  BY Processes
<1>5. TypeOK'
  BY <1>1, <1>3, <1>4 DEF Inv, TypeOK
<1>6. Control'
  BY <1>1, <1>2, <1>3 DEF Inv, Control, At, Uploading
<1>7. Apart'
  <2>1. \A n \in FileNames : dir[n] \notin temps
    BY DEF Inv, Apart
  <2>2. QED BY <1>1, <2>1, StaysApart DEF Inv
<1>8. QED BY <1>5, <1>6, <1>7 DEF Inv

LEMMA WriteInv ==
  ASSUME Inv, NEW p \in Seeds, Write(p)
  PROVE  Inv'
<1> USE Processes
<1>1. /\ p \in Procs /\ job[p] \in Jobs /\ job[p].data \in Data /\ pc[p] = "write"
      /\ file[p] \in Inodes
  BY DEF Inv, Control, At, Write, Jobs
<1>2. faults' \subseteq Kinds
  BY FaultsGrow DEF Write, Inv, TypeOK
<1>3. CASE AppendTo(file[p], job[p].data) /\ UNCHANGED <<public, seeded, pc, job, file, got, faults>>
  <2>1. content' \in [Inodes -> Seq(Data)]
    BY <1>1, <1>3 DEF AppendTo, Inv, TypeOK
  <2>2. QED BY <2>1, <1>3 DEF Write, Inv, TypeOK, Control, At, Apart, Uploading
<1>4. CASE Return(p) /\ Reclaim
  BY <1>1, <1>2, <1>4, CloseInv DEF Write
<1>5. QED BY <1>3, <1>4 DEF Write

LEMMA OpenInv ==
  ASSUME Inv, NEW p \in Readers, NEW n \in FileNames, Open(p, n)
  PROVE  Inv'
<1> USE Processes
<1>1. /\ p \in Procs /\ pc[p] = "idle" /\ dir[n] \in Inodes /\ dir[n] \notin temps
      /\ file' = [file EXCEPT ![p] = dir[n]] /\ pc' = [pc EXCEPT ![p] = "read"]
      /\ UNCHANGED <<volume, job, got, faults>>
  BY DEF Open, Idle, Goto, Inv, TypeOK, Apart
<1>2. TypeOK'
  BY <1>1 DEF Inv, TypeOK, volume, Labels
<1>3. Control' /\ Apart'
  BY <1>1 DEF Inv, TypeOK, Control, At, Apart, volume, Uploading
<1>4. QED BY <1>2, <1>3 DEF Inv

LEMMA ReadInv ==
  ASSUME Inv, NEW p \in Readers, Read(p)
  PROVE  Inv'
<1> USE Processes
<1>1. p \in Procs /\ pc[p] = "read" /\ file[p] \in Inodes
  BY DEF Inv, Control, At, Read
<1>2. CASE /\ Len(got[p]) < Len(content[file[p]])
           /\ got' = [got EXCEPT ![p] = Append(@, content[file[p]][Len(got[p]) + 1])]
           /\ UNCHANGED <<content, public, seeded, pc, job, file>>
  <2>1. content[file[p]] \in Seq(Data) /\ got[p] \in Seq(Data)
    BY <1>1 DEF Inv, TypeOK
  <2>2. content[file[p]][Len(got[p]) + 1] \in Data
    BY <2>1, <1>2
  <2>3. got' \in [Procs -> Seq(Data)]
    BY <1>1, <1>2, <2>1, <2>2 DEF Inv, TypeOK
  <2>4. QED BY <2>3, <1>2 DEF Read, Inv, TypeOK, Control, At, Apart, Uploading
<1>3. CASE Return(p) /\ Reclaim
  BY <1>1, <1>3, CloseInv DEF Read, Inv, TypeOK
<1>4. QED BY <1>2, <1>3 DEF Read

LEMMA Step ==
  ASSUME Inv, [Next]_vars
  PROVE  Inv'
<1>1. CASE UNCHANGED vars
  BY <1>1 DEF vars, volume, Inv, TypeOK, Control, At, Apart
<1>2. ASSUME NEW p \in Puts, Rename(p) PROVE Inv'
  <2>1. p \in Procs /\ job[p] \in Jobs /\ pc[p] \in Uploading
    BY <1>2, Processes DEF Inv, Control, At, Rename, Uploading
  <2>2. CASE /\ dir' = [dir EXCEPT ![job[p].name] = file[p]]
             /\ temps' = temps \ {file[p]} /\ Return(p) /\ UNCHANGED faults
    BY <1>2, <2>1, <2>2, ReleaseInv DEF Rename
  <2>3. CASE Fault("failed") /\ Abandon(p) /\ UNCHANGED <<dir, temps>>
    <3>1. UNCHANGED file
      BY <2>3 DEF Abandon
    <3>2. \A q \in Procs : \A i \in Inodes : i = file[q] => Used(i)'
      BY <3>1 DEF Used
    <3>3. /\ content' \in [Inodes -> Seq(Data)] /\ public' \subseteq Inodes /\ seeded' \subseteq Inodes
          /\ \A i \in Inodes : Used(i)' => (i \in seeded <=> i \in seeded')
      BY <1>2, Reclaims DEF Inv, Rename
    <3>4. faults' \subseteq Kinds
      BY <2>3, FaultsGrow DEF Inv
    <3>5. /\ pc' = [pc EXCEPT ![p] = "remove"] /\ UNCHANGED <<job, file, got, dir, temps>>
      BY <2>3 DEF Abandon, Goto
    <3>6. TypeOK'
      BY <2>1, <3>3, <3>4, <3>5 DEF Inv, TypeOK, Uploading, Labels
    <3>7. Control'
      BY <2>1, <3>2, <3>3, <3>5, Processes DEF Inv, TypeOK, Control, At, Uploading
    <3>8. Apart'
      BY <2>1, <3>5, Processes DEF Inv, TypeOK, Apart, Uploading
    <3>9. QED BY <3>6, <3>7, <3>8 DEF Inv
  <2>4. QED BY <1>2, <2>2, <2>3 DEF Rename
<1>3. ASSUME NEW p \in Puts, Remove(p) PROVE Inv'
  BY <1>3, ReleaseInv DEF Remove, Uploading
<1>4. QED
  BY <1>1, <1>2, <1>3, StartPutInv, CheckDestinationInv, CreateTempInv, CopyInv, ChmodInv, KillInv,
     StartSeedInv, TruncateInv, WriteInv, OpenInv, ReadInv
     DEF Next, PutStep, SeedStep

\* The volume and the processes keep their shapes, and an upload past CreateTemp has a
\* temporary file.
THEOREM Types == Spec => []TypeOK
<1>1. Inv => TypeOK
  BY DEF Inv
<1>2. QED BY <1>1, InitInv, Step, PTL DEF Spec
----------------------------------------------------------------------------
(***************************************************************************)
(* Temporary files, and what is overwritten.                               *)
(***************************************************************************)
\* A step of p is seen in no other process.
Alone(p) ==
  \A q \in Procs \ {p} :
    pc'[q] = pc[q] /\ job'[q] = job[q] /\ file'[q] = file[q] /\ got'[q] = got[q]

LEMMA PutsAlone ==
  ASSUME Inv, NEW p \in Puts,
         \/ \E n \in FileNames, d \in Data, replace \in BOOLEAN : StartPut(p, n, d, replace)
         \/ PutStep(p) \/ Kill(p)
  PROVE  Alone(p) /\ faults \subseteq faults'
<1> USE DEF Inv, TypeOK, Alone, Return, Goto, Abandon, Fault, volume
<1>1. ASSUME NEW n \in FileNames, NEW d \in Data, NEW replace \in BOOLEAN, StartPut(p, n, d, replace)
      PROVE  Alone(p) /\ faults \subseteq faults'
  BY <1>1 DEF StartPut
<1>2. CASE CheckDestination(p)
  BY <1>2 DEF CheckDestination
<1>3. CASE CreateTemp(p)
  BY <1>3 DEF CreateTemp
<1>4. CASE Copy(p)
  BY <1>4 DEF Copy, EndOfStream
<1>5. CASE Chmod(p)
  BY <1>5 DEF Chmod
<1>6. CASE Rename(p)
  BY <1>6 DEF Rename
<1>7. CASE Remove(p)
  BY <1>7 DEF Remove
<1>8. CASE Kill(p)
  BY <1>8 DEF Kill
<1>9. QED BY <1>1, <1>2, <1>3, <1>4, <1>5, <1>6, <1>7, <1>8 DEF PutStep

LEMMA SeedsAlone ==
  ASSUME Inv, NEW p \in Seeds,
         (\E n \in FileNames, d \in Data : StartSeed(p, n, d)) \/ SeedStep(p)
  PROVE  Alone(p) /\ faults \subseteq faults' /\ temps' = temps
<1> USE DEF Inv, TypeOK, Alone, Return, Goto, Fault, volume
<1>1. ASSUME NEW n \in FileNames, NEW d \in Data, StartSeed(p, n, d)
      PROVE  Alone(p) /\ faults \subseteq faults' /\ temps' = temps
  BY <1>1 DEF StartSeed
<1>2. CASE Truncate(p)
  BY <1>2 DEF Truncate
<1>3. CASE Write(p)
  BY <1>3 DEF Write
<1>4. QED BY <1>1, <1>2, <1>3 DEF SeedStep

LEMMA ReadersAlone ==
  ASSUME Inv, NEW p \in Readers, (\E n \in FileNames : Open(p, n)) \/ Read(p)
  PROVE  Alone(p) /\ faults' = faults /\ UNCHANGED <<dir, temps>>
<1> USE DEF Inv, TypeOK, Alone, Return, Goto, volume
<1>1. CASE \E n \in FileNames : Open(p, n)
  BY <1>1 DEF Open
<1>2. CASE Read(p)
  BY <1>2 DEF Read
<1>3. QED BY <1>1, <1>2

\* The step of one process leaves the others' temporary files to them.
LEMMA StillHeld ==
  ASSUME Inv, TempsBelongToUploads, NEW p \in Procs, Alone(p), faults \subseteq faults',
         temps' \subseteq temps,
         \/ p \notin Puts
         \/ file[p] \notin temps'
         \/ pc'[p] # "idle" /\ file'[p] = file[p]
  PROVE  TempsBelongToUploads'
<1> SUFFICES ASSUME "killed" \notin faults', NEW i \in temps'
             PROVE  \E q \in Puts : pc'[q] # "idle" /\ file'[q] = i
  BY DEF TempsBelongToUploads
<1>1. PICK q \in Puts : pc[q] # "idle" /\ file[q] = i
  BY DEF TempsBelongToUploads
<1>2. CASE q = p
  BY <1>1, <1>2
<1>3. CASE q # p
  BY <1>1, <1>3, Processes DEF Alone
<1>4. QED BY <1>2, <1>3

LEMMA PutStepTemps ==
  ASSUME Inv, TempsBelongToUploads, NEW p \in Puts, PutStep(p)
  PROVE  TempsBelongToUploads'
<1> USE Processes
<1>1. p \in Procs /\ Alone(p) /\ faults \subseteq faults'
  BY PutsAlone
<1>2. CASE CheckDestination(p)
  <2>1. UNCHANGED temps /\ file[p] = None /\ None \notin temps
    BY <1>1, <1>2, NoneAssumption DEF CheckDestination, volume, Inv, TypeOK, Control, At
  <2>2. QED BY <1>1, <2>1, StillHeld
<1>3. CASE CreateTemp(p)
  <2>1. file[p] = None /\ None \notin temps
    BY <1>1, <1>3, NoneAssumption DEF CreateTemp, Inv, TypeOK, Control, At
  <2>2. CASE UNCHANGED temps
    BY <1>1, <2>1, <2>2, StillHeld
  <2>3. ASSUME NEW i \in Inodes, temps' = temps \cup {i}, file' = [file EXCEPT ![p] = i],
               pc' = [pc EXCEPT ![p] = "copy"]
        PROVE  TempsBelongToUploads'
    <3>1. pc'[p] # "idle" /\ file'[p] = i
      BY <1>1, <2>3 DEF Inv, TypeOK
    <3>2. \A q \in Puts : file[q] \in temps => q # p
      BY <2>1
    <3>3. QED BY <1>1, <2>3, <3>1, <3>2 DEF TempsBelongToUploads, Alone
  <2>4. QED BY <1>3, <2>2, <2>3 DEF CreateTemp, Goto
<1>4. CASE Copy(p) \/ Chmod(p)
  <2>1. UNCHANGED temps /\ pc'[p] # "idle" /\ file'[p] = file[p]
    BY <1>1, <1>4 DEF Copy, Chmod, EndOfStream, Abandon, Goto, Inv, TypeOK
  <2>2. QED BY <1>1, <2>1, StillHeld
<1>5. CASE Rename(p)
  <2>1. \/ temps' = temps \ {file[p]}
        \/ UNCHANGED temps /\ pc'[p] # "idle" /\ file'[p] = file[p]
    BY <1>1, <1>5 DEF Rename, Abandon, Goto, Inv, TypeOK
  <2>2. temps' \subseteq temps /\ (file[p] \notin temps' \/ (pc'[p] # "idle" /\ file'[p] = file[p]))
    BY <2>1
  <2>3. QED BY <1>1, <2>2, StillHeld
<1>6. CASE Remove(p)
  <2>1. temps' \subseteq temps /\ file[p] \notin temps'
    BY <1>6 DEF Remove
  <2>2. QED BY <1>1, <2>1, StillHeld
<1>7. QED BY <1>2, <1>3, <1>4, <1>5, <1>6 DEF PutStep

LEMMA StepTemps ==
  ASSUME Inv, TempsBelongToUploads, [Next]_vars
  PROVE  TempsBelongToUploads'
<1> USE Processes
<1>1. CASE UNCHANGED vars
  BY <1>1 DEF vars, volume, TempsBelongToUploads
<1>2. ASSUME NEW p \in Puts, NEW n \in FileNames, NEW d \in Data, NEW replace \in BOOLEAN,
             StartPut(p, n, d, replace)
      PROVE  TempsBelongToUploads'
  <2>1. pc'[p] # "idle" /\ file'[p] = file[p] /\ UNCHANGED temps
    BY <1>2 DEF StartPut, Goto, volume, Inv, TypeOK
  <2>2. QED BY <1>2, <2>1, PutsAlone, StillHeld
<1>3. ASSUME NEW p \in Puts, Kill(p) PROVE TempsBelongToUploads'
  BY <1>3 DEF Kill, Fault, TempsBelongToUploads
<1>4. ASSUME NEW p \in Seeds, (\E n \in FileNames, d \in Data : StartSeed(p, n, d)) \/ SeedStep(p)
      PROVE  TempsBelongToUploads'
  BY <1>4, SeedsAlone, StillHeld
<1>5. ASSUME NEW p \in Readers, (\E n \in FileNames : Open(p, n)) \/ Read(p)
      PROVE  TempsBelongToUploads'
  BY <1>5, ReadersAlone, StillHeld
<1>6. QED BY <1>1, <1>2, <1>3, <1>4, <1>5, PutStepTemps DEF Next

\* Unless an upload has been killed, every temporary file belongs to one that runs.
THEOREM UploadsCleanUp == Spec => []TempsBelongToUploads
<1>1. Init => TempsBelongToUploads
  BY DEF Init, TempsBelongToUploads
<1>2. QED BY <1>1, InitInv, Step, StepTemps, PTL DEF Spec

\* An upload past its test of the destination may replace, or has found nothing there.
MayRename(p) ==
  pc[p] \in {"create", "copy", "chmod", "rename"} => job[p].replace \/ ~job[p].existed

Late == \A p \in Puts : MayRename(p)

LEMMA StillLate ==
  ASSUME Inv, Late, NEW p \in Procs, Alone(p), p \in Puts => MayRename(p)'
  PROVE  Late'
<1> SUFFICES ASSUME NEW q \in Puts PROVE MayRename(q)'
  BY DEF Late
<1>1. CASE q = p
  BY <1>1
<1>2. CASE q # p
  <2>1. pc'[q] = pc[q] /\ job'[q] = job[q]
    BY <1>2, Processes DEF Alone
  <2>2. QED BY <2>1, Zenon DEF Late, MayRename
<1>3. QED BY <1>1, <1>2

LEMMA CheckDestinationLate ==
  ASSUME Inv, NEW p \in Puts, CheckDestination(p)
  PROVE  MayRename(p)'
<1> USE Processes
<1>1. p \in Procs /\ job[p] \in Jobs
  BY DEF Inv, Control, At, CheckDestination
<1>2. CASE Return(p)
  <2>1. pc'[p] = "idle"
    BY <1>1, <1>2, Returns DEF Inv
  <2>2. QED BY <2>1 DEF MayRename
<1>3. CASE MayWrite(p) /\ job' = [job EXCEPT ![p].existed = dir[job[p].name] # None]
  <2>1. job'[p] = [job[p] EXCEPT !.existed = dir[job[p].name] # None]
    BY <1>1, <1>3 DEF Inv, TypeOK
  <2>2. job'[p].replace = job[p].replace
    BY <2>1, <1>1, Zenon DEF Jobs
  <2>3. job'[p].existed = (dir[job[p].name] # None)
    BY <2>1, <1>1, Zenon DEF Jobs
  <2>4. QED BY <1>3, <2>2, <2>3, Zenon DEF MayRename, MayWrite
<1>4. QED BY <1>2, <1>3 DEF CheckDestination

LEMMA PutStepLate ==
  ASSUME Inv, Late, NEW p \in Puts, PutStep(p)
  PROVE  Late'
<1> USE Processes
<1>1. p \in Procs /\ Alone(p)
  BY PutsAlone
<1>2. CASE CheckDestination(p)
  BY <1>1, <1>2, CheckDestinationLate, StillLate
<1>3. CASE ~CheckDestination(p)
  <2>1. \/ pc'[p] \notin {"create", "copy", "chmod", "rename"}
        \/ job'[p] = job[p] /\ pc[p] \in {"create", "copy", "chmod", "rename"}
    BY <1>1, <1>3 DEF PutStep, CreateTemp, Copy, Chmod, Rename, Remove, EndOfStream, Abandon,
       Return, Goto, Inv, TypeOK
  <2>2. MayRename(p)'
    BY <2>1, Zenon DEF MayRename, Late
  <2>3. QED BY <1>1, <2>2, StillLate
<1>4. QED BY <1>2, <1>3

LEMMA StepLate ==
  ASSUME Inv, Late, [Next]_vars
  PROVE  Late'
<1> USE Processes
<1>1. CASE UNCHANGED vars
  BY <1>1 DEF vars, Late, MayRename
<1>2. ASSUME NEW p \in Puts, NEW n \in FileNames, NEW d \in Data, NEW replace \in BOOLEAN,
             StartPut(p, n, d, replace)
      PROVE  Late'
  <2>1. pc'[p] = "stat"
    BY <1>2 DEF StartPut, Goto, Inv, TypeOK
  <2>2. MayRename(p)'
    BY <2>1 DEF MayRename
  <2>3. QED BY <1>2, <2>2, PutsAlone, StillLate
<1>3. ASSUME NEW p \in Puts, Kill(p) PROVE Late'
  <2>1. pc'[p] = "idle"
    BY <1>3 DEF Kill, Return, Goto, Inv, TypeOK
  <2>2. MayRename(p)'
    BY <2>1 DEF MayRename
  <2>3. QED BY <1>3, <2>2, PutsAlone, StillLate
<1>4. ASSUME NEW p \in Seeds, (\E n \in FileNames, d \in Data : StartSeed(p, n, d)) \/ SeedStep(p)
      PROVE  Late'
  BY <1>4, SeedsAlone, StillLate
<1>5. ASSUME NEW p \in Readers, (\E n \in FileNames : Open(p, n)) \/ Read(p)
      PROVE  Late'
  BY <1>5, ReadersAlone, StillLate
<1>6. QED BY <1>1, <1>2, <1>3, <1>4, <1>5, PutStepLate DEF Next

\* What a step may put in the place of a file.
Replacement ==
  \A n \in FileNames : dir[n] # None /\ dir'[n] # dir[n] =>
    \E p \in Puts :
      pc[p] = "rename" /\ job[p].name = n /\ (job[p].replace \/ ~job[p].existed)

LEMMA StepReplaces ==
  ASSUME Inv, Late, [Next]_vars
  PROVE  Replacement \/ UNCHANGED vars
<1> USE Processes
<1>1. CASE UNCHANGED vars
  BY <1>1
<1>2. CASE UNCHANGED dir
  BY <1>2 DEF Replacement
<1>3. ASSUME NEW p \in Puts, Rename(p), dir' = [dir EXCEPT ![job[p].name] = file[p]]
      PROVE  Replacement
  <2>1. pc[p] = "rename" /\ (job[p].replace \/ ~job[p].existed)
    <3>1. pc[p] = "rename"
      BY <1>3 DEF Rename
    <3>2. QED BY <3>1, Zenon DEF Late, MayRename
  <2>2. \A n \in FileNames : dir'[n] # dir[n] => job[p].name = n
    BY <1>3 DEF Inv, TypeOK
  <2>3. QED BY <2>1, <2>2, Zenon DEF Replacement
<1>4. ASSUME NEW p \in Seeds, Truncate(p)
      PROVE  Replacement
  <2>1. \A n \in FileNames : dir[n] # None => dir'[n] = dir[n]
    BY <1>4 DEF Truncate, Inv, TypeOK
  <2>2. QED BY <2>1 DEF Replacement
<1>5. QED
  BY <1>1, <1>2, <1>3, <1>4 DEF Next, PutStep, SeedStep, StartPut, CheckDestination, CreateTemp,
     Copy, Chmod, Rename, Remove, Kill, StartSeed, Write, Open, Read, volume

\* Without --replace an upload takes the place only of a file that has come since it
\* looked.
THEOREM NoOldFileIsOverwritten == Spec => OnlyLateFilesAreOverwritten
<1>1. Init => Late
  BY Processes DEF Init, Late, MayRename
<1>2. Inv /\ Late /\ [Next]_vars => [Replacement]_vars
  BY StepReplaces
<1>3. Spec => [][Replacement]_vars
  BY <1>1, <1>2, InitInv, Step, StepLate, PTL DEF Spec
<1>4. QED BY <1>3 DEF Replacement, OnlyLateFilesAreOverwritten
----------------------------------------------------------------------------
(***************************************************************************)
(* What is in the files.                                                   *)
(***************************************************************************)
\* c is the beginning of what an upload of d writes.
Begun(c, d) == Len(c) <= Readable(d) /\ \A k \in 1 .. Len(c) : c[k] = d

\* s is the beginning of c.
Follows(s, c) == Len(s) <= Len(c) /\ \A k \in 1 .. Len(s) : s[k] = c[k]

LEMMA ReadableNat == ASSUME NEW d \in Data PROVE Readable(d) \in Nat
BY LengthAssumption, LimitAssumption DEF Readable

LEMMA BegunAppend ==
  ASSUME NEW d \in Data, NEW c \in Seq(Data), Begun(c, d), Len(c) < Readable(d)
  PROVE  Begun(Append(c, d), d)
<1>1. /\ Len(Append(c, d)) = Len(c) + 1
      /\ \A k \in 1 .. Len(c) + 1 : Append(c, d)[k] = d
  BY AppendProperties DEF Begun
<1>2. QED BY <1>1, ReadableNat DEF Begun

LEMMA BegunWhole ==
  ASSUME NEW d \in Data, NEW c \in Seq(Data), Begun(c, d), Len(c) = Readable(d), Len(c) <= Limit
  PROVE  Whole(c)
<1>1. Len(c) = Length[d] /\ Length[d] \in Nat
  BY LengthAssumption, LimitAssumption DEF Readable
<1>2. c = [k \in 1 .. Length[d] |-> d]
  <2>1. c \in [1 .. Len(c) -> Data] /\ \A k \in 1 .. Len(c) : c[k] = d
    BY LenProperties DEF Begun
  <2>2. QED BY <1>1, <2>1
<1>3. QED BY <1>2 DEF Whole

LEMMA FollowsAppend ==
  ASSUME NEW s \in Seq(Data), NEW c \in Seq(Data), Follows(s, c), Len(s) < Len(c)
  PROVE  Follows(Append(s, c[Len(s) + 1]), c)
<1>1. Len(s) \in Nat /\ Len(c) \in Nat
  BY LenProperties
<1>2. c[Len(s) + 1] \in Data
  BY <1>1, ElementOfSeq
<1>3. /\ Len(Append(s, c[Len(s) + 1])) = Len(s) + 1
      /\ \A k \in 1 .. Len(s) + 1 : Append(s, c[Len(s) + 1])[k] = IF k = Len(s) + 1 THEN c[Len(s) + 1] ELSE s[k]
  BY <1>1, <1>2, AppendProperties
<1>4. QED BY <1>1, <1>3 DEF Follows

LEMMA FollowsAll ==
  ASSUME NEW s \in Seq(Data), NEW c \in Seq(Data), Follows(s, c), Len(s) >= Len(c)
  PROVE  s = c
<1>1. Len(s) = Len(c) /\ \A k \in 1 .. Len(s) : s[k] = c[k]
  BY LenProperties DEF Follows
<1>2. QED BY <1>1, SeqEqual

\* What an upload, a name and a reader has, as long as no sender has died.
Good(c) == Whole(c) /\ Len(c) <= Limit

UploadOK(p) ==
  /\ pc[p] = "copy" => Begun(content[file[p]], job[p].data)
  /\ pc[p] \in {"chmod", "rename"} => Good(content[file[p]])
  /\ pc[p] = "rename" => file[p] \in public

NameOK(n) ==
  dir[n] # None /\ dir[n] \notin seeded => Good(content[dir[n]]) /\ dir[n] \in public

ReaderOK(p) ==
  pc[p] = "read" /\ file[p] \notin seeded =>
    Whole(content[file[p]]) /\ Follows(got[p], content[file[p]])

Contents ==
  "cut" \notin faults =>
    /\ \A p \in Puts : UploadOK(p)
    /\ \A n \in FileNames : NameOK(n)
    /\ \A p \in Readers : ReaderOK(p)

\* The inode i is as it was, or it is one that a seed writes.
Kept(i) ==
  /\ i \notin seeded' => i \notin seeded /\ content'[i] = content[i] /\ (i \in public => i \in public')
  /\ i \in temps => content'[i] = content[i] /\ (i \in public => i \in public')

\* A step of p touches no file of another process or behind another name.
LEMMA StillOK ==
  ASSUME Inv, Contents, NEW p \in Procs, Alone(p), faults \subseteq faults',
         \A q \in Procs \ {p} : file[q] \in Inodes => Kept(file[q]),
         \A n \in FileNames : dir'[n] = dir[n] /\ dir[n] \in Inodes => Kept(dir[n]),
         "cut" \notin faults' /\ p \in Puts => UploadOK(p)',
         "cut" \notin faults' => \A n \in FileNames : dir'[n] # dir[n] => NameOK(n)',
         "cut" \notin faults' /\ p \in Readers => ReaderOK(p)'
  PROVE  Contents'
<1> SUFFICES ASSUME "cut" \notin faults'
             PROVE  /\ \A q \in Puts : UploadOK(q)'
                    /\ \A n \in FileNames : NameOK(n)'
                    /\ \A q \in Readers : ReaderOK(q)'
  BY DEF Contents
<1> USE Processes
<1>1. ASSUME NEW q \in Puts, q # p PROVE UploadOK(q)'
  <2>1. q \in Procs /\ pc'[q] = pc[q] /\ job'[q] = job[q] /\ file'[q] = file[q] /\ UploadOK(q)
    BY <1>1 DEF Alone, Contents
  <2>2. pc[q] \in {"copy", "chmod", "rename"} => file[q] \in temps /\ file[q] \in Inodes
    BY <1>1 DEF Inv, TypeOK
  <2>3. pc[q] \in {"copy", "chmod", "rename"} =>
          content'[file[q]] = content[file[q]] /\ (file[q] \in public => file[q] \in public')
    BY <1>1, <2>1, <2>2 DEF Kept
  <2>4. QED BY <2>1, <2>3 DEF UploadOK
<1>2. ASSUME NEW n \in FileNames, dir'[n] = dir[n] PROVE NameOK(n)'
  <2>1. NameOK(n) /\ (dir[n] # None => dir[n] \in Inodes)
    BY DEF Contents, Inv, TypeOK
  <2>2. QED BY <1>2, <2>1 DEF NameOK, Kept
<1>3. ASSUME NEW q \in Readers, q # p PROVE ReaderOK(q)'
  <2>1. q \in Procs /\ pc'[q] = pc[q] /\ file'[q] = file[q] /\ got'[q] = got[q] /\ ReaderOK(q)
    BY <1>3 DEF Alone, Contents
  <2>2. pc[q] = "read" => file[q] \in Inodes
    BY <2>1 DEF Inv, Control, At
  <2>3. QED BY <1>3, <2>1, <2>2 DEF ReaderOK, Kept
<1>4. QED BY <1>1, <1>2, <1>3

\* A step that leaves the volume alone.
LEMMA SameVolume ==
  ASSUME Inv, Contents, NEW p \in Procs, Alone(p), faults \subseteq faults', UNCHANGED volume,
         "cut" \notin faults' /\ p \in Puts => UploadOK(p)',
         "cut" \notin faults' /\ p \in Readers => ReaderOK(p)'
  PROVE  Contents'
<1>1. UNCHANGED <<dir, temps, content, public, seeded>>
  BY DEF volume
<1>2. \A i \in Inodes : Kept(i)
  BY <1>1 DEF Kept
<1>3. QED BY <1>1, <1>2, StillOK

\* A step in which p closes its file, and what nothing refers to any more goes.
LEMMA ClosedOK ==
  ASSUME Inv, Contents, NEW p \in Procs, Alone(p), faults \subseteq faults', Reclaim,
         pc'[p] \in {"idle", "remove"},
         "cut" \notin faults' => \A n \in FileNames : dir'[n] # dir[n] => NameOK(n)'
  PROVE  Contents'
<1>1. \A i \in Inodes : Used(i)' => Kept(i)
  BY Reclaims DEF Inv, Kept
<1>2. \A q \in Procs \ {p} : \A i \in Inodes : file[q] = i => Used(i)'
  BY DEF Alone, Used
<1>3. \A n \in FileNames : \A i \in Inodes : dir'[n] = i => Used(i)'
  BY DEF Used
<1>4. UploadOK(p)' /\ ReaderOK(p)'
  BY DEF UploadOK, ReaderOK
<1>5. QED BY <1>1, <1>2, <1>3, <1>4, StillOK

LEMMA CreateTempOK ==
  ASSUME Inv, Contents, NEW p \in Puts, CreateTemp(p)
  PROVE  Contents'
<1> USE Processes
<1>0. PutStep(p)
  BY DEF PutStep
<1>1. p \in Procs /\ job[p] \in Jobs /\ job[p].data \in Data /\ Alone(p) /\ faults \subseteq faults'
  BY <1>0, PutsAlone DEF Inv, Control, At, CreateTemp, Jobs
<1>2. CASE Return(p) /\ UNCHANGED <<temps, content>>
  <2>1. UNCHANGED volume /\ pc'[p] = "idle"
    BY <1>1, <1>2, Returns DEF CreateTemp, volume, Inv
  <2>2. UploadOK(p)'
    BY <2>1 DEF UploadOK
  <2>3. QED BY <1>1, <2>1, <2>2, SameVolume
<1>3. ASSUME NEW i \in Inodes, ~Used(i), content' = [content EXCEPT ![i] = <<>>],
             file' = [file EXCEPT ![p] = i], pc' = [pc EXCEPT ![p] = "copy"], job' = job,
             temps' = temps \cup {i}, UNCHANGED <<dir, public, seeded>>
      PROVE  Contents'
  <2>1. \A j \in Inodes \ {i} : Kept(j)
    BY <1>3 DEF Kept, Inv, TypeOK
  <2>2. (\A n \in FileNames : dir[n] # i) /\ (\A q \in Procs : file[q] # i)
    BY <1>3 DEF Used
  <2>3. pc'[p] = "copy" /\ file'[p] = i /\ content'[i] = <<>> /\ job'[p] = job[p]
    BY <1>1, <1>3 DEF Inv, TypeOK
  <2>4. Begun(<<>>, job[p].data)
    BY <1>1, ReadableNat DEF Begun
  <2>5. UploadOK(p)'
    BY <2>3, <2>4 DEF UploadOK
  <2>6. QED BY <1>1, <1>3, <2>1, <2>2, <2>5, StillOK
<1>4. QED BY <1>2, <1>3 DEF CreateTemp, Goto

LEMMA CopyOK ==
  ASSUME Inv, Contents, NEW p \in Puts, Copy(p)
  PROVE  Contents'
<1> USE Processes
<1>0. PutStep(p)
  BY DEF PutStep
<1>1. /\ p \in Procs /\ job[p] \in Jobs /\ job[p].data \in Data /\ pc[p] = "copy"
      /\ file[p] \in temps /\ file[p] \in Inodes /\ content[file[p]] \in Seq(Data)
      /\ Alone(p) /\ faults \subseteq faults'
  BY <1>0, PutsAlone DEF Inv, TypeOK, Control, At, Copy, Jobs, Uploading
<1>2. UNCHANGED <<dir, temps, public, seeded>>
  BY DEF Copy
<1>3. "cut" \notin faults' => Begun(content[file[p]], job[p].data)
  BY <1>1 DEF Contents, UploadOK
<1>4. CASE /\ Len(content[file[p]]) < Readable(job[p].data)
           /\ AppendTo(file[p], job[p].data) /\ UNCHANGED <<pc, job, file, got, faults>>
  <2>1. \A i \in Inodes \ {file[p]} : Kept(i)
    BY <1>2, <1>4 DEF Kept, AppendTo, Inv, TypeOK
  <2>2. \A q \in Procs \ {p} : file[q] \in Inodes => file[q] # file[p]
    <3>1. ASSUME NEW q \in Procs \ {p}, file[q] \in Inodes PROVE file[q] # file[p]
      <4>1. CASE pc[q] \in Uploading
        BY <1>1, <3>1, <4>1 DEF Inv, Control, At, Apart, Uploading
      <4>2. CASE pc[q] \in {"write", "read"}
        BY <1>1, <4>2 DEF Inv, Apart
      <4>3. CASE pc[q] \in {"idle", "stat", "create", "truncate"}
        BY <3>1, <4>3, NoneAssumption DEF Inv, Control, At
      <4>4. QED BY <4>1, <4>2, <4>3 DEF Inv, TypeOK, Labels, Uploading
    <3>2. QED BY <3>1
  <2>3. \A n \in FileNames : dir[n] # file[p]
    BY <1>1 DEF Inv, Apart
  <2>4. content'[file[p]] = Append(content[file[p]], job[p].data)
    BY <1>1, <1>4 DEF AppendTo, Inv, TypeOK
  <2>5. "cut" \notin faults' => UploadOK(p)'
    BY <1>1, <1>3, <1>4, <2>4, BegunAppend DEF UploadOK
  <2>6. QED BY <1>1, <1>2, <2>1, <2>2, <2>3, <2>5, StillOK
<1>5. CASE Abandon(p) /\ UNCHANGED content
  <2>1. pc'[p] = "remove"
    BY <1>1, <1>5 DEF Abandon, Goto, Inv, TypeOK
  <2>2. UploadOK(p)'
    BY <2>1 DEF UploadOK
  <2>3. QED BY <1>1, <1>2, <1>5, <2>2, SameVolume DEF volume
<1>6. CASE /\ Len(content[file[p]]) = Readable(job[p].data) /\ Len(content[file[p]]) <= Limit
           /\ Goto(p, "chmod") /\ UNCHANGED <<job, file, got>> /\ UNCHANGED content
  <2>1. pc'[p] = "chmod" /\ UNCHANGED <<file, content>>
    BY <1>1, <1>6 DEF Goto, Inv, TypeOK
  <2>2. "cut" \notin faults' => Good(content[file[p]])
    BY <1>1, <1>3, <1>6, BegunWhole DEF Good
  <2>3. "cut" \notin faults' => UploadOK(p)'
    BY <2>1, <2>2 DEF UploadOK
  <2>4. QED BY <1>1, <1>2, <1>6, <2>3, SameVolume DEF volume
<1>7. CASE /\ Fault("cut") /\ Goto(p, "chmod") /\ UNCHANGED <<job, file, got>> /\ UNCHANGED content
  <2>1. "cut" \in faults'
    BY <1>7 DEF Fault
  <2>2. QED BY <2>1 DEF Contents
<1>8. QED BY <1>4, <1>5, <1>6, <1>7 DEF Copy, EndOfStream

LEMMA ChmodOK ==
  ASSUME Inv, Contents, NEW p \in Puts, Chmod(p)
  PROVE  Contents'
<1> USE Processes
<1>0. PutStep(p)
  BY DEF PutStep
<1>1. /\ p \in Procs /\ pc[p] = "chmod" /\ Alone(p) /\ faults \subseteq faults'
      /\ UNCHANGED <<dir, temps, content, seeded>>
  BY <1>0, PutsAlone DEF Chmod
<1>2. "cut" \notin faults' => Good(content[file[p]])
  BY <1>1 DEF Contents, UploadOK
<1>3. CASE Abandon(p) /\ UNCHANGED public
  <2>1. pc'[p] = "remove"
    BY <1>1, <1>3 DEF Abandon, Goto, Inv, TypeOK
  <2>2. UploadOK(p)'
    BY <2>1 DEF UploadOK
  <2>3. QED BY <1>1, <1>3, <2>2, SameVolume DEF volume
<1>4. CASE public' = public \cup {file[p]} /\ Goto(p, "rename") /\ UNCHANGED file
  <2>1. \A i \in Inodes : Kept(i)
    BY <1>1, <1>4 DEF Kept
  <2>2. pc'[p] = "rename" /\ file[p] \in public'
    BY <1>1, <1>4 DEF Goto, Inv, TypeOK
  <2>3. "cut" \notin faults' => UploadOK(p)'
    BY <1>1, <1>2, <1>4, <2>2 DEF UploadOK
  <2>4. QED BY <1>1, <2>1, <2>3, StillOK
<1>5. QED BY <1>3, <1>4 DEF Chmod

LEMMA RenameOK ==
  ASSUME Inv, Contents, NEW p \in Puts, Rename(p)
  PROVE  Contents'
<1> USE Processes
<1>0. PutStep(p)
  BY DEF PutStep
<1>1. /\ p \in Procs /\ pc[p] = "rename" /\ Alone(p) /\ faults \subseteq faults' /\ Reclaim
      /\ job[p].name \in FileNames /\ file[p] \in Inodes
  BY <1>0, PutsAlone DEF Rename, Inv, TypeOK, Control, At, Jobs, Uploading
<1>2. "cut" \notin faults' => Good(content[file[p]]) /\ file[p] \in public
  BY <1>1 DEF Contents, UploadOK
<1>3. CASE dir' = [dir EXCEPT ![job[p].name] = file[p]] /\ Return(p)
  <2>1. dir'[job[p].name] = file[p] /\ \A n \in FileNames : dir'[n] # dir[n] => n = job[p].name
    BY <1>1, <1>3 DEF Inv, TypeOK
  <2>2. content'[file[p]] = content[file[p]] /\ (file[p] \in public => file[p] \in public')
    BY <1>1, <2>1, Reclaims DEF Used, Inv
  <2>3. ASSUME NEW n \in FileNames, dir'[n] # dir[n], "cut" \notin faults' PROVE NameOK(n)'
    <3>1. dir'[n] = file[p]
      BY <2>1, <2>3
    <3>2. QED BY <1>2, <2>2, <2>3, <3>1 DEF NameOK
  <2>4. pc'[p] = "idle"
    BY <1>1, <1>3, Returns DEF Inv
  <2>5. QED BY <1>1, <2>1, <2>3, <2>4, ClosedOK
<1>4. CASE Abandon(p) /\ UNCHANGED dir
  <2>1. pc'[p] = "remove"
    BY <1>1, <1>4 DEF Abandon, Goto, Inv, TypeOK
  <2>2. QED BY <1>1, <1>4, <2>1, ClosedOK
<1>5. QED BY <1>3, <1>4 DEF Rename

\* The other steps of an upload.
LEMMA PutOK ==
  ASSUME Inv, Contents, NEW p \in Puts,
         \/ \E n \in FileNames, d \in Data, replace \in BOOLEAN : StartPut(p, n, d, replace)
         \/ PutStep(p) \/ Kill(p)
  PROVE  Contents'
<1> USE Processes
<1>1. p \in Procs /\ Alone(p) /\ faults \subseteq faults'
  BY PutsAlone
<1>2. ASSUME UNCHANGED volume, pc'[p] \in {"stat", "create", "idle"} PROVE Contents'
  <2>1. UploadOK(p)'
    BY <1>2 DEF UploadOK
  <2>2. QED BY <1>1, <1>2, <2>1, SameVolume
<1>3. ASSUME NEW n \in FileNames, NEW d \in Data, NEW replace \in BOOLEAN, StartPut(p, n, d, replace)
      PROVE  Contents'
  BY <1>1, <1>2, <1>3 DEF StartPut, Goto, Inv, TypeOK
<1>4. CASE CheckDestination(p)
  BY <1>1, <1>2, <1>4 DEF CheckDestination, Return, Goto, Inv, TypeOK
<1>5. CASE Kill(p)
  BY <1>1, <1>2, <1>5 DEF Kill, Return, Goto, Inv, TypeOK
<1>6. CASE Remove(p)
  <2>1. Return(p) /\ Reclaim /\ UNCHANGED dir
    BY <1>6 DEF Remove
  <2>2. pc'[p] = "idle"
    BY <1>1, <2>1, Returns DEF Inv
  <2>3. QED BY <1>1, <2>1, <2>2, ClosedOK
<1>7. QED BY <1>3, <1>4, <1>5, <1>6, CreateTempOK, CopyOK, ChmodOK, RenameOK DEF PutStep

LEMMA SeedOK ==
  ASSUME Inv, Contents, NEW p \in Seeds,
         (\E n \in FileNames, d \in Data : StartSeed(p, n, d)) \/ SeedStep(p)
  PROVE  Contents'
<1> USE Processes
<1>1. p \in Procs /\ p \notin Puts /\ p \notin Readers /\ Alone(p) /\ faults \subseteq faults'
  BY SeedsAlone
<1>2. ASSUME NEW n \in FileNames, NEW d \in Data, StartSeed(p, n, d) PROVE Contents'
  BY <1>1, <1>2, SameVolume DEF StartSeed
<1>3. CASE Truncate(p)
  <2>1. job[p].name \in FileNames
    BY <1>1, <1>3 DEF Truncate, Inv, Control, At, Jobs
  <2>2. CASE UNCHANGED <<dir, content, public, seeded>>
    BY <1>1, <1>3, <2>2, SameVolume DEF Truncate, volume
  <2>3. ASSUME NEW i \in Inodes, dir[job[p].name] = i \/ (dir[job[p].name] = None /\ ~Used(i)),
               dir' = [dir EXCEPT ![job[p].name] = i], content' = [content EXCEPT ![i] = <<>>],
               public' = public \cup {i}, seeded' = seeded \cup {i}
        PROVE  Contents'
    <3>1. i \notin temps
      BY <2>1, <2>3 DEF Inv, Apart, Used
    <3>2. \A j \in Inodes : Kept(j)
      BY <2>3, <3>1 DEF Kept, Inv, TypeOK
    <3>3. ASSUME NEW n \in FileNames, dir'[n] # dir[n] PROVE NameOK(n)'
      <4>1. dir'[n] \in seeded'
        BY <2>1, <2>3, <3>3 DEF Inv, TypeOK
      <4>2. QED BY <4>1 DEF NameOK
    <3>4. QED BY <1>1, <3>2, <3>3, StillOK
  <2>4. QED BY <1>3, <2>2, <2>3 DEF Truncate
<1>4. CASE Write(p)
  <2>1. /\ pc[p] = "write" /\ file[p] \in Inodes /\ file[p] \in seeded /\ file[p] \notin temps
        /\ UNCHANGED <<dir, temps>>
    BY <1>1, <1>4 DEF Write, Inv, Control, At, Apart
  <2>2. CASE AppendTo(file[p], job[p].data) /\ UNCHANGED <<public, seeded>>
    <3>1. \A i \in Inodes : Kept(i)
      BY <2>1, <2>2 DEF Kept, AppendTo, Inv, TypeOK
    <3>2. QED BY <1>1, <2>1, <3>1, StillOK
  <2>3. CASE Return(p) /\ Reclaim
    <3>1. pc'[p] = "idle"
      BY <1>1, <2>3, Returns DEF Inv
    <3>2. QED BY <1>1, <2>1, <2>3, <3>1, ClosedOK
  <2>4. QED BY <1>4, <2>2, <2>3 DEF Write
<1>5. QED BY <1>2, <1>3, <1>4 DEF SeedStep

LEMMA ReadOK ==
  ASSUME Inv, Contents, NEW p \in Readers, (\E n \in FileNames : Open(p, n)) \/ Read(p)
  PROVE  Contents'
<1> USE Processes
<1>1. p \in Procs /\ p \notin Puts /\ Alone(p) /\ faults' = faults /\ UNCHANGED <<dir, temps>>
  BY ReadersAlone
<1>2. ASSUME NEW n \in FileNames, Open(p, n) PROVE Contents'
  <2>1. /\ dir[n] # None /\ UNCHANGED volume
        /\ pc[p] = "idle" /\ file'[p] = dir[n] /\ got'[p] = got[p]
    BY <1>1, <1>2 DEF Open, Idle, Inv, TypeOK
  <2>2. got'[p] = <<>>
    BY <1>1, <2>1 DEF Inv, Control, At
  <2>3. dir[n] \in Inodes /\ content[dir[n]] \in Seq(Data)
    BY <2>1 DEF Inv, TypeOK
  <2>4. Follows(<<>>, content[dir[n]])
    BY <2>3, LenProperties DEF Follows
  <2>5. "cut" \notin faults => NameOK(n)
    BY DEF Contents
  <2>6. UNCHANGED <<content, seeded>>
    BY <2>1 DEF volume
  <2>7. "cut" \notin faults' => ReaderOK(p)'
    BY <1>1, <2>1, <2>2, <2>4, <2>5, <2>6 DEF ReaderOK, NameOK, Good
  <2>8. QED BY <1>1, <2>1, <2>7, SameVolume
<1>3. CASE Read(p)
  <2>1. /\ pc[p] = "read" /\ file[p] \in Inodes
        /\ content[file[p]] \in Seq(Data) /\ got[p] \in Seq(Data)
    BY <1>1, <1>3 DEF Read, Inv, TypeOK, Control, At
  <2>2. CASE /\ Len(got[p]) < Len(content[file[p]])
             /\ got' = [got EXCEPT ![p] = Append(@, content[file[p]][Len(got[p]) + 1])]
             /\ UNCHANGED <<content, public, seeded, pc, job, file>>
    <3>1. got'[p] = Append(got[p], content[file[p]][Len(got[p]) + 1])
      BY <1>1, <2>2 DEF Inv, TypeOK
    <3>2. "cut" \notin faults => ReaderOK(p)
      BY DEF Contents
    <3>3. "cut" \notin faults' => ReaderOK(p)'
      BY <1>1, <2>1, <2>2, <3>1, <3>2, FollowsAppend DEF ReaderOK
    <3>4. QED BY <1>1, <2>2, <3>3, SameVolume DEF volume
  <2>3. CASE Return(p) /\ Reclaim
    <3>1. pc'[p] = "idle"
      BY <1>1, <2>3, Returns DEF Inv
    <3>2. QED BY <1>1, <2>3, <3>1, ClosedOK
  <2>4. QED BY <1>3, <2>2, <2>3 DEF Read
<1>4. QED BY <1>2, <1>3

LEMMA InitContents == Init => Contents
BY Processes DEF Init, Contents, UploadOK, NameOK, ReaderOK

LEMMA StepContents ==
  ASSUME Inv, Contents, [Next]_vars
  PROVE  Contents'
<1>1. CASE UNCHANGED vars
  BY <1>1 DEF vars, volume, Contents, UploadOK, NameOK, ReaderOK
<1>2. QED BY <1>1, PutOK, SeedOK, ReadOK DEF Next

\* What an upload has put behind a name is one whole upload within the limit, which
\* ClickHouse may read, unless a sender has died.
THEOREM NamesAreWhole == Spec => []NamedFilesAreWhole
<1>1. Contents => NamedFilesAreWhole
  BY DEF Contents, NameOK, Good, NamedFilesAreWhole
<1>2. QED BY <1>1, InitInv, Step, InitContents, StepContents, PTL DEF Spec

\* Who reads a file while uploads replace it reads one version of it.
THEOREM ReadersGetOneVersion == Spec => []ReadersSeeOneVersion
<1>1. ASSUME Inv, Contents PROVE ReadersSeeOneVersion
  <2>1. SUFFICES ASSUME "cut" \notin faults, NEW p \in Readers, pc[p] = "read",
                        file[p] \notin seeded, Len(got[p]) >= Len(content[file[p]])
                 PROVE  Whole(got[p])
    BY DEF ReadersSeeOneVersion
  <2>2. content[file[p]] \in Seq(Data) /\ got[p] \in Seq(Data)
    BY <1>1, <2>1, Processes DEF Inv, TypeOK, Control, At
  <2>3. Whole(content[file[p]]) /\ Follows(got[p], content[file[p]])
    BY <1>1, <2>1 DEF Contents, ReaderOK
  <2>4. QED BY <2>1, <2>2, <2>3, FollowsAll
<1>2. QED BY <1>1, InitInv, Step, InitContents, StepContents, PTL DEF Spec
----------------------------------------------------------------------------
(***************************************************************************)
(* What a seed has put behind a name.                                      *)
(***************************************************************************)
\* No two seeds write one file at the same time.
SeedsApart ==
  \A p, q \in Seeds : p # q /\ pc[p] = "write" /\ pc[q] = "write" => file[p] # file[q]

\* c is the beginning of a file that cp makes of d.
Copied(c, d) == Len(c) <= Length[d] /\ \A k \in 1 .. Len(c) : c[k] = d

WriterOK(p) == pc[p] = "write" => Copied(content[file[p]], job[p].data)

BeingWritten(i) == \E p \in Seeds : pc[p] = "write" /\ file[p] = i

\* A seeded inode is no temporary file, is not free to be taken, and is whole or on
\* its way to be.
InodeOK(i) ==
  /\ i \notin temps /\ Used(i)
  /\ "unfinished" \notin faults => Whole(content[i]) \/ BeingWritten(i)

Settled == (\A p \in Seeds : WriterOK(p)) /\ (\A i \in seeded : InodeOK(i))

LEMMA CopiedAppend ==
  ASSUME NEW d \in Data, NEW c \in Seq(Data), Copied(c, d), Len(c) < Length[d]
  PROVE  Copied(Append(c, d), d)
<1>1. /\ Len(Append(c, d)) = Len(c) + 1
      /\ \A k \in 1 .. Len(c) + 1 : Append(c, d)[k] = d
  BY AppendProperties DEF Copied
<1>2. QED BY <1>1, LengthAssumption DEF Copied

LEMMA CopiedWhole ==
  ASSUME NEW d \in Data, NEW c \in Seq(Data), Copied(c, d), Len(c) >= Length[d]
  PROVE  Whole(c)
<1>1. Len(c) = Length[d] /\ Length[d] \in Nat
  BY LengthAssumption, LenProperties DEF Copied
<1>2. c \in [1 .. Len(c) -> Data] /\ \A k \in 1 .. Len(c) : c[k] = d
  BY LenProperties DEF Copied
<1>3. c = [k \in 1 .. Length[d] |-> d]
  BY <1>1, <1>2
<1>4. QED BY <1>3 DEF Whole

\* A step of p that starts or ends no writing and changes no seeded file.
LEMMA StillSettled ==
  ASSUME Inv, Settled, NEW p \in Procs, Alone(p), faults \subseteq faults',
         pc[p] # "write", pc'[p] # "write", seeded' \subseteq seeded,
         \A i \in seeded : BeingWritten(i) => content'[i] = content[i],
         \A i \in seeded' : content'[i] = content[i] /\ i \notin temps' /\ Used(i)'
  PROVE  Settled'
<1> USE Processes
<1>1. \A q \in Seeds : pc'[q] = "write" =>
        q # p /\ q \in Procs /\ pc[q] = "write" /\ file'[q] = file[q] /\ job'[q] = job[q]
  BY DEF Alone
<1>2. ASSUME NEW q \in Seeds PROVE WriterOK(q)'
  <2>1. SUFFICES ASSUME pc'[q] = "write" PROVE Copied(content[file[q]], job[q].data)' 
    BY DEF WriterOK
  <2>2. pc[q] = "write" /\ file'[q] = file[q] /\ job'[q] = job[q] /\ file[q] \in seeded
    BY <1>1, <2>1 DEF Inv, Control, At
  <2>3. content'[file[q]] = content[file[q]]
    BY <2>2 DEF BeingWritten
  <2>4. Copied(content[file[q]], job[q].data)
    BY <2>2 DEF Settled, WriterOK
  <2>5. QED BY <2>2, <2>3, <2>4 DEF Copied
<1>3. ASSUME NEW i \in seeded' PROVE InodeOK(i)'
  <2>1. BeingWritten(i) => BeingWritten(i)'
    <3>1. ASSUME NEW q \in Seeds, pc[q] = "write", file[q] = i PROVE BeingWritten(i)'
      <4>1. q # p /\ q \in Procs
        BY <3>1
      <4>2. pc'[q] = "write" /\ file'[q] = i
        BY <3>1, <4>1 DEF Alone
      <4>3. QED BY <4>2 DEF BeingWritten
    <3>2. QED BY <3>1 DEF BeingWritten
  <2>2. InodeOK(i)
    BY DEF Settled
  <2>3. Whole(content[i]) => Whole(content[i])'
    BY DEF Whole
  <2>4. QED BY <2>1, <2>2, <2>3 DEF InodeOK
<1>4. QED BY <1>2, <1>3 DEF Settled

\* A step of an upload changes no seeded file, and takes none of them for its own.
LEMMA PutSettled ==
  ASSUME Inv, Settled, NEW p \in Puts,
         \/ \E n \in FileNames, d \in Data, replace \in BOOLEAN : StartPut(p, n, d, replace)
         \/ PutStep(p) \/ Kill(p)
  PROVE  Settled'
<1> USE Processes
<1>1. /\ p \in Procs /\ p \notin Seeds /\ Alone(p) /\ faults \subseteq faults'
      /\ pc[p] # "write"
  BY PutsAlone DEF Inv, Control, At
<1>2. pc'[p] # "write"
  BY <1>1 DEF StartPut, PutStep, CheckDestination, CreateTemp, Copy, Chmod, Rename, Remove, Kill,
     EndOfStream, Abandon, Return, Goto, Inv, TypeOK
<1>3. file[p] = None \/ file[p] \in temps
  BY <1>1 DEF Inv, TypeOK, Control, At, Uploading, Labels
<1>4. \A i \in seeded : i \notin temps /\ Used(i) /\ i \in Inodes
  BY DEF Settled, InodeOK, Inv, TypeOK
<1>5. \A i \in seeded :
        (\E n \in FileNames : dir[n] = i) \/ (\E q \in Procs \ {p} : file[q] = i)
  BY <1>3, <1>4, NoneAssumption DEF Used
<1>6. ASSUME UNCHANGED <<dir, seeded>> PROVE \A i \in seeded' : Used(i)'
  BY <1>1, <1>5, <1>6 DEF Used, Alone
<1>7. ASSUME UNCHANGED <<dir, temps, content, seeded>> PROVE Settled'
  BY <1>1, <1>2, <1>4, <1>6, <1>7, StillSettled
<1>8. ASSUME NEW n \in FileNames, NEW d \in Data, NEW replace \in BOOLEAN, StartPut(p, n, d, replace)
      PROVE  Settled'
  BY <1>7, <1>8 DEF StartPut, volume
<1>9. CASE CheckDestination(p) \/ Kill(p)
  BY <1>7, <1>9 DEF CheckDestination, Kill, volume
<1>10. CASE CreateTemp(p)
  <2>1. CASE UNCHANGED <<temps, content>>
    BY <1>7, <1>10, <2>1 DEF CreateTemp
  <2>2. ASSUME NEW i \in Inodes, ~Used(i), temps' = temps \cup {i},
               content' = [content EXCEPT ![i] = <<>>], UNCHANGED <<dir, public, seeded>>
        PROVE  Settled'
    <3>1. \A j \in seeded : j # i /\ content'[j] = content[j]
      BY <1>4, <2>2 DEF Inv, TypeOK
    <3>2. QED BY <1>1, <1>2, <1>4, <1>6, <2>2, <3>1, StillSettled
  <2>3. QED BY <1>10, <2>1, <2>2 DEF CreateTemp
<1>11. CASE Copy(p)
  <2>1. file[p] \in temps /\ UNCHANGED <<dir, temps, seeded>>
    BY <1>1, <1>11 DEF Copy, Inv, TypeOK
  <2>2. \A i \in seeded : content'[i] = content[i]
    BY <1>4, <1>11, <2>1 DEF Copy, AppendTo, Inv, TypeOK
  <2>3. QED BY <1>1, <1>2, <1>4, <1>6, <2>1, <2>2, StillSettled
<1>12. CASE Chmod(p)
  BY <1>7, <1>12 DEF Chmod
<1>13. CASE Rename(p) \/ Remove(p)
  <2>1. Reclaim /\ temps' \subseteq temps
    BY <1>13 DEF Rename, Remove
  <2>2. seeded' \subseteq seeded /\ \A i \in seeded' : Used(i)'
    BY <2>1 DEF Reclaim
  <2>3. \A i \in Inodes : Used(i)' => content'[i] = content[i]
    BY <2>1, Reclaims DEF Inv
  <2>4. \A i \in seeded : BeingWritten(i) => Used(i)'
    BY <1>1 DEF BeingWritten, Used, Alone
  <2>5. QED BY <1>1, <1>2, <1>4, <2>1, <2>2, <2>3, <2>4, StillSettled
<1>14. QED BY <1>8, <1>9, <1>10, <1>11, <1>12, <1>13 DEF PutStep

LEMMA ReaderSettled ==
  ASSUME Inv, Settled, NEW p \in Readers, (\E n \in FileNames : Open(p, n)) \/ Read(p)
  PROVE  Settled'
<1> USE Processes
<1>1. /\ p \in Procs /\ p \notin Seeds /\ Alone(p) /\ faults' = faults
      /\ UNCHANGED <<dir, temps>> /\ pc[p] # "write"
  BY ReadersAlone DEF Inv, Control, At
<1>2. pc'[p] # "write"
  BY <1>1 DEF Open, Read, Return, Goto, Inv, TypeOK
<1>3. \A i \in seeded : i \notin temps /\ Used(i) /\ i \in Inodes
  BY DEF Settled, InodeOK, Inv, TypeOK
<1>4. ASSUME NEW n \in FileNames, Open(p, n) PROVE Settled'
  <2>1. file[p] = None /\ UNCHANGED volume
    BY <1>1, <1>4 DEF Open, Idle, Inv, Control, At
  <2>2. \A i \in seeded : Used(i)'
    BY <1>1, <1>3, <2>1, NoneAssumption DEF Used, Alone
  <2>3. QED BY <1>1, <1>2, <1>3, <2>1, <2>2, StillSettled DEF volume
<1>5. CASE Read(p)
  <2>1. CASE UNCHANGED <<content, public, seeded, pc, job, file>>
    <3>1. \A i \in seeded : Used(i)'
      BY <1>1, <1>3, <2>1 DEF Used
    <3>2. QED BY <1>1, <1>2, <1>3, <2>1, <3>1, StillSettled
  <2>2. CASE Reclaim
    <3>1. seeded' \subseteq seeded /\ \A i \in seeded' : Used(i)'
      BY <2>2 DEF Reclaim
    <3>2. \A i \in Inodes : Used(i)' => content'[i] = content[i]
      BY <2>2, Reclaims DEF Inv
    <3>3. \A i \in seeded : BeingWritten(i) => Used(i)'
      BY <1>1 DEF BeingWritten, Used, Alone
    <3>4. QED BY <1>1, <1>2, <1>3, <3>1, <3>2, <3>3, StillSettled
  <2>3. QED BY <1>5, <2>1, <2>2 DEF Read
<1>6. QED BY <1>4, <1>5

LEMMA TruncateSettled ==
  ASSUME Inv, Settled, NEW p \in Seeds, Truncate(p)
  PROVE  Settled'
<1> USE Processes
<1>1. /\ p \in Procs /\ Alone(p) /\ faults' = faults /\ temps' = temps
      /\ pc[p] = "truncate" /\ file[p] = None /\ job[p].name \in FileNames
  BY SeedsAlone DEF SeedStep, Truncate, Inv, Control, At, Jobs
<1>2. \A j \in seeded : j \notin temps /\ Used(j) /\ j \in Inodes
  BY DEF Settled, InodeOK, Inv, TypeOK
<1>3. CASE Return(p) /\ UNCHANGED <<dir, content, public, seeded>>
  <2>1. pc'[p] = "idle"
    BY <1>1, <1>3, Returns DEF Inv
  <2>2. \A j \in seeded : Used(j)'
    BY <1>1, <1>2, <1>3, NoneAssumption DEF Used, Alone
  <2>3. QED BY <1>1, <1>2, <1>3, <2>1, <2>2, StillSettled
<1>4. ASSUME NEW i \in Inodes, dir[job[p].name] = i \/ (dir[job[p].name] = None /\ ~Used(i)),
             dir' = [dir EXCEPT ![job[p].name] = i], content' = [content EXCEPT ![i] = <<>>],
             seeded' = seeded \cup {i}, file' = [file EXCEPT ![p] = i],
             pc' = [pc EXCEPT ![p] = "write"], job' = job
      PROVE  Settled'
  <2>1. /\ content'[i] = <<>> /\ \A j \in Inodes \ {i} : content'[j] = content[j]
        /\ pc'[p] = "write" /\ file'[p] = i /\ dir'[job[p].name] = i
        /\ \A n \in FileNames : dir[n] # None => dir'[n] = dir[n]
    BY <1>1, <1>4 DEF Inv, TypeOK
  <2>2. ASSUME NEW q \in Seeds PROVE WriterOK(q)'
    <3>1. SUFFICES ASSUME pc'[q] = "write" PROVE Copied(content'[file'[q]], job'[q].data)
      BY DEF WriterOK, Copied
    <3>2. /\ q = p => job'[q] = job[q]
          /\ q # p => pc[q] = "write" /\ file'[q] = file[q] /\ job'[q] = job[q]
      BY <1>1, <1>4, <3>1 DEF Alone, Truncate
    <3>3. job'[q].data \in Data /\ file'[q] \in Inodes
      BY <1>1, <2>1, <3>2 DEF Inv, Control, At, Jobs
    <3>4. CASE file'[q] = i
      <4>1. content'[file'[q]] = <<>> /\ Length[job'[q].data] \in Nat
        BY <2>1, <3>3, <3>4, LengthAssumption
      <4>2. QED BY <4>1 DEF Copied
    <3>5. CASE file'[q] # i
      <4>1. q # p /\ content'[file'[q]] = content[file[q]] /\ job'[q] = job[q]
        BY <2>1, <3>2, <3>3, <3>5
      <4>2. Copied(content[file[q]], job[q].data)
        BY <3>2, <4>1 DEF Settled, WriterOK
      <4>3. QED BY <4>1, <4>2
    <3>6. QED BY <3>4, <3>5
  <2>3. ASSUME NEW j \in seeded' PROVE InodeOK(j)'
    <3>1. CASE j = i
      <4>1. i \notin temps
        BY <1>1, <1>4 DEF Inv, Apart, Used
      <4>2. Used(j)'
        BY <2>1, <1>1, <3>1 DEF Used
      <4>3. BeingWritten(j)'
        BY <2>1, <3>1 DEF BeingWritten
      <4>4. QED BY <1>1, <3>1, <4>1, <4>2, <4>3 DEF InodeOK
    <3>2. CASE j # i
      <4>1. j \in seeded /\ j \in Inodes /\ j # None
        BY <1>2, <1>4, <3>2, NoneAssumption
      <4>2. Used(j)'
        BY <1>1, <1>2, <2>1, <4>1 DEF Used, Alone
      <4>3. BeingWritten(j) => BeingWritten(j)'
        <5>1. ASSUME NEW q \in Seeds, pc[q] = "write", file[q] = j PROVE BeingWritten(j)'
          <6>1. pc'[q] = "write" /\ file'[q] = j
            BY <1>1, <5>1 DEF Alone
          <6>2. QED BY <6>1 DEF BeingWritten
        <5>2. QED BY <5>1 DEF BeingWritten
      <4>4. Whole(content[j]) => Whole(content[j])'
        BY <2>1, <3>2, <4>1 DEF Whole
      <4>5. InodeOK(j)
        BY <4>1 DEF Settled
      <4>6. QED BY <1>1, <4>2, <4>3, <4>4, <4>5 DEF InodeOK
    <3>3. QED BY <3>1, <3>2
  <2>4. QED BY <2>2, <2>3 DEF Settled
<1>5. QED BY <1>3, <1>4 DEF Truncate, Goto

LEMMA WriteSettled ==
  ASSUME Inv, Settled, SeedsApart, NEW p \in Seeds, Write(p)
  PROVE  Settled'
<1> USE Processes
<1>1. /\ p \in Procs /\ Alone(p) /\ faults \subseteq faults' /\ UNCHANGED <<dir, temps>>
      /\ pc[p] = "write" /\ file[p] \in Inodes /\ file[p] \in seeded
      /\ job[p].data \in Data /\ content[file[p]] \in Seq(Data)
  BY SeedsAlone DEF SeedStep, Write, Inv, TypeOK, Control, At, Jobs
<1>2. \A j \in seeded : j \notin temps /\ Used(j) /\ j \in Inodes
  BY DEF Settled, InodeOK, Inv, TypeOK
<1>3. Copied(content[file[p]], job[p].data)
  BY <1>1 DEF Settled, WriterOK
\* What another seed writes is another file, and it stays as it is.
<1>4. \A q \in Seeds \ {p} : pc[q] = "write" =>
        /\ file[q] # file[p] /\ file[q] \in seeded /\ file[q] \in Inodes
        /\ Copied(content[file[q]], job[q].data)
  BY <1>1 DEF SeedsApart, Inv, Control, At, Settled, WriterOK
<1>5. \A q \in Seeds \ {p} :
        q \in Procs /\ pc'[q] = pc[q] /\ file'[q] = file[q] /\ job'[q] = job[q]
  BY <1>1 DEF Alone
<1>6. ASSUME \A j \in Inodes \ {file[p]} : Used(j)' => content'[j] = content[j],
             NEW q \in Seeds \ {p}
      PROVE  WriterOK(q)'
  <2>1. SUFFICES ASSUME pc'[q] = "write" PROVE Copied(content'[file'[q]], job'[q].data)
    BY DEF WriterOK, Copied
  <2>2. Used(file[q])'
    BY <1>5 DEF Used
  <2>3. content'[file'[q]] = content[file[q]] /\ job'[q] = job[q]
    BY <1>4, <1>5, <1>6, <2>1, <2>2
  <2>4. Copied(content[file[q]], job[q].data)
    BY <1>4, <1>5, <2>1
  <2>5. QED BY <2>3, <2>4
<1>7. ASSUME NEW j \in seeded \cap seeded', j # file[p], Used(j)', content'[j] = content[j]
      PROVE  InodeOK(j)'
  <2>1. BeingWritten(j) => BeingWritten(j)'
    <3>1. ASSUME NEW q \in Seeds, pc[q] = "write", file[q] = j PROVE BeingWritten(j)'
      <4>1. pc'[q] = "write" /\ file'[q] = j
        BY <1>5, <1>7, <3>1
      <4>2. QED BY <4>1 DEF BeingWritten
    <3>2. QED BY <3>1 DEF BeingWritten
  <2>2. Whole(content[j]) => Whole(content[j])'
    BY <1>7 DEF Whole
  <2>3. InodeOK(j)
    BY DEF Settled
  <2>4. QED BY <1>1, <1>7, <2>1, <2>2, <2>3 DEF InodeOK
<1>8. CASE /\ Len(content[file[p]]) < Length[job[p].data]
           /\ AppendTo(file[p], job[p].data)
           /\ UNCHANGED <<public, seeded, pc, job, file, got, faults>>
  <2>1. /\ content'[file[p]] = Append(content[file[p]], job[p].data)
        /\ \A j \in Inodes \ {file[p]} : content'[j] = content[j]
    BY <1>1, <1>8 DEF AppendTo, Inv, TypeOK
  <2>2. WriterOK(p)'
    BY <1>1, <1>3, <1>8, <2>1, CopiedAppend DEF WriterOK, Copied
  <2>3. \A j \in seeded : Used(j)'
    BY <1>1, <1>2, <1>8 DEF Used
  <2>4. ASSUME NEW j \in seeded', j = file[p] PROVE InodeOK(j)'
    <3>1. BeingWritten(j)'
      BY <1>1, <1>8, <2>4 DEF BeingWritten
    <3>2. j \notin temps' /\ Used(j)'
      BY <1>1, <1>2, <1>8, <2>3, <2>4
    <3>3. QED BY <3>1, <3>2 DEF InodeOK
  <2>5. \A j \in seeded' : InodeOK(j)'
    <3>1. ASSUME NEW j \in seeded', j # file[p] PROVE InodeOK(j)'
      <4>1. j \in seeded \cap seeded' /\ Used(j)' /\ content'[j] = content[j]
        BY <1>2, <1>8, <2>1, <2>3, <3>1
      <4>2. QED BY <1>7, <3>1, <4>1
    <3>2. QED BY <2>4, <3>1
  <2>6. \A q \in Seeds : WriterOK(q)'
    BY <1>6, <2>1, <2>2
  <2>7. QED BY <2>5, <2>6 DEF Settled
<1>9. CASE /\ Return(p) /\ Reclaim
           /\ (Len(content[file[p]]) >= Length[job[p].data] /\ UNCHANGED faults) \/ Fault("unfinished")
  <2>1. pc'[p] = "idle"
    BY <1>1, <1>9, Returns DEF Inv
  <2>2. \A j \in Inodes : Used(j)' => content'[j] = content[j]
    BY <1>9, Reclaims DEF Inv
  <2>3. seeded' \subseteq seeded /\ \A j \in seeded' : Used(j)'
    BY <1>9 DEF Reclaim
  <2>4. WriterOK(p)'
    BY <2>1 DEF WriterOK
  <2>5. ASSUME NEW j \in seeded', j = file[p] PROVE InodeOK(j)'
    <3>1. j \notin temps' /\ Used(j)' /\ content'[j] = content[j]
      BY <1>1, <1>2, <2>2, <2>3, <2>5
    <3>2. "unfinished" \notin faults' => Whole(content'[j])
      BY <1>1, <1>3, <1>9, <2>5, <3>1, CopiedWhole DEF Fault
    <3>3. QED BY <3>1, <3>2 DEF InodeOK, Whole
  <2>6. \A j \in seeded' : InodeOK(j)'
    <3>1. ASSUME NEW j \in seeded', j # file[p] PROVE InodeOK(j)'
      <4>1. j \in seeded \cap seeded' /\ Used(j)' /\ content'[j] = content[j]
        BY <1>2, <2>2, <2>3, <3>1
      <4>2. QED BY <1>7, <3>1, <4>1
    <3>2. QED BY <2>5, <3>1
  <2>7. \A q \in Seeds : WriterOK(q)'
    BY <1>6, <2>2, <2>4
  <2>8. QED BY <2>6, <2>7 DEF Settled
<1>10. QED BY <1>8, <1>9 DEF Write

LEMMA InitSettled == Init => Settled
BY Processes DEF Init, Settled, WriterOK

LEMMA StepSettled ==
  ASSUME Inv, Settled, SeedsApart, [Next]_vars
  PROVE  Settled'
<1>1. CASE UNCHANGED vars
  BY <1>1 DEF vars, volume, Settled, WriterOK, InodeOK, BeingWritten, Used, Whole, Copied
<1>2. ASSUME NEW p \in Seeds, NEW n \in FileNames, NEW d \in Data, StartSeed(p, n, d) PROVE Settled'
  <2>1. /\ p \in Procs /\ pc[p] = "idle" /\ pc'[p] = "truncate"
        /\ UNCHANGED <<volume, file, faults>>
    BY <1>2, Processes DEF StartSeed, Idle, Goto, Inv, TypeOK
  <2>2. \A i \in seeded : i \notin temps /\ Used(i)'
    BY <2>1 DEF Settled, InodeOK, Used, volume
  <2>3. QED BY <1>2, <2>1, <2>2, SeedsAlone, StillSettled DEF volume
<1>3. QED BY <1>1, <1>2, PutSettled, TruncateSettled, WriteSettled, ReaderSettled DEF Next, SeedStep

\* As long as no two seeds write one file at the same time, what a seed has put behind a
\* name is whole once it has finished, whatever uploads are renamed over it meanwhile.
THEOREM SeedsFinishTheirFiles == Spec /\ []SeedsApart => []SeededFilesGetWhole
<1>1. ASSUME Inv, Settled PROVE SeededFilesGetWhole
  <2>1. ASSUME NEW n \in FileNames, "unfinished" \notin faults, dir[n] \in seeded,
               ~Whole(content[dir[n]])
        PROVE  \E p \in Seeds : file[p] = dir[n]
    <3>1. InodeOK(dir[n])
      BY <1>1, <2>1 DEF Settled
    <3>2. QED BY <2>1, <3>1 DEF InodeOK, BeingWritten
  <2>2. QED BY <2>1 DEF SeededFilesGetWhole
<1>2. QED BY <1>1, InitInv, Step, InitSettled, StepSettled, PTL DEF Spec
=============================================================================
