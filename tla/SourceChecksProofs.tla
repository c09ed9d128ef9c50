------------------------- MODULE SourceChecksProofs -------------------------
(***************************************************************************)
(* Proofs about what fedctl checks: any hosts, ranges, allowlists, disks,  *)
(* servers and requests, however often they change.                        *)
(***************************************************************************)
EXTENDS SourceChecks, SequenceTheorems, WellFoundedInduction, TLAPS

Known     == Network \cup {"sqlite"}
Source    == cmd.req.params
Acceptable(req) == Refusal(req.type, req.params) = "ok"

\* Which command is at which step.
Course ==
  /\ pc # "idle" => cmd # None /\ tried = {}
  /\ pc = "dial" => cmd.op = "test"
  /\ pc \in {"plan", "recheck", "attach"} => cmd.op # "test"
  /\ pc \in {"check", "recheck"} => cmd.req.type \in Network

\* What Validate has made of the parameters: a path is what it was as long as the
\* disk has not changed.
Given ==
  params # None =>
    /\ cmd # None /\ cmd.req.type \in Known
    /\ (cmd.req.type \in Network \/ steady) =>
         params = Normalized(cmd.req.type, Source) /\ Acceptable(cmd.req)

\* At the last look the host was permitted.
Looked ==
  /\ steady => calm
  /\ pc \in {"dial", "attach"} /\ cmd.req.type \in Network /\ calm => Host(params.host)

\* What a test has passed would pass it again, and is what a plan would carry.
Tested ==
  passed # None =>
    /\ passed.req \in Requests /\ passed.req.type \in Known /\ Acceptable(passed.req)
    /\ passed.req.type \in Network => Host(passed.req.params.host)
    /\ passed.target = PlanTarget(passed.req.type, Normalized(passed.req.type, passed.req.params))

IInv == /\ TypeOK /\ Course /\ Given /\ Looked /\ Tested
        /\ OnlyPermittedHostsAreReached /\ TestedSourcesAreAccepted /\ RefusalsAreJustified
----------------------------------------------------------------------------
(***************************************************************************)
(* Ranges and hosts.                                                       *)
(***************************************************************************)
\* The address under the mask is the network's: it is one of the range's addresses.
LEMMA RangeIsCounted ==
  ASSUME NEW r, IsRange(r), NEW ip \in Nat
  PROVE  InRange(r, ip) <=> ip \in Addresses(r)
<1> DEFINE b == r.base  s == r.size
<1>1. b \in Nat /\ s \in Nat /\ s > 0
  BY DEF IsRange
<1>2. \A a, c, n \in Nat : n > 0 =>
        (a \div n = c \div n <=> a \in (c - (c % n))..(c - (c % n) + n - 1))
  <2> SUFFICES ASSUME NEW a \in Nat, NEW c \in Nat, NEW n \in Nat, n > 0
               PROVE  a \div n = c \div n <=> a \in (c - (c % n))..(c - (c % n) + n - 1)
    OBVIOUS
  <2>1. /\ a = n * (a \div n) + (a % n) /\ a \div n \in Int /\ a % n \in 0..(n - 1)
        /\ c = n * (c \div n) + (c % n) /\ c \div n \in Int /\ c % n \in 0..(n - 1)
    OBVIOUS
  <2>2. c - (c % n) = n * (c \div n)
    BY <2>1
  <2>3. \A k, l \in Int : k < l => n * k + n <= n * l
    OBVIOUS
  <2>4. QED BY <2>1, <2>2, <2>3
<1>3. QED BY <1>1, <1>2 DEF InRange, Addresses

World == [allow |-> allow, dns |-> dns, server |-> server, disk |-> disk] \in Worlds

LEMMA WorldShapes ==
  ASSUME World
  PROVE  /\ \A e \in allow : \/ e.kind = "host"
                             \/ e.kind = "ip" /\ e.base \in Nat
                             \/ e.kind = "cidr" /\ IsRange(e)
         /\ \A h : Lookup(h) \subseteq Nat
         /\ \A p \in DOMAIN disk :
              CleanPath(p) /\ (disk[p].kind = "link" => CleanPath(disk[p].to))
<1> DEFINE w == [allow |-> allow, dns |-> dns, server |-> server, disk |-> disk]
<1>1. w \in Worlds /\ w.allow = allow /\ w.dns = dns /\ w.server = server /\ w.disk = disk
  BY DEF World
<1> HIDE DEF w
<1>2. \A h \in DOMAIN Lower : dns[Lower[h]] \subseteq Nat
  BY <1>1, WorldsAssumption DEF WorldsAssumption
<1>3. \A h : Lookup(h) \subseteq Nat
  BY <1>2 DEF Lookup
<1>4. QED BY <1>1, <1>2, <1>3, WorldsAssumption DEF WorldsAssumption

LEMMA ExemptIsAllowed ==
  ASSUME World, NEW ip \in Nat
  PROVE  AllowsIP(ip) <=> ip \in Exempt
<1>1. ASSUME NEW e \in allow, e.kind # "host"
      PROVE  InRange(RangeOf(e), ip) <=>
               ip \in (IF e.kind = "ip" THEN {e.base} ELSE Addresses(e))
  <2>1. CASE e.kind = "ip"
    <3>1. e.base \in Nat
      BY <2>1, WorldShapes
    <3>2. ip \div 1 = ip /\ e.base \div 1 = e.base
      BY <3>1
    <3>3. QED BY <2>1, <3>2 DEF InRange, RangeOf
  <2>2. CASE e.kind # "ip"
    <3>1. IsRange(e)
      BY <1>1, <2>2, WorldShapes
    <3>2. InRange(RangeOf(e), ip) <=> InRange(e, ip)
      BY <2>2 DEF InRange, RangeOf
    <3>3. QED BY <2>2, <3>1, <3>2, RangeIsCounted
  <2>3. QED BY <2>1, <2>2
<1>2. QED BY <1>1 DEF AllowsIP, Exempt

LEMMA DeniedIsPrivate ==
  ASSUME NEW ip \in Nat
  PROVE  IsDenied(ip) <=> ip \in Private
BY RangeIsCounted, DeniedAssumption DEF DeniedAssumption, IsDenied, Private

\* What Host lets through is what the ranges and the allowlist permit.
LEMMA HostIsPermitted ==
  ASSUME World, NEW h
  PROVE  Host(h) <=> Permitted(h)
<1>1. Lookup(h) \subseteq Nat
  BY WorldShapes
<1>2. \A ip \in Lookup(h) : (AllowsIP(ip) <=> ip \in Exempt) /\ (IsDenied(ip) <=> ip \in Private)
  BY <1>1, ExemptIsAllowed, DeniedIsPrivate
<1>3. AllowsHost(h) <=> Named(h)
  BY DEF AllowsHost, Named
<1>4. QED BY <1>2, <1>3, Zenon DEF Host, Permitted
----------------------------------------------------------------------------
(***************************************************************************)
(* Paths.                                                                  *)
(***************************************************************************)
\* What has been resolved has no link on its way and leads somewhere.
LEMMA ResolvedPath ==
  ASSUME NEW p, EvalSymlinks(p) # Missing
  PROVE  Links(EvalSymlinks(p)) = {} /\ Kind(EvalSymlinks(p)) # "absent"
BY DEF EvalSymlinks

\* To resolve it once more changes nothing.
LEMMA ResolvedAgain ==
  ASSUME NEW p, Links(p) = {}, Kind(p) # "absent"
  PROVE  EvalSymlinks(p) = p
<1>1. Follow(p) = p
  BY DEF Follow
<1>2. QED BY <1>1 DEF EvalSymlinks

LEMMA FileInDisk ==
  ASSUME NEW p, Kind(p) = "file"
  PROVE  p \in DOMAIN disk /\ disk[p].kind = "file"
BY DEF Kind

\* A path that is accepted is inside user_files, a regular file and free of links.
LEMMA AcceptedPath ==
  ASSUME NEW p, SQLitePath(p).code = "ok"
  PROVE  LET q == SQLitePath(p).path IN
           /\ IsPrefix(EvalSymlinks(UserFiles), q)
           /\ Kind(q) = "file" /\ disk[q].kind = "file"
           /\ Links(q) = {} /\ q # Missing
<1> DEFINE q == EvalSymlinks(Clean(UserFiles \o p))
<1>1. /\ SQLitePath(p) = Accept(q) /\ q # Missing
      /\ IsPrefix(EvalSymlinks(UserFiles), q) /\ Kind(q) = "file"
  BY Zenon DEF SQLitePath, Accept, Refuse
<1>2. SQLitePath(p).path = q
  BY <1>1 DEF Accept
<1>3. QED BY <1>1, <1>2, ResolvedPath, FileInDisk

LEMMA FirstIsThere ==
  ASSUME NEW S \in SUBSET Nat, S # {}
  PROVE  \E i \in S : \A j \in S : i <= j
<1> DEFINE Less == OpToRel(<, Nat)
<1>1. Less = {ss \in Nat \X Nat : ss[1] < ss[2]}
  BY Zenon DEF OpToRel
<1> HIDE DEF Less
<1>2. IsWellFoundedOn(Less, Nat)
  BY NatLessThanWellFounded, Zenon DEF Less
<1>3. PICK i \in S : \A j \in S : <<j, i>> \notin Less
  BY <1>2, WFMin
<1>4. ASSUME NEW j \in S PROVE i <= j
  <2>1. ~(j < i)
    BY <1>1, <1>3
  <2>2. QED BY <2>1
<1>5. QED BY <1>4

\* The place of the first link, and what it is replaced by.
LEMMA FollowFirst ==
  ASSUME NEW p \in Seq(Entries), Links(p) # {}
  PROVE  \E i \in Links(p) :
           /\ \A j \in Links(p) : i <= j
           /\ Follow(p) = disk[SubSeq(p, 1, i)].to \o SubSeq(p, i + 1, Len(p))
<1> DEFINE i == Min(Links(p))
<1>1. \E k \in Links(p) : \A j \in Links(p) : k <= j
  <2>1. Links(p) \in SUBSET Nat
    BY DEF Links
  <2>2. QED BY <2>1, FirstIsThere, Zenon
<1>2. i \in Links(p) /\ \A j \in Links(p) : i <= j
  BY <1>1 DEF Min
<1>3. QED BY <1>2 DEF Follow

LEMMA LinkIsClean ==
  ASSUME World, NEW p, Kind(p) = "link"
  PROVE  disk[p].to \in Seq(Entries)
BY WorldShapes DEF Kind, CleanPath

LEMMA EntryAdded ==
  ASSUME NEW q \in Seq(Entries), NEW c \in Entries
  PROVE  /\ q \o <<c>> \in Seq(Entries) /\ Len(q \o <<c>>) = Len(q) + 1 /\ Len(q) \in Nat
         /\ (q \o <<c>>)[Len(q) + 1] = c
<1>1. <<c>> \in Seq(Entries) /\ Len(<<c>>) = 1 /\ <<c>>[1] = c /\ Len(q) \in Nat
  OBVIOUS
<1> DEFINE t == <<c>>
<1> HIDE DEF t
<1>2. t \in Seq(Entries) /\ Len(t) = 1 /\ t[1] = c
  BY <1>1 DEF t
<1>3. q \o t \in Seq(Entries)
  BY <1>2, ConcatProperties
<1>4. Len(q \o t) = Len(q) + 1
  BY <1>2, ConcatProperties
<1>5. (q \o t)[Len(q) + 1] = c
  BY <1>1, <1>2, ConcatProperties
<1>6. QED BY <1>1, <1>3, <1>4, <1>5 DEF t

LEMMA EntryKept ==
  ASSUME NEW q \in Seq(Entries), NEW c \in Entries, NEW i \in 1..Len(q)
  PROVE  SubSeq(q \o <<c>>, i + 1, Len(q) + 1) = SubSeq(q, i + 1, Len(q)) \o <<c>>
<1> DEFINE r == q \o <<c>>  n == Len(q) + 1
<1>1. r \in Seq(Entries) /\ Len(r) = n /\ Len(q) \in Nat /\ r[n] = c
  BY EntryAdded
<1>2. SubSeq(r, i + 1, Len(q)) = SubSeq(q, i + 1, Len(q))
  <2>1. CASE i < Len(q)
    <3>1. i + 1 \in 1..Len(q) /\ Len(q) \in 1..Len(q)
      BY <1>1, <2>1
    <3>2. <<c>> \in Seq(Entries)
      OBVIOUS
    <3>3. QED BY <3>1, <3>2, SubSeqOfConcat1
  <2>2. CASE i = Len(q)
    BY <1>1, <2>2, SubSeqEmpty
  <2>3. QED BY <1>1, <2>1, <2>2
<1> HIDE DEF r
<1>3. i + 1 \in 1..Len(r) /\ n \in (i + 1)..Len(r) /\ n - 1 = Len(q)
  BY <1>1
<1>4. SubSeq(r, i + 1, n) = SubSeq(r, i + 1, n - 1) \o <<r[n]>>
  <2> HIDE DEF n
  <2> QED BY <1>1, <1>3, SubSeqRecursiveSecond
<1>5. QED BY <1>1, <1>2, <1>3, <1>4 DEF r

\* What one entry more changes: nothing of the links before it.
LEMMA LinksOfEntry ==
  ASSUME NEW q \in Seq(Entries), NEW c \in Entries
  PROVE  Links(q \o <<c>>) =
           Links(q) \cup (IF Kind(q \o <<c>>) = "link" THEN {Len(q) + 1} ELSE {})
<1>1. q \o <<c>> \in Seq(Entries) /\ Len(q \o <<c>>) = Len(q) + 1 /\ Len(q) \in Nat
  BY EntryAdded
<1>2. \A i \in 1..Len(q) : SubSeq(q \o <<c>>, 1, i) = SubSeq(q, 1, i)
  BY SubSeqOfConcat1
<1>3. SubSeq(q \o <<c>>, 1, Len(q) + 1) = q \o <<c>>
  BY <1>1, SubSeqFull
<1>4. \A i : i \in Links(q \o <<c>>) <=>
              i \in Links(q) \/ (i = Len(q) + 1 /\ Kind(q \o <<c>>) = "link")
  <2>1. \A i : i \in 1..(Len(q) + 1) <=> i \in 1..Len(q) \/ i = Len(q) + 1
    BY <1>1
  <2>2. QED BY <1>1, <1>2, <1>3, <2>1, Zenon DEF Links
<1>5. QED BY <1>4

LEMMA FollowIsPath ==
  ASSUME World, NEW q \in Seq(Entries)
  PROVE  Follow(q) \in Seq(Entries)
<1>1. CASE Links(q) = {}
  BY <1>1 DEF Follow
<1>2. CASE Links(q) # {}
  <2>1. PICK i \in Links(q) :
          Follow(q) = disk[SubSeq(q, 1, i)].to \o SubSeq(q, i + 1, Len(q))
    BY <1>2, FollowFirst
  <2>2. Len(q) \in Nat /\ i \in 1..Len(q) /\ Kind(SubSeq(q, 1, i)) = "link"
    BY DEF Links
  <2> DEFINE a == disk[SubSeq(q, 1, i)].to  b == SubSeq(q, i + 1, Len(q))
  <2>3. a \in Seq(Entries) /\ b \in Seq(Entries) /\ Follow(q) = a \o b
    BY <2>1, <2>2, LinkIsClean
  <2> HIDE DEF a, b
  <2>4. QED BY <2>3, ConcatProperties
<1>3. QED BY <1>1, <1>2

\* To follow the links before an entry and to follow them with it is the same, if it
\* is no link when they have been followed.
LEMMA FollowWithEntry ==
  ASSUME World, NEW q \in Seq(Entries), NEW c \in Entries,
         Links(q) = {} => Kind(q \o <<c>>) # "link"
  PROVE  Follow(q) \in Seq(Entries) /\ Follow(q \o <<c>>) = Follow(q) \o <<c>>
<1>1. CASE Links(q) = {}
  <2>1. Links(q \o <<c>>) = {}
    BY <1>1, LinksOfEntry
  <2>2. QED BY <1>1, <2>1 DEF Follow
<1>2. CASE Links(q) # {}
  <2>1. PICK i \in Links(q) :
          /\ \A j \in Links(q) : i <= j
          /\ Follow(q) = disk[SubSeq(q, 1, i)].to \o SubSeq(q, i + 1, Len(q))
    BY <1>2, FollowFirst
  <2>2. i \in 1..Len(q) /\ Len(q) \in Nat /\ Kind(SubSeq(q, 1, i)) = "link"
    BY DEF Links
  <2>3. /\ q \o <<c>> \in Seq(Entries) /\ Len(q \o <<c>>) = Len(q) + 1
        /\ (q \o <<c>>)[Len(q) + 1] = c
    BY EntryAdded
  <2>4. /\ i \in Links(q \o <<c>>)
        /\ \A j \in Links(q \o <<c>>) : i <= j
    BY <2>1, <2>2, LinksOfEntry
  <2>5. PICK k \in Links(q \o <<c>>) :
          /\ \A j \in Links(q \o <<c>>) : k <= j
          /\ Follow(q \o <<c>>)
               = disk[SubSeq(q \o <<c>>, 1, k)].to \o SubSeq(q \o <<c>>, k + 1, Len(q) + 1)
    BY <2>3, <2>4, FollowFirst
  <2>6. k = i
    <3>1. k \in Int /\ k <= i /\ i <= k
      BY <2>2, <2>3, <2>4, <2>5 DEF Links
    <3>2. QED BY <2>2, <3>1
  <2>7. SubSeq(q \o <<c>>, 1, i) = SubSeq(q, 1, i)
    BY <2>2, SubSeqOfConcat1
  <2>8. SubSeq(q \o <<c>>, i + 1, Len(q) + 1) = SubSeq(q, i + 1, Len(q)) \o <<c>>
    BY <2>2, EntryKept
  <2>9. disk[SubSeq(q, 1, i)].to \in Seq(Entries) /\ SubSeq(q, i + 1, Len(q)) \in Seq(Entries)
    BY <2>2, LinkIsClean
  <2>10. Follow(q \o <<c>>)
           = disk[SubSeq(q, 1, i)].to \o (SubSeq(q, i + 1, Len(q)) \o <<c>>)
    BY <2>5, <2>6, <2>7, <2>8
  <2> DEFINE a == disk[SubSeq(q, 1, i)].to  b == SubSeq(q, i + 1, Len(q))  t == <<c>>
  <2>11. t \in Seq(Entries)
    OBVIOUS
  <2>12. a \in Seq(Entries) /\ b \in Seq(Entries)
    BY <2>9
  <2>13. Follow(q) = a \o b /\ Follow(q \o t) = a \o (b \o t)
    BY <2>1, <2>10
  <2> HIDE DEF a, b, t
  <2>14. a \o b \in Seq(Entries) /\ (a \o b) \o t = a \o (b \o t)
    BY <2>11, <2>12, ConcatAssociative, ConcatProperties
  <2>15. Follow(q) \in Seq(Entries) /\ Follow(q \o t) = Follow(q) \o t
    BY <2>13, <2>14
  <2>16. QED BY <2>15 DEF t
<1>3. QED BY <1>1, <1>2

\* An entry of the directory that is no link is found where the directory is.
LEMMA ResolveEntry ==
  ASSUME World, NEW c \in Entries, EvalSymlinks(UserFiles) # Missing,
         Kind(EvalSymlinks(UserFiles) \o <<c>>) = "file"
  PROVE  EvalSymlinks(UserFiles \o <<c>>) = EvalSymlinks(UserFiles) \o <<c>>
<1> DEFINE f0 == UserFiles  f1 == Follow(f0)  f2 == Follow(f1)  f3 == Follow(f2)  f4 == Follow(f3)
<1>1. EvalSymlinks(f0) = f4 /\ Links(f4) = {} /\ Kind(f4 \o <<c>>) = "file"
  BY Zenon DEF EvalSymlinks
<1>2. \A q : Links(q) = {} => Follow(q) = q
  BY DEF Follow
<1>3. f0 \in Seq(Entries)
  BY UserFilesAssumption DEF UserFilesAssumption, CleanPath
<1>4. f1 \in Seq(Entries)
  BY <1>3, FollowIsPath
<1> HIDE DEF f1
<1>5. f2 \in Seq(Entries)
  BY <1>4, FollowIsPath
<1> HIDE DEF f2
<1>6. f3 \in Seq(Entries)
  BY <1>5, FollowIsPath
<1> HIDE DEF f3
<1>7. f4 \in Seq(Entries)
  BY <1>6, FollowIsPath
<1> HIDE DEF f4
<1>8. /\ Links(f3) = {} => f3 = f4
      /\ Links(f2) = {} => f2 = f4
      /\ Links(f1) = {} => f1 = f4
      /\ Links(f0) = {} => f0 = f4
  BY <1>2, Zenon DEF f1, f2, f3, f4
<1>9. Follow(f0 \o <<c>>) = f1 \o <<c>>
  BY <1>1, <1>3, <1>8, FollowWithEntry DEF f1
<1>10. Follow(f1 \o <<c>>) = f2 \o <<c>>
  BY <1>1, <1>4, <1>8, FollowWithEntry DEF f2
<1>11. Follow(f2 \o <<c>>) = f3 \o <<c>>
  BY <1>1, <1>5, <1>8, FollowWithEntry DEF f3
<1>12. Follow(f3 \o <<c>>) = f4 \o <<c>>
  BY <1>1, <1>6, <1>8, FollowWithEntry DEF f4
<1>13. Links(f4 \o <<c>>) = {}
  BY <1>1, <1>7, LinksOfEntry
<1>14. EvalSymlinks(f0 \o <<c>>) = f4 \o <<c>>
  BY <1>1, <1>9, <1>10, <1>11, <1>12, <1>13 DEF EvalSymlinks
<1>15. QED BY <1>1, <1>14

LEMMA BaseIsPath ==
  ASSUME World, EvalSymlinks(UserFiles) # Missing
  PROVE  EvalSymlinks(UserFiles) \in Seq(Entries)
<1>1. UserFiles \in Seq(Entries)
  BY UserFilesAssumption DEF UserFilesAssumption, CleanPath
<1>2. Follow(Follow(Follow(Follow(UserFiles)))) \in Seq(Entries)
  BY <1>1, FollowIsPath
<1>3. QED BY <1>2 DEF EvalSymlinks

\* Nothing is listed in a directory that is not there.
LEMMA NothingInMissing ==
  ASSUME World, NEW path \in Seq(Entries)
  PROVE  Missing \o path \notin DOMAIN disk
<1> DEFINE S == Entries \cup {"."}  whole == Missing \o path
<1>1. Missing \in Seq(S) /\ Len(Missing) = 1 /\ Missing[1] = "."
  BY DEF Missing
<1>2. path \in Seq(S) /\ Len(path) \in Nat
  BY SeqMonotonic
<1> HIDE DEF S
<1>3. whole \in Seq(S)
  BY <1>1, <1>2, ConcatProperties
<1>4. Len(whole) = 1 + Len(path)
  BY <1>1, <1>2, ConcatProperties
<1>5. whole[1] = "."
  BY <1>1, <1>2, ConcatProperties
<1>6. 1 \in DOMAIN whole
  BY <1>2, <1>3, <1>4
<1>7. ~CleanPath(whole)
  BY <1>5, <1>6 DEF CleanPath
<1>8. QED BY <1>7, WorldShapes

LEMMA EntryIsInside ==
  ASSUME NEW q \in Seq(Entries), NEW c \in Entries
  PROVE  IsPrefix(q, q \o <<c>>)
<1>1. Len(q) \in Nat /\ Len(q \o <<c>>) = Len(q) + 1 /\ <<c>> \in Seq(Entries)
  BY EntryAdded
<1>2. CASE Len(q) = 0
  BY <1>1, <1>2, SubSeqEmpty DEF IsPrefix
<1>3. CASE Len(q) # 0
  <2>1. 1 \in 1..Len(q) /\ Len(q) \in 1..Len(q)
    BY <1>1, <1>3
  <2>2. SubSeq(q \o <<c>>, 1, Len(q)) = SubSeq(q, 1, Len(q))
    BY <1>1, <2>1, SubSeqOfConcat1
  <2>3. QED BY <1>1, <2>2 DEF IsPrefix
<1>4. QED BY <1>2, <1>3

\* What the form offers is not refused as a path.
LEMMA ListedIsAccepted ==
  ASSUME World, NEW path \in Seq(Entries), EvalSymlinks(UserFiles) \o path \in ListedFiles
  PROVE  SQLitePath(path).code # "INVALID_PATH"
<1> DEFINE base == EvalSymlinks(UserFiles)  whole == base \o path  c == path[1]
<1>0. base # Missing
  BY NothingInMissing DEF ListedFiles
<1>1. base \in Seq(Entries) /\ UserFiles \in Seq(Entries)
  BY <1>0, BaseIsPath, UserFilesAssumption DEF UserFilesAssumption, CleanPath
<1>2. whole \in DOMAIN disk /\ Len(whole) = Len(base) + 1 /\ disk[whole].kind = "file"
  BY DEF ListedFiles
<1> HIDE DEF base
<1>3. Len(path) = 1
  <2>1. Len(whole) = Len(base) + Len(path)
    BY <1>1, ConcatProperties
  <2>2. Len(base) \in Nat /\ Len(path) \in Nat
    BY <1>1
  <2>3. Len(whole) = Len(base) + 1
    BY <1>2
  <2>4. \A k, l, n \in Nat : n = k + l /\ n = k + 1 => l = 1
    OBVIOUS
  <2>5. Len(base) + Len(path) \in Nat
    BY <2>2
  <2> HIDE DEF whole
  <2>6. QED BY <2>1, <2>2, <2>3, <2>4, <2>5, Zenon
<1>4. path = <<c>> /\ c \in Entries
  BY <1>3
<1> HIDE DEF c
<1>5. c \notin {".", ".."}
  <2>1. whole[Len(base) + 1] = c /\ Len(base) + 1 \in DOMAIN whole
    BY <1>1, <1>2, <1>4, EntryAdded
  <2>2. CleanPath(whole)
    BY <1>2, WorldShapes
  <2>3. QED BY <2>1, <2>2 DEF CleanPath
<1>6. Clean(UserFiles \o path) = UserFiles \o path
  <2>1. \A i \in DOMAIN (UserFiles \o <<c>>) : (UserFiles \o <<c>>)[i] \notin {".", ".."}
    <3> SUFFICES ASSUME NEW i \in DOMAIN (UserFiles \o <<c>>)
                 PROVE  (UserFiles \o <<c>>)[i] \notin {".", ".."}
      OBVIOUS
    <3>1. /\ i \in 1..(Len(UserFiles) + 1) /\ Len(UserFiles) \in Nat
          /\ (UserFiles \o <<c>>)[Len(UserFiles) + 1] = c
      BY <1>1, <1>4, EntryAdded
    <3>2. CASE i = Len(UserFiles) + 1
      BY <1>5, <3>1, <3>2
    <3>3. CASE i # Len(UserFiles) + 1
      <4>1. i \in 1..Len(UserFiles)
        BY <3>1, <3>3
      <4>2. (UserFiles \o <<c>>)[i] = UserFiles[i]
        BY <1>1, <4>1
      <4>3. UserFiles[i] \notin {".", ".."}
        BY <1>1, <4>1, UserFilesAssumption DEF UserFilesAssumption, CleanPath
      <4>4. QED BY <4>2, <4>3
    <3>4. QED BY <3>2, <3>3
  <2>2. QED BY <1>4, <2>1 DEF Clean
<1>7. path # <<>> /\ IsPrefix(UserFiles, Clean(UserFiles \o path))
  BY <1>1, <1>3, <1>4, <1>6, EntryIsInside
<1>8. whole # <<>>
  BY <1>1, <1>2, EntryAdded
<1>9. Kind(whole) = "file"
  BY <1>2, <1>8 DEF Kind
<1>10. EvalSymlinks(UserFiles \o path) = whole
  BY <1>0, <1>4, <1>9, ResolveEntry DEF base
<1>11. IsPrefix(base, whole)
  BY <1>1, <1>4, EntryIsInside
<1>12. whole # Missing
  <2>1. CleanPath(whole)
    BY <1>2, WorldShapes
  <2>2. ~CleanPath(Missing)
    BY DEF CleanPath, Missing
  <2>3. QED BY <2>1, <2>2
<1>13. SQLitePath(path) = Accept(whole)
  BY <1>0, <1>6, <1>7, <1>9, <1>10, <1>11, <1>12, Zenon DEF SQLitePath, base
<1>14. QED BY <1>13 DEF Accept
----------------------------------------------------------------------------
(***************************************************************************)
(* Parameters.                                                             *)
(***************************************************************************)
LEMMA NetworkParams ==
  ASSUME NEW r \in Requests, r.type \in Network
  PROVE  /\ \A f \in Required(r.type) : f \in Fields(r.type) /\ r.params[f] \in DOMAIN Trim
         /\ {"host", "port", "user", "password", "database"} \subseteq Required(r.type)
         /\ r.type # "sqlite"
BY RequestsAssumption DEF RequestsAssumption, Required, Fields, Network

\* Validate sets nothing but the schema.
LEMMA NormalizedParams ==
  ASSUME NEW r \in Requests, r.type \in Network
  PROVE  LET n == Normalized(r.type, r.params) IN
           /\ \A f \in Required(r.type) : n[f] = r.params[f]
           /\ n.host = r.params.host /\ n.port = r.params.port /\ n # None
           /\ n.database = r.params.database
<1> DEFINE n == Normalized(r.type, r.params)
<1>1. r.params \in [Fields(r.type) -> DOMAIN Trim] /\ r.type # "sqlite"
  BY RequestsAssumption DEF RequestsAssumption, Network
<1>2. n \in {r.params, [r.params EXCEPT !.schema = "public"]}
  BY <1>1 DEF Normalized
<1>3. \A f \in Required(r.type) : n[f] = r.params[f]
  BY <1>1, <1>2 DEF Required
<1>4. {"host", "port", "database"} \subseteq Required(r.type)
  BY NetworkParams
<1>5. n # None
  <2>1. "host" \in DOMAIN n
    BY <1>1, <1>2, <1>4 DEF Required
  <2>2. "host" \notin DOMAIN None
    BY DEF None
  <2>3. QED BY <2>1, <2>2
<1> HIDE DEF n
<1>6. n.host = r.params.host /\ n.port = r.params.port /\ n.database = r.params.database
  BY <1>3, <1>4
<1>7. QED BY <1>3, <1>5, <1>6 DEF n

LEMMA BlankText ==
  ASSUME NEW t \in DOMAIN Trim
  PROVE  Blank(t) <=> t \in {"", " "}
BY TrimAssumption DEF TrimAssumption, Blank

\* Both parsers read the same number from a port that one of them accepts.
LEMMA PortsAgree ==
  ASSUME NEW text, Port(AtoiOrZero(text))
  PROVE  AtoiOrZero(Trim[text]) = AtoiOrZero(text)
<1>1. text \in DOMAIN Numeral
  BY DEF Port, AtoiOrZero
<1>2. QED BY <1>1, NumeralAssumption DEF NumeralAssumption, AtoiOrZero

\* What passes Validate passes a plan, but for its name.
LEMMA AcceptableParams ==
  ASSUME NEW r \in Requests, r.type \in Network, Acceptable(r), NEW name
  PROVE  LET n == Normalized(r.type, r.params) IN
           /\ \A f \in Required(r.type) : n[f] \notin {"", " "}
           /\ AtoiOrZero(Trim[n.port]) = AtoiOrZero(n.port)
           /\ PlanRefusal(name, r.type, n) = IF name \notin ValidNames THEN "INVALID_NAME" ELSE "ok"
<1> DEFINE n == Normalized(r.type, r.params)
<1>1. /\ \A f \in Required(r.type) : ~Blank(r.params[f])
      /\ Port(AtoiOrZero(r.params.port)) /\ r.type # "sqlite"
  BY Zenon, NetworkParams DEF Acceptable, Refusal
<1>2. \A f \in Required(r.type) : n[f] = r.params[f] /\ r.params[f] \in DOMAIN Trim
  BY NetworkParams, NormalizedParams
<1>3. n.port = r.params.port
  BY NormalizedParams
<1> HIDE DEF n
<1>4. \A f \in Required(r.type) : n[f] \notin {"", " "} /\ ~Blank(n[f])
  BY <1>1, <1>2, BlankText
<1>5. AtoiOrZero(Trim[n.port]) = AtoiOrZero(n.port)
  BY <1>1, <1>3, PortsAgree
<1>6. PlanRefusal(name, r.type, n) = IF name \notin ValidNames THEN "INVALID_NAME" ELSE "ok"
  BY <1>1, <1>3, <1>4, <1>5, Zenon DEF PlanRefusal
<1>7. QED BY <1>4, <1>5, <1>6 DEF n

PathCodes == {"ok", "INVALID_PATH", "INTERNAL_ERROR"}
Codes     == PathCodes \cup {"UNKNOWN_SOURCE_TYPE", "INVALID_REQUEST", "INVALID_PORT"}

\* That c is true of a request.
Tells(c, r) ==
  /\ c \in Codes
  /\ c = "ok" => r.type \in Known
  /\ c = "INVALID_REQUEST" => \E f \in Fields(r.type) : r.params[f] \in {"", " "}
  /\ c = "INVALID_PORT" =>
       r.params.port \notin DOMAIN Numeral \/ Numeral[r.params.port] \notin PortNumbers
  /\ c = "INVALID_PATH" =>
       r.params.path = <<" ">> \/ EvalSymlinks(UserFiles) \o r.params.path \notin ListedFiles

LEMMA BadPort ==
  ASSUME NEW text, ~Port(AtoiOrZero(text))
  PROVE  text \notin DOMAIN Numeral \/ Numeral[text] \notin PortNumbers
<1>1. CASE text \in DOMAIN Numeral
  <2>1. AtoiOrZero(text) = Numeral[text]
    BY <1>1 DEF AtoiOrZero
  <2>2. \A n \in PortNumbers : Port(n)
    BY DEF Port, PortNumbers
  <2>3. QED BY <2>1, <2>2, Zenon
<1>2. QED BY <1>1

\* Each refusal of Validate has its reason.
LEMMA RefusalTells ==
  ASSUME World, NEW r \in Requests
  PROVE  Tells(Refusal(r.type, r.params), r)
<1> DEFINE c == Refusal(r.type, r.params)
<1>1. CASE r.type \notin Known
  <2>1. c = "UNKNOWN_SOURCE_TYPE"
    BY <1>1 DEF Refusal, Known
  <2> HIDE DEF c
  <2>2. Tells(c, r)
    BY <2>1 DEF Tells, Codes
  <2>3. QED BY <2>2 DEF c
<1>2. CASE r.type = "sqlite"
  <2>1. c = IF BlankPath(r.params.path) THEN "INVALID_PATH" ELSE SQLitePath(r.params.path).code
    BY <1>2 DEF Refusal, Network
  <2>2. SQLitePath(r.params.path).code \in PathCodes
    BY DEF SQLitePath, Accept, Refuse, PathCodes
  <2>3. r.params.path \in Seq(Entries)
    BY <1>2, RequestsAssumption DEF RequestsAssumption
  <2>4. c = "INVALID_PATH" =>
          r.params.path = <<" ">> \/ EvalSymlinks(UserFiles) \o r.params.path \notin ListedFiles
    <3>1. SQLitePath(<<>>).code = "INVALID_PATH"
      BY DEF SQLitePath, Refuse
    <3>2. c = "INVALID_PATH" =>
            r.params.path = <<" ">> \/ SQLitePath(r.params.path).code = "INVALID_PATH"
      BY <2>1, <3>1 DEF BlankPath
    <3>3. SQLitePath(r.params.path).code = "INVALID_PATH" =>
            EvalSymlinks(UserFiles) \o r.params.path \notin ListedFiles
      BY <2>3, ListedIsAccepted
    <3>4. QED BY <3>2, <3>3
  <2>5. r.type \in Known
    BY <1>2 DEF Known
  <2> HIDE DEF c
  <2>6. c \in Codes /\ c \notin {"INVALID_REQUEST", "INVALID_PORT"}
    BY <2>1, <2>2 DEF PathCodes, Codes
  <2>7. Tells(c, r)
    BY <2>1, <2>4, <2>5, <2>6 DEF Tells
  <2>8. QED BY <2>7 DEF c
<1>3. CASE r.type \in Network
  <2>1. r.type # "sqlite" /\ r.type \in Known
    BY <1>3 DEF Network, Known
  <2>2. /\ c \in {"ok", "INVALID_REQUEST", "INVALID_PORT"}
        /\ c = "INVALID_REQUEST" => \E f \in Required(r.type) : Blank(r.params[f])
        /\ c = "INVALID_PORT" => ~Port(AtoiOrZero(r.params.port))
    BY <1>3, <2>1 DEF Refusal
  <2> HIDE DEF c
  <2>3. c = "INVALID_REQUEST" => \E f \in Fields(r.type) : r.params[f] \in {"", " "}
    BY <1>3, <2>2, NetworkParams, BlankText
  <2>4. c = "INVALID_PORT" =>
          r.params.port \notin DOMAIN Numeral \/ Numeral[r.params.port] \notin PortNumbers
    BY <2>2, BadPort, Zenon
  <2>5. c \in Codes /\ c # "INVALID_PATH"
    BY <2>2 DEF Codes, PathCodes
  <2>6. Tells(c, r)
    BY <2>1, <2>3, <2>4, <2>5 DEF Tells
  <2>7. QED BY <2>6 DEF c
<1>4. r.type \in Known => r.type = "sqlite" \/ r.type \in Network
  BY DEF Known
<1>5. QED BY <1>1, <1>2, <1>3, <1>4, Zenon
----------------------------------------------------------------------------
(***************************************************************************)
(* Steps.                                                                  *)
(***************************************************************************)
\* What does not change the world changes none of its answers.
LEMMA SameWorld ==
  ASSUME UNCHANGED world
  PROVE  /\ World' <=> World
         /\ \A h : (Host(h)' <=> Host(h)) /\ (Permitted(h)' <=> Permitted(h))
         /\ \A p : Kind(p)' = Kind(p)
         /\ EvalSymlinks(UserFiles)' = EvalSymlinks(UserFiles) /\ ListedFiles' = ListedFiles
         /\ \A t, p : Refusal(t, p)' = Refusal(t, p) /\ Normalized(t, p)' = Normalized(t, p)
<1> allow' = allow /\ dns' = dns /\ server' = server /\ disk' = disk
  BY DEF world
<1>1. World' <=> World
  BY DEF World
<1>2. ASSUME NEW h PROVE (Host(h)' <=> Host(h)) /\ (Permitted(h)' <=> Permitted(h))
  <2>1. Lookup(h)' = Lookup(h) /\ (AllowsHost(h)' <=> AllowsHost(h)) /\ Exempt' = Exempt
        /\ (Named(h)' <=> Named(h))
    BY DEF Lookup, AllowsHost, Exempt, Named
  <2>2. \A ip : AllowsIP(ip)' <=> AllowsIP(ip)
    BY DEF AllowsIP
  <2>3. QED BY <2>1, <2>2 DEF Host, Permitted
<1>3. \A p : Kind(p)' = Kind(p)
  BY DEF Kind
<1>4. \A p : Links(p)' = Links(p)
  BY <1>3 DEF Links
<1>5. \A p : Follow(p)' = Follow(p)
  BY <1>4 DEF Follow
<1>6. \A p : EvalSymlinks(p)' = EvalSymlinks(p)
  BY <1>3, <1>4, <1>5 DEF EvalSymlinks
<1>7. ListedFiles' = ListedFiles
  BY <1>6 DEF ListedFiles
<1>8. \A p : SQLitePath(p)' = SQLitePath(p)
  BY <1>3, <1>6 DEF SQLitePath
<1>9. \A t, p : Refusal(t, p)' = Refusal(t, p) /\ Normalized(t, p)' = Normalized(t, p)
  BY <1>8 DEF Refusal, Normalized
<1>10. QED BY <1>1, <1>2, <1>3, <1>6, <1>7, <1>9

\* A command that is not at its end has said nothing yet.
LEMMA StillBusy ==
  ASSUME pc' # "idle"
  PROVE  OnlyPermittedHostsAreReached' /\ TestedSourcesAreAccepted' /\ RefusalsAreJustified'
BY DEF Finished, Done, OnlyPermittedHostsAreReached, TestedSourcesAreAccepted, RefusalsAreJustified

LEMMA WorldTyped == ASSUME TypeOK PROVE World
BY DEF TypeOK, World

LEMMA TestedKept ==
  ASSUME Tested, UNCHANGED <<world, passed>>
  PROVE  Tested'
<1>1. passed' = passed
  OBVIOUS
<1>2. QED BY <1>1, SameWorld DEF Tested, Acceptable, PlanTarget

LEMMA GivenKept ==
  ASSUME Given, UNCHANGED <<world, cmd, params, steady>>
  PROVE  Given'
<1>1. cmd' = cmd /\ params' = params /\ steady' = steady
  OBVIOUS
<1>2. QED BY <1>1, SameWorld DEF Given, Acceptable, Source

\* What a running command is about.
LEMMA Running ==
  ASSUME IInv, pc # "idle"
  PROVE  /\ cmd # None /\ cmd.req \in Requests /\ cmd.op \in {"test", "add", "apply"}
         /\ pc # "validate" => params # None
BY DEF IInv, TypeOK, Course

LEMMA BeginStep ==
  ASSUME IInv, NEW op \in {"test", "add", "apply"}, NEW req \in Requests, Begin(op, req)
  PROVE  IInv'
<1>1. /\ cmd' = [op |-> op, req |-> req] /\ params' = None /\ tried' = {}
      /\ calm' = TRUE /\ steady' = TRUE /\ UNCHANGED <<world, changes, passed>>
      /\ \/ pc' = "validate"
         \/ pc' = "idle" /\ reply' = "INVALID_NAME" /\ req.name \notin ValidNames
  BY DEF Begin, Ends, Goes
<1>2. cmd'.op = op /\ cmd'.req = req /\ cmd' # None
  BY <1>1 DEF None
<1>3. TypeOK'
  BY <1>1, <1>2 DEF IInv, TypeOK, world
<1>4. Course' /\ Given' /\ Looked'
  BY <1>1, <1>2 DEF Course, Given, Looked
<1>5. Tested'
  BY <1>1, TestedKept DEF IInv
<1>6. CASE pc' # "idle"
  BY <1>3, <1>4, <1>5, <1>6, StillBusy DEF IInv
<1>7. CASE pc' = "idle"
  <2>1. reply' = "INVALID_NAME" /\ cmd'.req.name \notin ValidNames
    BY <1>1, <1>2, <1>7
  <2>2. OnlyPermittedHostsAreReached'
    BY <2>1 DEF OnlyPermittedHostsAreReached, Done
  <2>3. TestedSourcesAreAccepted'
    BY <2>1 DEF TestedSourcesAreAccepted
  <2>4. RefusalsAreJustified'
    BY <2>1 DEF RefusalsAreJustified
  <2>5. QED BY <1>3, <1>4, <1>5, <2>2, <2>3, <2>4 DEF IInv
<1>8. QED BY <1>6, <1>7

LEMMA ValidateStep == IInv /\ Validate => IInv'
<1> SUFFICES ASSUME IInv, Validate PROVE IInv'
  OBVIOUS
<1> DEFINE r == cmd.req  c == Refusal(r.type, r.params)
<1>1. /\ pc = "validate" /\ r \in Requests /\ cmd # None /\ World
      /\ cmd' = cmd /\ tried' = tried /\ calm' = TRUE /\ UNCHANGED <<world, changes, steady, passed>>
      /\ IF c # "ok" THEN pc' = "idle" /\ reply' = c /\ params' = params
         ELSE /\ params' = Normalized(r.type, r.params)
              /\ pc' \in {"check", "dial", "plan"}
              /\ pc' = "dial" => r.type \notin Network /\ cmd.op = "test"
              /\ pc' = "plan" => r.type \notin Network /\ cmd.op # "test"
              /\ pc' = "check" => r.type \in Network
  BY Running, WorldTyped DEF Validate, Ends, Goes, IInv
<1>2. Tells(c, r)
  BY <1>1, RefusalTells
<1>3. Tested'
  BY <1>1, TestedKept DEF IInv
<1>4. c = "ok" => params' # None /\ r.type \in Known
  <2>1. CASE r.type \in Network
    BY <1>1, <1>2, <2>1, NormalizedParams DEF Tells
  <2>2. CASE r.type = "sqlite"
    <3>1. r.type \in Known /\ [path |-> SQLitePath(r.params.path).path] # None
      BY <2>2 DEF Known, None
    <3>2. c = "ok" => params' = [path |-> SQLitePath(r.params.path).path]
      BY <1>1, <2>2 DEF Normalized
    <3>3. QED BY <3>1, <3>2
  <2>3. QED BY <1>2, <2>1, <2>2 DEF Tells, Known
<1>5. TypeOK'
  BY <1>1, <1>4 DEF IInv, TypeOK, world
<1>6. Course' /\ Looked'
  BY <1>1 DEF IInv, Course, Looked
<1>7. CASE c = "ok"
  <2>1. Given'
    BY <1>1, <1>4, <1>7, SameWorld DEF Given, Acceptable, Source
  <2>2. QED BY <1>1, <1>3, <1>5, <1>6, <1>7, <2>1, StillBusy DEF IInv
<1>8. CASE c # "ok"
  <2>1. pc' = "idle" /\ reply' = c
    BY <1>1, <1>8
  <2>2. Given'
    BY <1>1, <1>8, GivenKept DEF IInv
  <2>3. OnlyPermittedHostsAreReached'
    BY <1>8, <2>1 DEF OnlyPermittedHostsAreReached, Done
  <2>4. TestedSourcesAreAccepted'
    <3>1. passed' # None => passed'.req # r
      BY <1>1, <1>8 DEF IInv, Tested, Acceptable
    <3>2. QED BY <1>1, <3>1 DEF TestedSourcesAreAccepted
  <2>5. RefusalsAreJustified'
    <3> HIDE DEF c
    <3>1. reply' \in Codes /\ cmd'.req = r
      BY <1>1, <1>2, <2>1 DEF Tells
    <3>2. reply' \notin {"INVALID_NAME", "HOST_NOT_ALLOWED", "CONNECTION_FAILED"}
      BY <3>1 DEF Codes, PathCodes
    <3>3. EvalSymlinks(UserFiles)' = EvalSymlinks(UserFiles) /\ ListedFiles' = ListedFiles
      BY <1>1, SameWorld
    <3>4. QED BY <1>2, <2>1, <3>1, <3>2, <3>3 DEF RefusalsAreJustified, Tells
  <2>6. QED BY <1>3, <1>5, <1>6, <2>2, <2>3, <2>4, <2>5 DEF IInv
<1>9. QED BY <1>7, <1>8

\* A look at the host, before a dial or a plan and again before the hub gets it.
LEMMA LookStep ==
  ASSUME IInv, pc \in {"check", "recheck"}, UNCHANGED <<world, changes, cmd, params, tried, calm, steady, passed>>,
         \/ /\ Host(params.host)
            /\ pc' = IF pc = "recheck" THEN "attach" ELSE IF cmd.op = "test" THEN "dial" ELSE "plan"
         \/ ~Host(params.host) /\ pc' = "idle" /\ reply' = "HOST_NOT_ALLOWED"
  PROVE  IInv'
<1> DEFINE r == cmd.req
<1>1. /\ r \in Requests /\ r.type \in Network /\ cmd # None /\ World /\ params # None
      /\ cmd' = cmd /\ params' = params /\ tried' = tried /\ calm' = calm /\ steady' = steady /\ passed' = passed
  BY Running, WorldTyped DEF IInv, Course
<1>2. params = Normalized(r.type, r.params) /\ params.host = r.params.host
  BY <1>1, NormalizedParams DEF IInv, Given, Source
<1>3. Tested' /\ Given'
  BY TestedKept, GivenKept DEF IInv
<1>4. TypeOK'
  BY <1>1 DEF IInv, TypeOK, world
<1>5. Course'
  BY <1>1 DEF IInv, Course
<1>6. CASE Host(params.host) /\ pc' # "idle"
  <2>1. Looked'
    BY <1>1, <1>6, SameWorld DEF IInv, Looked
  <2>2. QED BY <1>3, <1>4, <1>5, <1>6, <2>1, StillBusy DEF IInv
<1>7. CASE ~Host(params.host) /\ pc' = "idle" /\ reply' = "HOST_NOT_ALLOWED"
  <2>1. Looked'
    BY <1>1, <1>7 DEF IInv, Looked
  <2>2. OnlyPermittedHostsAreReached'
    BY <1>7 DEF OnlyPermittedHostsAreReached, Done
  <2>3. TestedSourcesAreAccepted'
    <3>1. passed' # None => passed'.req # r
      BY <1>1, <1>2, <1>7 DEF IInv, Tested
    <3>2. QED BY <1>1, <3>1 DEF TestedSourcesAreAccepted
  <2>4. ~Permitted(r.params.host)
    BY <1>1, <1>2, <1>7, HostIsPermitted
  <2>5. RefusalsAreJustified'
    BY <1>1, <1>7, <2>4, SameWorld DEF RefusalsAreJustified
  <2>6. QED BY <1>3, <1>4, <1>5, <2>1, <2>2, <2>3, <2>5 DEF IInv
<1>8. QED BY <1>6, <1>7

LEMMA CheckHostStep == IInv /\ CheckHost => IInv'
BY LookStep DEF CheckHost, Goes, Ends

LEMMA RecheckHostStep == IInv /\ RecheckHost => IInv'
BY LookStep DEF RecheckHost, Goes, Ends

\* A test of a source of a file or of a server tells what it found.
LEMMA DialFileStep ==
  ASSUME IInv, Dial, cmd.req.type \notin Network
  PROVE  IInv'
<1> DEFINE r == cmd.req
<1>1. /\ pc = "dial" /\ r \in Requests /\ cmd # None /\ cmd.op = "test" /\ World /\ params # None
      /\ r.type = "sqlite" /\ r.type \in Known
      /\ cmd' = cmd /\ params' = params /\ calm' = calm /\ steady' = steady
      /\ UNCHANGED <<world, changes, cmd, params, steady>>
  BY Running, WorldTyped DEF IInv, Course, Given, Known, Dial
<1>2. /\ target' = params /\ tried' = tried /\ pc' = "idle"
      /\ reply' = FileAnswer(params.path)
      /\ passed' = IF reply' = "ok" /\ steady THEN [req |-> cmd.req, target |-> target'] ELSE passed
  BY <1>1 DEF Dial, Ends
<1>3. steady => /\ params = Normalized(r.type, r.params) /\ Acceptable(r)
                /\ EvalSymlinks(params.path) = params.path /\ Kind(params.path) = "file"
                /\ params.path # Missing
  <2>1. steady => params = Normalized(r.type, r.params) /\ Acceptable(r)
    BY <1>1 DEF IInv, Given, Source
  <2>2. Normalized(r.type, r.params) = [path |-> SQLitePath(r.params.path).path]
    BY <1>1 DEF Normalized
  <2>3. Acceptable(r) => SQLitePath(r.params.path).code = "ok"
    BY <1>1 DEF Acceptable, Refusal, Network
  <2>4. Acceptable(r) => LET q == SQLitePath(r.params.path).path IN
                           Kind(q) = "file" /\ q # Missing /\ EvalSymlinks(q) = q
    BY <2>3, AcceptedPath, ResolvedAgain
  <2>5. QED BY <2>1, <2>2, <2>4
<1>4. /\ reply' \in {"ok", "INVALID_PATH", "CONNECTION_FAILED"}
      /\ steady => reply' # "INVALID_PATH"
      /\ steady /\ reply' = "CONNECTION_FAILED" => ~disk[params.path].lists
  BY <1>2, <1>3 DEF FileAnswer
<1>5. Given'
  BY <1>1, GivenKept DEF IInv
<1>6. TypeOK'
  BY <1>1, <1>2 DEF IInv, TypeOK, world
<1>7. Course' /\ Looked'
  BY <1>1, <1>2 DEF IInv, Course, Looked
<1>8. Tested'
  <2>1. CASE reply' = "ok" /\ steady
    <3>1. passed'.req = r /\ passed'.target = params
      BY <1>2, <2>1
    <3>2. Acceptable(r)' /\ r.type \notin Network
      BY <1>1, <1>3, <2>1, SameWorld DEF Acceptable, Network
    <3>3. params = PlanTarget(r.type, Normalized(r.type, r.params))'
      BY <1>1, <1>3, <2>1, SameWorld DEF PlanTarget
    <3>4. QED BY <1>1, <3>1, <3>2, <3>3 DEF Tested, Acceptable
  <2>2. CASE ~(reply' = "ok" /\ steady)
    <3>1. UNCHANGED <<world, passed>>
      BY <1>1, <1>2, <2>2
    <3>2. QED BY <3>1, TestedKept DEF IInv
  <2>3. QED BY <2>1, <2>2
<1>9. OnlyPermittedHostsAreReached'
  BY <1>1 DEF OnlyPermittedHostsAreReached, Network
<1>10. TestedSourcesAreAccepted'
  BY <1>1 DEF TestedSourcesAreAccepted
<1>11. RefusalsAreJustified'
  <2>1. reply' = "INVALID_PATH" => ~steady'
    BY <1>1, <1>4
  <2>2. reply' = "CONNECTION_FAILED" /\ steady' => ~disk'[params'.path].lists
    BY <1>1, <1>4 DEF world
  <2>3. cmd'.req.type \notin Network
    BY <1>1 DEF Network
  <2>4. QED BY <1>4, <2>1, <2>2, <2>3 DEF RefusalsAreJustified
<1>12. QED BY <1>5, <1>6, <1>7, <1>8, <1>9, <1>10, <1>11 DEF IInv

\* A dial tries the endpoint asked for, without TLS too, and no other.
OwnOnly(cfg, h, n) ==
  /\ \A e \in Kept(cfg) : e.host = h /\ e.port = n /\ e.tls \in BOOLEAN
  /\ Endpoint(h, n, FALSE) \in Kept(cfg)

LEMMA KeptIsOwn ==
  ASSUME NEW t, NEW h, NEW n, NEW cfg \in Configs(t, h, n), cfg.main.host = h, cfg.main.port = n
  PROVE  OwnOnly(cfg, h, n)
<1> DEFINE plain == Endpoint(h, n, FALSE)  local == Endpoint(Loopback, n, FALSE)
           first == Endpoint(h, n, TRUE)   other == Endpoint(Loopback, n, TRUE)
<1>1. /\ plain.host = h /\ plain.port = n /\ plain.tls = FALSE
      /\ first.host = h /\ first.port = n /\ first.tls = TRUE
      /\ other.host = Loopback /\ local.tls = FALSE
      /\ Loopback = h => local = plain /\ other = first
  BY DEF Endpoint
<1>2. \/ cfg.main = plain /\ cfg.fallbacks = {}
      \/ cfg.main = first /\ cfg.fallbacks \in {{plain}, {plain, local}}
      \/ cfg.main = other /\ cfg.fallbacks = {local}
  <2>1. cfg \in {[main |-> plain, fallbacks |-> {}]} \cup
               {[main |-> first, fallbacks |-> {plain}], [main |-> first, fallbacks |-> {plain, local}],
                [main |-> other, fallbacks |-> {local}]}
    BY DEF Configs, Parsed
  <2> HIDE DEF plain, local, first, other
  <2>2. QED BY <2>1
<1> HIDE DEF plain, local, first, other
<1>3. cfg.fallbacks \subseteq {plain, local} /\ cfg.main \in {plain, first}
  BY <1>1, <1>2
<1>4. plain \in Kept(cfg)
  BY <1>1, <1>2 DEF Kept
<1>5. \A e \in Kept(cfg) : e.host = h /\ e.port = n /\ e.tls \in BOOLEAN
  BY <1>1, <1>3 DEF Kept
<1>6. QED BY <1>4, <1>5 DEF OwnOnly, plain

Serves(s, n, account) == n \in s.ports /\ account \in s.logins /\ s.lists

LEMMA ServerAnswers ==
  ASSUME NEW h, Host(h), NEW n, NEW cfg, OwnOnly(cfg, h, n), NEW account
  PROVE  /\ ServerAnswer(cfg, account) \in {"ok", "CONNECTION_FAILED"}
         /\ ServerAnswer(cfg, account) = "CONNECTION_FAILED" =>
              ~Serves(server[Lower[h]], n, account)
<1> DEFINE e == Endpoint(h, n, FALSE)
<1>1. h \in DOMAIN Lower
  BY DEF Host, Lookup
<1>2. e \in Kept(cfg) /\ e.host = h /\ e.port = n /\ e.tls = FALSE
  BY DEF OwnOnly, Endpoint
<1> HIDE DEF e
<1>3. Serves(server[Lower[h]], n, account) =>
        Connects(e, account) /\ server[Lower[e.host]].lists
  BY <1>1, <1>2 DEF Connects, Serves
<1>4. QED BY <1>2, <1>3 DEF ServerAnswer

LEMMA DialServerStep ==
  ASSUME IInv, Dial, cmd.req.type \in Network
  PROVE  IInv'
<1> DEFINE r == cmd.req  h == params.host  n == AtoiOrZero(params.port)
           to == [host |-> h, port |-> n, database |-> params.database,
                  schema |-> IF r.type = "postgres" THEN params.schema ELSE ""]
<1>1. /\ pc = "dial" /\ r \in Requests /\ cmd # None /\ cmd.op = "test" /\ World /\ params # None
      /\ r.type # "sqlite" /\ r.type \in Known /\ tried = {}
      /\ cmd' = cmd /\ params' = params /\ calm' = calm /\ steady' = steady
      /\ UNCHANGED <<world, changes, cmd, params, steady>>
  BY Running, WorldTyped DEF IInv, Course, Given, Known, Dial, Network
<1>2. PICK cfg \in Configs(r.type, h, n) :
        IF cfg.main.host # h \/ cfg.main.port # n
          THEN Ends("INTERNAL_ERROR") /\ UNCHANGED tried
          ELSE /\ tried' = Kept(cfg)
               /\ Ends(ServerAnswer(cfg, Account(params)))
  BY <1>1 DEF Dial
<1>3. /\ target' = to
      /\ passed' = IF reply' = "ok" /\ steady THEN [req |-> cmd.req, target |-> target'] ELSE passed
  BY <1>1 DEF Dial
<1>4. /\ pc' = "idle" /\ reply' \in {"ok", "INTERNAL_ERROR", "CONNECTION_FAILED"}
      /\ \A e \in tried' : e.host = h /\ e.port = n /\ e.tls \in BOOLEAN
      /\ reply' = "CONNECTION_FAILED" /\ Host(h) =>
           ~Serves(server[Lower[h]], n, Account(params))
  <2>1. CASE cfg.main.host # h \/ cfg.main.port # n
    BY <1>1, <1>2, <2>1 DEF Ends
  <2>2. CASE cfg.main.host = h /\ cfg.main.port = n
    <3>1. /\ tried' = Kept(cfg) /\ pc' = "idle"
          /\ reply' = ServerAnswer(cfg, Account(params))
      BY <1>2, <2>2 DEF Ends
    <3>2. OwnOnly(cfg, h, n)
      <4>1. cfg \in Configs(r.type, h, n) /\ cfg.main.host = h /\ cfg.main.port = n
        BY <2>2
      <4> HIDE DEF r, h, n
      <4>2. QED BY <4>1, KeptIsOwn, Zenon
    <3> HIDE DEF h, n
    <3>3. \A e \in Kept(cfg) : e.host = h /\ e.port = n /\ e.tls \in BOOLEAN
      BY <3>2 DEF OwnOnly
    <3>4. /\ ServerAnswer(cfg, Account(params)) \in {"ok", "CONNECTION_FAILED"}
          /\ ServerAnswer(cfg, Account(params)) = "CONNECTION_FAILED" /\ Host(h) =>
               ~Serves(server[Lower[h]], n, Account(params))
      <4>1. ServerAnswer(cfg, Account(params)) \in {"ok", "CONNECTION_FAILED"}
        BY DEF ServerAnswer
      <4>2. QED BY <3>2, <4>1, ServerAnswers
    <3>5. QED BY <3>1, <3>3, <3>4
  <2>3. QED BY <2>1, <2>2
<1>5. params = Normalized(r.type, r.params) /\ Acceptable(r) /\ h = r.params.host
  BY <1>1, NormalizedParams DEF IInv, Given, Source
<1>6. calm => Host(h) /\ Permitted(r.params.host)
  BY <1>1, <1>5, HostIsPermitted DEF IInv, Looked
<1>7. steady => calm
  BY DEF IInv, Looked
<1>8. target'.host = h /\ target'.port = n
  BY <1>3
<1> HIDE DEF to
<1>9. Given'
  BY <1>1, GivenKept DEF IInv
<1>10. TypeOK'
  <2>1. passed' = None \/ passed'.req \in Requests
    BY <1>1, <1>3 DEF IInv, TypeOK
  <2>2. QED BY <1>1, <1>4, <2>1 DEF IInv, TypeOK, world
<1>11. Course' /\ Looked'
  BY <1>1, <1>4 DEF IInv, Course, Looked
<1>12. Tested'
  <2>1. CASE reply' = "ok" /\ steady
    <3>1. passed'.req = r /\ passed'.target = to
      BY <1>3, <2>1
    <3>2. Acceptable(r)' /\ Host(r.params.host)'
      BY <1>1, <1>5, <1>6, <1>7, <2>1, SameWorld DEF Acceptable
    <3>3. AtoiOrZero(Trim[params.port]) = n
      BY <1>1, <1>5, AcceptableParams
    <3>4. to = PlanTarget(r.type, params)
      BY <1>1, <3>3 DEF PlanTarget, to
    <3>5. to = PlanTarget(r.type, Normalized(r.type, r.params))'
      BY <1>1, <1>5, <3>4, SameWorld DEF PlanTarget
    <3>6. QED BY <1>1, <3>1, <3>2, <3>5 DEF Tested, Acceptable
  <2>2. CASE ~(reply' = "ok" /\ steady)
    <3>1. UNCHANGED <<world, passed>>
      BY <1>1, <1>3, <2>2
    <3>2. QED BY <3>1, TestedKept DEF IInv
  <2>3. QED BY <2>1, <2>2
<1>13. OnlyPermittedHostsAreReached'
  <2>1. calm' => Permitted(cmd.req.params.host)'
    BY <1>1, <1>6, SameWorld
  <2>2. QED BY <1>1, <1>4, <1>5, <1>8, <2>1 DEF OnlyPermittedHostsAreReached
<1>14. TestedSourcesAreAccepted'
  BY <1>1 DEF TestedSourcesAreAccepted
<1>15. RefusalsAreJustified'
  <2>1. n = Numeral[r.params.port] /\ Account(params) = Account(r.params)
    <3>1. Port(AtoiOrZero(r.params.port)) /\ params.port = r.params.port
      BY <1>1, <1>5, NormalizedParams, Zenon DEF Acceptable, Refusal
    <3>2. AtoiOrZero(r.params.port) = Numeral[r.params.port]
      BY <3>1 DEF Port, AtoiOrZero
    <3>3. \A f \in {"user", "password", "database"} : params[f] = r.params[f]
      BY <1>1, <1>5, NormalizedParams, NetworkParams
    <3>4. QED BY <3>1, <3>2, <3>3 DEF Account
  <2>2. reply' = "CONNECTION_FAILED" /\ steady' =>
          ~Serves(server'[Lower[r.params.host]], Numeral[r.params.port], Account(r.params))
    BY <1>1, <1>4, <1>5, <1>6, <1>7, <2>1 DEF world
  <2>3. cmd'.req = r
    BY <1>1
  <2> HIDE DEF n, h
  <2>4. QED BY <1>4, <2>2, <2>3 DEF RefusalsAreJustified, Serves
<1>16. QED BY <1>9, <1>10, <1>11, <1>12, <1>13, <1>14, <1>15 DEF IInv

LEMMA DialStep == IInv /\ Dial => IInv'
BY DialFileStep, DialServerStep

LEMMA PlanStep == IInv /\ Plan => IInv'
<1> SUFFICES ASSUME IInv, Plan PROVE IInv'
  OBVIOUS
<1> DEFINE r == cmd.req  c == PlanRefusal(r.name, r.type, params)
<1>1. /\ pc = "plan" /\ r \in Requests /\ cmd # None /\ cmd.op # "test" /\ World /\ params # None
      /\ r.type \in Known
      /\ cmd' = cmd /\ params' = params /\ tried' = tried /\ calm' = TRUE /\ steady' = steady
      /\ UNCHANGED <<world, changes, cmd, params, steady, passed>>
      /\ \/ c = "ok" /\ pc' = IF r.type \in Network THEN "recheck" ELSE "attach"
         \/ c # "ok" /\ pc' = "idle" /\ reply' = c
  BY Running, WorldTyped DEF Plan, Ends, Goes, IInv, Course, Given
<1>2. c = IF r.name \notin ValidNames THEN "INVALID_NAME" ELSE "ok"
  <2>1. CASE r.type \in Network
    BY <1>1, <2>1, AcceptableParams DEF IInv, Given, Source
  <2>2. CASE r.type = "sqlite"
    BY <2>2 DEF PlanRefusal
  <2>3. QED BY <1>1, <2>1, <2>2 DEF Known
<1> HIDE DEF c
<1>3. Tested' /\ Given'
  BY <1>1, TestedKept, GivenKept DEF IInv
<1>4. TypeOK'
  BY <1>1 DEF IInv, TypeOK, world
<1>5. Course' /\ Looked'
  BY <1>1 DEF IInv, Course, Looked
<1>6. CASE pc' # "idle"
  BY <1>3, <1>4, <1>5, <1>6, StillBusy DEF IInv
<1>7. CASE pc' = "idle"
  <2>1. reply' = "INVALID_NAME" /\ cmd'.req.name \notin ValidNames
    BY <1>1, <1>2, <1>7
  <2>2. OnlyPermittedHostsAreReached'
    BY <2>1 DEF OnlyPermittedHostsAreReached, Done
  <2>3. TestedSourcesAreAccepted'
    BY <2>1 DEF TestedSourcesAreAccepted
  <2>4. RefusalsAreJustified'
    BY <2>1 DEF RefusalsAreJustified
  <2>5. QED BY <1>3, <1>4, <1>5, <2>2, <2>3, <2>4 DEF IInv
<1>8. QED BY <1>6, <1>7

LEMMA AttachStep == IInv /\ Attach => IInv'
<1> SUFFICES ASSUME IInv, Attach PROVE IInv'
  OBVIOUS
<1> DEFINE r == cmd.req
<1>1. /\ pc = "attach" /\ r \in Requests /\ cmd # None /\ cmd.op # "test" /\ World /\ params # None
      /\ r.type \in Known /\ tried = {}
      /\ target' = PlanTarget(r.type, params) /\ pc' = "idle" /\ reply' = "ok"
      /\ cmd' = cmd /\ params' = params /\ tried' = tried /\ calm' = calm /\ steady' = steady
      /\ passed' = passed
      /\ UNCHANGED <<world, changes, cmd, params, steady, passed>>
  BY Running, WorldTyped DEF Attach, Ends, IInv, Course, Given
<1>2. Tested' /\ Given'
  BY <1>1, TestedKept, GivenKept DEF IInv
<1>3. TypeOK'
  BY <1>1 DEF IInv, TypeOK, world
<1>4. Course' /\ Looked'
  BY <1>1 DEF IInv, Course, Looked
<1>5. OnlyPermittedHostsAreReached'
  <2> SUFFICES ASSUME r.type \in Network PROVE OnlyPermittedHostsAreReached'
    BY <1>1 DEF OnlyPermittedHostsAreReached
  <2>1. params.host = r.params.host /\ r.type # "sqlite"
    BY <1>1, NormalizedParams, NetworkParams DEF IInv, Given, Source
  <2>2. calm => Permitted(r.params.host)
    BY <1>1, <2>1, HostIsPermitted DEF IInv, Looked
  <2>3. target'.host = r.params.host
    BY <1>1, <2>1 DEF PlanTarget
  <2>4. calm' => Permitted(cmd.req.params.host)'
    BY <1>1, <2>2, SameWorld
  <2>5. QED BY <1>1, <2>3, <2>4 DEF OnlyPermittedHostsAreReached
<1>6. TestedSourcesAreAccepted'
  <2>1. passed # None /\ steady /\ r = passed.req => target' = passed.target
    <3>1. steady => params = Normalized(r.type, r.params)
      BY <1>1 DEF IInv, Given, Source
    <3>2. QED BY <1>1, <3>1 DEF IInv, Tested
  <2>2. QED BY <1>1, <2>1 DEF TestedSourcesAreAccepted
<1>7. RefusalsAreJustified'
  BY <1>1 DEF RefusalsAreJustified
<1>8. QED BY <1>2, <1>3, <1>4, <1>5, <1>6, <1>7 DEF IInv

\* What Validate makes of the parameters of a server has nothing to do with the world.
LEMMA ServerParamsStay ==
  ASSUME NEW t \in Network, NEW p
  PROVE  Refusal(t, p)' = Refusal(t, p) /\ Normalized(t, p)' = Normalized(t, p)
BY DEF Refusal, Normalized, Network

LEMMA ChangeStep == IInv /\ Change => IInv'
<1> SUFFICES ASSUME IInv, Change PROVE IInv'
  OBVIOUS
<1>1. /\ changes' = changes + 1 /\ changes < MaxChanges /\ calm' = FALSE /\ steady' = FALSE /\ passed' = None
      /\ pc' = pc /\ cmd' = cmd /\ params' = params /\ target' = target /\ tried' = tried /\ reply' = reply
  BY DEF Change
<1>2. [allow |-> allow, dns |-> dns, server |-> server, disk |-> disk]' \in Worlds
  <2>1. PICK w \in Worlds :
          allow' = w.allow /\ dns' = w.dns /\ server' = w.server /\ disk' = w.disk
    BY DEF Change
  <2>2. w = [allow |-> w.allow, dns |-> w.dns, server |-> w.server, disk |-> w.disk]
    BY WorldsAssumption DEF WorldsAssumption
  <2>3. QED BY <2>1, <2>2
<1>3. changes' \in 0..MaxChanges
  <2>1. changes \in 0..MaxChanges
    BY DEF IInv, TypeOK
  <2>2. QED BY <1>1, <2>1, MaxChangesAssumption DEF MaxChangesAssumption
<1>4. TypeOK'
  BY <1>1, <1>2, <1>3 DEF IInv, TypeOK
<1>5. Course' /\ Looked' /\ Tested'
  BY <1>1 DEF IInv, Course, Looked, Tested
<1>6. Given'
  BY <1>1, ServerParamsStay DEF IInv, Given, Acceptable, Source
<1>7. OnlyPermittedHostsAreReached' /\ TestedSourcesAreAccepted'
  BY <1>1 DEF IInv, OnlyPermittedHostsAreReached, TestedSourcesAreAccepted, Finished, Done
<1>8. RefusalsAreJustified'
  BY <1>1 DEF IInv, RefusalsAreJustified, Finished
<1>9. QED BY <1>4, <1>5, <1>6, <1>7, <1>8 DEF IInv

LEMMA StutterStep == IInv /\ UNCHANGED vars => IInv'
<1> SUFFICES ASSUME IInv, UNCHANGED vars PROVE IInv'
  OBVIOUS
<1>1. /\ UNCHANGED world
      /\ UNCHANGED <<changes, pc, cmd, params, target, tried, reply, calm, steady, passed>>
  BY DEF vars
<1>2. TypeOK' /\ Course'
  BY <1>1 DEF IInv, TypeOK, Course, world
<1>3. Given' /\ Tested'
  BY <1>1, GivenKept, TestedKept DEF IInv
<1>4. Looked'
  BY <1>1, SameWorld DEF IInv, Looked
<1>5. OnlyPermittedHostsAreReached'
  BY <1>1, SameWorld DEF IInv, OnlyPermittedHostsAreReached, Finished, Done
<1>6. TestedSourcesAreAccepted'
  BY <1>1 DEF IInv, TestedSourcesAreAccepted, Finished
<1>7. RefusalsAreJustified'
  BY <1>1, SameWorld DEF IInv, RefusalsAreJustified, Finished, world
<1>8. QED BY <1>2, <1>3, <1>4, <1>5, <1>6, <1>7 DEF IInv
----------------------------------------------------------------------------
LEMMA InitInv == Init => IInv
<1> SUFFICES ASSUME Init PROVE IInv
  OBVIOUS
<1>1. /\ pc = "idle" /\ cmd = None /\ params = None /\ tried = {} /\ changes = 0
      /\ calm = TRUE /\ steady = TRUE /\ passed = None
  BY DEF Init
<1>2. [allow |-> allow, dns |-> dns, server |-> server, disk |-> disk] \in Worlds
  <2>1. PICK w \in Worlds :
          allow = w.allow /\ dns = w.dns /\ server = w.server /\ disk = w.disk
    BY DEF Init
  <2>2. w = [allow |-> w.allow, dns |-> w.dns, server |-> w.server, disk |-> w.disk]
    BY WorldsAssumption DEF WorldsAssumption
  <2>3. QED BY <2>1, <2>2
<1>3. 0 \in 0..MaxChanges
  BY MaxChangesAssumption DEF MaxChangesAssumption
<1>4. TypeOK
  BY <1>1, <1>2, <1>3 DEF TypeOK
<1>5. Course /\ Given /\ Looked /\ Tested
  BY <1>1 DEF Course, Given, Looked, Tested
<1>6. OnlyPermittedHostsAreReached /\ TestedSourcesAreAccepted /\ RefusalsAreJustified
  BY <1>1 DEF OnlyPermittedHostsAreReached, TestedSourcesAreAccepted, RefusalsAreJustified, Finished, Done
<1>7. QED BY <1>4, <1>5, <1>6 DEF IInv

LEMMA StepInv == IInv /\ [Next]_vars => IInv'
<1> SUFFICES ASSUME IInv, [Next]_vars PROVE IInv'
  OBVIOUS
<1>1. ASSUME NEW op \in {"test", "add", "apply"}, NEW req \in Requests, Begin(op, req)
      PROVE  IInv'
  BY <1>1, BeginStep
<1>2. QED
  BY <1>1, ValidateStep, CheckHostStep, DialStep, PlanStep, RecheckHostStep, AttachStep,
     ChangeStep, StutterStep DEF Next

LEMMA AlwaysInv == Spec => []IInv
BY InitInv, StepInv, PTL DEF Spec

\* Commands, parameters and worlds keep their shapes, whatever changes and however often.
THEOREM Types == Spec => []TypeOK
<1>1. IInv => TypeOK
  BY DEF IInv
<1>2. QED BY <1>1, AlwaysInv, PTL

\* What is dialled, or handed to the hub, is the host of the request, permitted at the
\* last look at it, and no other endpoint, whatever DNS does between the steps and
\* whatever the driver's parser adds.
THEOREM HostsArePermitted == Spec => []OnlyPermittedHostsAreReached
<1>1. IInv => OnlyPermittedHostsAreReached
  BY DEF IInv
<1>2. QED BY <1>1, AlwaysInv, PTL

\* With nothing changed since, adding what was tested attaches what was tested, or is
\* refused for its name.
THEOREM TestsPredictAdds == Spec => []TestedSourcesAreAccepted
<1>1. IInv => TestedSourcesAreAccepted
  BY DEF IInv
<1>2. QED BY <1>1, AlwaysInv, PTL

\* Every refusal has its reason in the request or in the world: a listed file with a name
\* is never an invalid path, and a connection has failed only if the server does not
\* listen, refuses the account or does not list its tables, or the file is no database.
THEOREM RefusalsTellTheTruth == Spec => []RefusalsAreJustified
<1>1. IInv => RefusalsAreJustified
  BY DEF IInv
<1>2. QED BY <1>1, AlwaysInv, PTL

\* user_files is no regular file, whatever the administrator does to it.
UserFilesIsNoFile == Kind(EvalSymlinks(UserFiles)) # "file"

LEMMA FitForUse == IInv /\ UserFilesIsNoFile => AcceptedSourcesAreWellFormed
<1> SUFFICES ASSUME IInv, UserFilesIsNoFile, params # None PROVE AcceptedSourcesAreWellFormed
  BY DEF AcceptedSourcesAreWellFormed
<1> DEFINE r == cmd.req
<1>1. r \in Requests /\ r.type \in Known
      /\ (r.type \in Network \/ steady => params = Normalized(r.type, r.params) /\ Acceptable(r))
  BY DEF IInv, TypeOK, Given, Source
<1>2. CASE r.type \in Network
  <2>1. /\ \A f \in Required(r.type) : params[f] \notin {"", " "}
        /\ PlanRefusal(r.name, r.type, params) = IF r.name \notin ValidNames THEN "INVALID_NAME" ELSE "ok"
    BY <1>1, <1>2, AcceptableParams
  <2>2. QED BY <1>2, <2>1 DEF AcceptedSourcesAreWellFormed
<1>3. CASE r.type \notin Network /\ steady
  <2>1. params.path = SQLitePath(r.params.path).path /\ SQLitePath(r.params.path).code = "ok"
    <3>1. r.type = "sqlite" /\ params = Normalized(r.type, r.params) /\ Acceptable(r)
      BY <1>1, <1>3 DEF Known
    <3>2. Normalized(r.type, r.params) = [path |-> SQLitePath(r.params.path).path]
      BY <3>1 DEF Normalized
    <3>3. Refusal(r.type, r.params) = IF BlankPath(r.params.path) THEN "INVALID_PATH"
                                      ELSE SQLitePath(r.params.path).code
      BY <3>1, Zenon DEF Refusal, Network
    <3>4. QED BY <3>1, <3>2, <3>3 DEF Acceptable
  <2>2. /\ IsPrefix(EvalSymlinks(UserFiles), params.path)
        /\ Kind(params.path) = "file" /\ disk[params.path].kind = "file" /\ Links(params.path) = {}
    BY <2>1, AcceptedPath
  <2>3. params.path # EvalSymlinks(UserFiles)
    BY <2>2 DEF UserFilesIsNoFile
  <2>4. \A i \in 1..Len(params.path) : Kind(SubSeq(params.path, 1, i)) # "link"
    BY <2>2 DEF Links
  <2>5. QED BY <1>3, <2>2, <2>3, <2>4 DEF AcceptedSourcesAreWellFormed, IsStrictPrefix
<1>4. CASE r.type \notin Network /\ ~steady
  BY <1>4 DEF AcceptedSourcesAreWellFormed
<1>5. QED BY <1>2, <1>3, <1>4

\* What passed Validate is fit for use: a plan refuses nothing of it but the name, and a
\* path leads to a regular file below user_files with no link on its way.
THEOREM AcceptedIsFit ==
  Spec /\ []UserFilesIsNoFile => []AcceptedSourcesAreWellFormed
BY FitForUse, AlwaysInv, PTL
=============================================================================
