-------------------------- MODULE ZipTransferProofs --------------------------
(***************************************************************************)
(* For any set of builders, any lab, any tree and any zip file of a        *)
(* student: the downloads of the builders are atomic, a packaging or an    *)
(* unzipping fails for a reason that the lab shows, and what is unzipped   *)
(* is the tree that was zipped.                                            *)
(***************************************************************************)
EXTENDS ZipTransfer, SequenceLemmas, TLAPS

\* The steps that keep the downloads and the hub as they are.
LEMMA DownloadStutter ==
  ASSUME DownloadInv, UNCHANGED <<up, get, could>>
  PROVE  DownloadInv'
BY DEF DownloadInv

\* What Watch notes of a download that is under way or changes: the instant
\* before the step and the instant after, beside what was noted before.
LEMMA Watched ==
  ASSUME DownloadInv, Watch, NEW b \in Builds
  PROVE  /\ DOMAIN could' = Builds
         /\ could[b] \subseteq could'[b]
         /\ get[b] \in InFlight \/ get'[b] # get[b] =>
              {Instant(up, onDisk), Instant(up', onDisk')} \subseteq could'[b]
BY DEF DownloadInv, Watch

\* The first instant of a download.
LEMMA AskKeepsInv ==
  ASSUME DownloadInv, NEW b \in Builds, Ask(b)
  PROVE  DownloadInv'
<1>1. get' = [get EXCEPT ![b] = IF up THEN "asked" ELSE "broken"] /\ get[b] = "none"
  BY DEF Ask
<1>2. UNCHANGED <<up, onDisk>> /\ Watch
  BY DEF Ask, hubSide
<1>3. DOMAIN get' = Builds /\ DOMAIN could' = Builds
  BY <1>1, <1>2 DEF DownloadInv, Watch
<1>4. ASSUME NEW c \in Builds
      PROVE  /\ get'[c] \in InFlight => up'
             /\ get'[c] \in Looked => "served" \in could'[c]
             /\ get'[c] \in Failed => "refused" \in could'[c]
  <2>1. CASE c = b /\ up
    BY <1>1, <1>2, <2>1 DEF DownloadInv, InFlight, Looked, Failed
  <2>2. CASE c = b /\ ~up
    <3>1. get'[c] = "broken" /\ get[c] = "none"
      BY <1>1, <2>2 DEF DownloadInv
    <3>2. "refused" \in could'[c]
      BY <1>2, <2>2, <3>1, Watched DEF Instant
    <3>3. QED
      BY <3>1, <3>2 DEF InFlight, Looked, Failed
  <2>3. CASE c # b
    BY <1>1, <1>2, <2>3, Watched DEF DownloadInv
  <2>4. QED
    BY <2>1, <2>2, <2>3
<1>5. QED
  BY <1>3, <1>4 DEF DownloadInv

\* A step of the handler that looks at the file: it is there, and the hub, which
\* is up, could serve it, or it is not, and the hub refuses it.
LEMMA ServeKeepsInv ==
  ASSUME DownloadInv, NEW b \in Builds,
         NEW before \in InFlight, NEW after \in InFlight, NEW otherwise \in Failed,
         Serve(b, before, after, otherwise)
  PROVE  DownloadInv'
<1>1. /\ get' = [get EXCEPT ![b] = IF onDisk THEN after ELSE otherwise]
      /\ get[b] = before
      /\ UNCHANGED <<up, onDisk>>
      /\ Watch
  BY DEF Serve, hubSide
<1>2. DOMAIN get' = Builds /\ DOMAIN could' = Builds
  BY <1>1 DEF DownloadInv, Watch
<1>3. up /\ up'
  BY <1>1 DEF DownloadInv
<1>4. ASSUME NEW c \in Builds
      PROVE  /\ get'[c] \in InFlight => up'
             /\ get'[c] \in Looked => "served" \in could'[c]
             /\ get'[c] \in Failed => "refused" \in could'[c]
  <2>1. CASE c = b
    <3>1. Instant(up, onDisk) \in could'[c]
      BY <1>1, <2>1, Watched
    <3>2. get'[c] = IF onDisk THEN after ELSE otherwise
      BY <1>1, <2>1 DEF DownloadInv
    <3>3. QED
      BY <1>3, <3>1, <3>2 DEF Instant, InFlight, Looked, Failed
  <2>2. CASE c # b
    BY <1>1, <1>3, <2>2, Watched DEF DownloadInv
  <2>3. QED
    BY <2>1, <2>2
<1>5. QED
  BY <1>2, <1>4 DEF DownloadInv

\* The file is open: its removal does not matter any more.
LEMMA ReadToEndKeepsInv ==
  ASSUME DownloadInv, NEW b \in Builds, ReadToEnd(b)
  PROVE  DownloadInv'
<1>1. /\ get' = [get EXCEPT ![b] = "got"]
      /\ get[b] = "open"
      /\ UNCHANGED up
      /\ Watch
  BY DEF ReadToEnd, hubSide
<1>2. DOMAIN get' = Builds /\ DOMAIN could' = Builds
  BY <1>1 DEF DownloadInv, Watch
<1>3. ASSUME NEW c \in Builds
      PROVE  /\ get'[c] \in InFlight => up'
             /\ get'[c] \in Looked => "served" \in could'[c]
             /\ get'[c] \in Failed => "refused" \in could'[c]
  <2>1. CASE c = b
    <3>1. "served" \in could[c] /\ get'[c] = "got"
      BY <1>1, <2>1 DEF DownloadInv, Looked
    <3>2. QED
      BY <1>1, <3>1, Watched DEF InFlight, Looked, Failed
  <2>2. CASE c # b
    BY <1>1, <2>2, Watched DEF DownloadInv
  <2>3. QED
    BY <2>1, <2>2
<1>4. QED
  BY <1>2, <1>3 DEF DownloadInv

\* The hub goes down, and its downloads with it.
LEMMA HubDownKeepsInv ==
  ASSUME DownloadInv, HubDown
  PROVE  DownloadInv'
<1>1. /\ get' = [b \in Builds |-> IF get[b] \in InFlight THEN "broken" ELSE get[b]]
      /\ up' = FALSE
      /\ Watch
  BY DEF HubDown
<1>2. DOMAIN get' = Builds /\ DOMAIN could' = Builds
  BY <1>1 DEF Watch
<1>3. ASSUME NEW c \in Builds
      PROVE  /\ get'[c] \in InFlight => up'
             /\ get'[c] \in Looked => "served" \in could'[c]
             /\ get'[c] \in Failed => "refused" \in could'[c]
  <2>1. CASE get[c] \in InFlight
    <3>1. "refused" \in could'[c]
      BY <1>1, <2>1, Watched DEF Instant
    <3>2. get'[c] = "broken"
      BY <1>1, <2>1
    <3>3. QED
      BY <3>1, <3>2 DEF InFlight, Looked, Failed
  <2>2. CASE get[c] \notin InFlight
    BY <1>1, <2>2, Watched DEF DownloadInv
  <2>3. QED
    BY <2>1, <2>2
<1>4. QED
  BY <1>2, <1>3 DEF DownloadInv

\* The hub comes up, or removes the file: no download moves.
LEMMA HubKeepsInv ==
  ASSUME DownloadInv, HubUp \/ RemoveZipFile
  PROVE  DownloadInv'
<1>1. UNCHANGED get /\ Watch /\ (up => up')
  BY DEF HubUp, RemoveZipFile
<1>2. DOMAIN could' = Builds
  BY <1>1 DEF Watch
<1>3. \A c \in Builds : could[c] \subseteq could'[c]
  BY <1>1, Watched
<1>4. QED
  BY <1>1, <1>2, <1>3 DEF DownloadInv

\* Every step of the hub and of the builders keeps DownloadInv.
LEMMA DownloadStep ==
  ASSUME DownloadInv, [TransferNext]_transferVars
  PROVE  DownloadInv'
<1>1. CASE PackageLab
  BY <1>1, DownloadStutter DEF PackageLab
<1>2. ASSUME NEW b \in Builds,
             Ask(b) \/ IsFile(b) \/ Metadata(b) \/ Open(b) \/ ReadToEnd(b)
      PROVE  DownloadInv'
  <2>1. CASE Ask(b)
    BY <2>1, AskKeepsInv
  <2>2. CASE IsFile(b)
    BY <2>2, ServeKeepsInv DEF IsFile, InFlight, Failed
  <2>3. CASE Metadata(b)
    BY <2>3, ServeKeepsInv DEF Metadata, InFlight, Failed
  <2>4. CASE Open(b)
    BY <2>4, ServeKeepsInv DEF Open, InFlight, Failed
  <2>5. CASE ReadToEnd(b)
    BY <2>5, ReadToEndKeepsInv
  <2>6. QED
    BY <1>2, <2>1, <2>2, <2>3, <2>4, <2>5
<1>3. CASE RemoveZipFile \/ HubUp
  BY <1>3, HubKeepsInv
<1>4. CASE HubDown
  BY <1>4, HubDownKeepsInv
<1>5. CASE UnzipCopy
  BY <1>5, DownloadStutter DEF UnzipCopy, hubSide
<1>6. CASE UNCHANGED transferVars
  BY <1>6, DownloadStutter DEF transferVars, hubSide
<1>7. QED
  BY <1>1, <1>2, <1>3, <1>4, <1>5, <1>6 DEF TransferNext

\* Before the lab is packaged no builder has asked for anything.
LEMMA DownloadInitially ==
  ASSUME TransferInit
  PROVE  DownloadInv
BY DEF TransferInit, DownloadInv, InFlight, Looked, Failed

\* A download ends as if the hub had answered it in one instant: the handler of
\* the GET (web.rs), which looks for the file, asks for its size and opens it in
\* three steps, response_poster which removes it and a hub that goes down may
\* meet in any order, for any number of builders.
THEOREM DownloadsAreAtomic == TransferSpec => []DownloadIsAtomic
<1>1. DownloadInv => DownloadIsAtomic
  BY DEF DownloadInv, DownloadIsAtomic, Looked
<1>2. DownloadInv /\ [TransferNext]_transferVars => DownloadInv'
  BY DownloadStep
<1>3. TransferInit => DownloadInv
  BY DownloadInitially
<1>4. QED
  BY <1>1, <1>2, <1>3, PTL DEF TransferSpec

-----------------------------------------------------------------------------
(* Paths.                                                                  *)

\* A path is that of its directory and a name.
LEMMA PathParts ==
  ASSUME NEW S, NEW p \in Seq(S), p # << >>
  PROVE  /\ Front(p) \in Seq(S) /\ Last(p) \in S
         /\ p = Append(Front(p), Last(p))
         /\ Len(Front(p)) = Len(p) - 1
         /\ DOMAIN Front(p) = 1 .. Len(p) - 1
         /\ \A i \in 1 .. Len(p) - 1 : Front(p)[i] = p[i]
<1>1. Len(p) \in Nat \ {0} /\ DOMAIN p = 1 .. Len(p)
  OBVIOUS
<1>2. Front(p) = SubSeq(p, 1, Len(p) - 1)
  BY DEF Front
<1>3. Front(p) \in Seq(S) /\ Len(Front(p)) = Len(p) - 1
  BY <1>1, <1>2
<1>4. \A i \in 1 .. Len(p) - 1 : Front(p)[i] = p[i]
  BY <1>1, <1>2
<1>5. Last(p) \in S /\ Last(p) = p[Len(p)]
  BY <1>1 DEF Last
<1> DEFINE f == Front(p)
           x == Last(p)
           m == Len(p)
<1>6. f \in Seq(S) /\ x \in S /\ Len(f) = m - 1 /\ m \in Nat \ {0}
  BY <1>1, <1>3, <1>5
<1> HIDE DEF f, x, m
<1>7. Append(f, x) \in Seq(S) /\ Len(Append(f, x)) = m
  <2>1. Append(f, x) \in Seq(S) /\ Len(Append(f, x)) = Len(f) + 1
    BY <1>6
  <2>2. QED
    BY <1>6, <2>1
<1>8. ASSUME NEW i \in 1 .. m
      PROVE  Append(f, x)[i] = p[i]
  <2>1. f \in Seq(S) /\ Len(f) = m - 1 /\ x = p[m] /\ m \in Nat \ {0}
    BY <1>5, <1>6 DEF x, m
  <2>2. CASE i = m
    BY <2>1, <2>2
  <2>3. CASE i # m
    <3>1. i \in 1 .. m - 1
      BY <2>1, <2>3
    <3>2. Append(f, x)[i] = f[i]
      BY <2>1, <3>1
    <3>3. QED
      BY <1>4, <3>1, <3>2 DEF f, m
  <2>4. QED
    BY <2>2, <2>3
<1>9. p = Append(f, x)
  <2>1. p = [i \in 1 .. m |-> p[i]]
    BY <1>1 DEF m
  <2>2. Append(f, x) = [i \in 1 .. m |-> Append(f, x)[i]]
    <3> DEFINE w == Append(f, x)
    <3>1. w \in Seq(S) /\ Len(w) = m
      BY <1>7
    <3> HIDE DEF w
    <3>2. w = [i \in 1 .. m |-> w[i]]
      BY <3>1
    <3>3. QED
      BY <3>2 DEF w
  <2>3. [i \in 1 .. m |-> p[i]] = [i \in 1 .. m |-> Append(f, x)[i]]
    BY <1>8
  <2>4. QED
    BY <2>1, <2>2, <2>3
<1>10. DOMAIN Front(p) = 1 .. Len(p) - 1
  BY <1>3
<1>11. QED
  BY <1>3, <1>4, <1>5, <1>9, <1>10 DEF f, x

\* A directory and a name make a path, and are its parts.
LEMMA AppendParts ==
  ASSUME NEW S, NEW d \in Seq(S), NEW n \in S
  PROVE  /\ Append(d, n) \in Seq(S) /\ Append(d, n) # << >>
         /\ Front(Append(d, n)) = d /\ Last(Append(d, n)) = n
         /\ Len(Append(d, n)) = Len(d) + 1
<1>1. Append(d, n) \in Seq(S) /\ Len(Append(d, n)) = Len(d) + 1 /\ Len(d) \in Nat
  OBVIOUS
<1>2. Front(Append(d, n)) = d
  BY <1>1 DEF Front
<1>3. Last(Append(d, n)) = n
  BY <1>1 DEF Last
<1>4. QED
  BY <1>1, <1>2, <1>3

\* What is known of the lab and of the texts of names.
LabIs == lab.top \in Seq(Names) \ {<< >>} /\ text \in [Names -> Names]

\* The name of a path in the zip file, below top.
LEMMA ZipPathIs ==
  ASSUME LabIs, NEW p \in Seq(Names)
  PROVE  /\ ZipPath(p) \in Seq(Names)
         /\ Len(ZipPath(p)) = Len(lab.top) + Len(p)
         /\ Len(lab.top) \in Nat \ {0}
         /\ BelowTop(ZipPath(p))
<1> DEFINE q == [i \in DOMAIN p |-> text[p[i]]]
           t == lab.top
<1>1. q \in Seq(Names) /\ Len(q) = Len(p)
  BY DEF LabIs
<1>2. t \in Seq(Names) /\ Len(t) \in Nat \ {0}
  BY DEF LabIs
<1> HIDE DEF q, t
<1>3. t \o q \in Seq(Names) /\ Len(t \o q) = Len(t) + Len(q)
  BY <1>1, <1>2
<1>4. IsPrefix(t, t \o q)
  BY <1>1, <1>2, <1>3 DEF IsPrefix
<1>5. QED
  BY <1>1, <1>2, <1>3, <1>4 DEF ZipPath, BelowTop, q, t

\* The directory of the lab itself is named top.
LEMMA ZipPathOfNone ==
  ASSUME LabIs
  PROVE  ZipPath(<< >>) = lab.top
BY DEF ZipPath, LabIs

\* The directory of the name is the name of the directory.
LEMMA ZipPathFront ==
  ASSUME LabIs, NEW p \in Seq(Names), p # << >>
  PROVE  Front(ZipPath(p)) = ZipPath(Front(p))
<1> DEFINE q == [i \in DOMAIN p |-> text[p[i]]]
           r == [i \in DOMAIN Front(p) |-> text[Front(p)[i]]]
           t == lab.top
<1>1. t \in Seq(Names) /\ q \in Seq(Names) /\ Len(q) = Len(p) /\ q # << >>
  BY DEF LabIs
<1>2. /\ Front(p) \in Seq(Names) /\ Len(Front(p)) = Len(p) - 1
      /\ DOMAIN Front(p) = 1 .. Len(p) - 1
      /\ \A i \in 1 .. Len(p) - 1 : Front(p)[i] = p[i]
  BY PathParts
<1>3. r = Front(q)
  BY <1>2, <1>1 DEF Front, LabIs
<1> HIDE DEF q, r, t
<1>4. Front(t \o q) = t \o Front(q)
  BY <1>1 DEF Front
<1>5. QED
  BY <1>3, <1>4 DEF ZipPath, q, r, t

-----------------------------------------------------------------------------
(* What the archive holds, and where add_to_zip is: Holds and Walks, of any *)
(* entries and of any stack.                                               *)

Frame == [dir : Seq(Names), left : SUBSET Names]
TopEntry == [path |-> lab.top, kind |-> "dir"]
EntryOf(p) == [path |-> ZipPath(p), kind |-> tree[p]]

\* Two entries have the same name, with its slash if any.
SameName(e, f) == e.path = f.path /\ (e.kind = "dir" <=> f.kind = "dir")

HasParent(a, i) ==
  \/ Len(a[i].path) = 1
  \/ \E j \in 1 .. i - 1 : a[j].path = Front(a[i].path) /\ a[j].kind = "dir"

HoldsIn(V, a) ==
  /\ a # << >> /\ a[1] = TopEntry
  /\ \A i \in 2 .. Len(a) : (\E p \in V : a[i] = EntryOf(p)) /\ HasParent(a, i)
  /\ \A p \in V : \E i \in 2 .. Len(a) : a[i] = EntryOf(p)
  /\ \A i, j \in DOMAIN a : SameName(a[i], a[j]) => i = j

FramesOf(V, s) ==
  \A k \in DOMAIN s :
    /\ Len(s[k].dir) = k - 1
    /\ k > 1 => s[k].dir \in V /\ tree[s[k].dir] = "dir"
    /\ s[k].left \subseteq ChildrenOf(s[k].dir)
    /\ \A n \in s[k].left : Append(s[k].dir, n) \notin V

WalksIn(V, s) ==
  /\ \A p \in V : Len(p) > 1 => Front(p) \in V
  /\ FramesOf(V, s)
  /\ \A p \in Kept \ V :
       Len(p) = 1 \/ Front(p) \in V =>
         \E k \in DOMAIN s : s[k].dir = Front(p) /\ Last(p) \in s[k].left

\* Holds is about the archive...
LEMMA HoldsIs == ASSUME NEW V PROVE Holds(V) <=> HoldsIn(V, archive)
BY DEF Holds, HoldsIn, TopEntry, EntryOf, DirectoryBefore, HasParent, SameName

\* ... and Walks about the stack.
LEMMA WalksIs == ASSUME NEW V PROVE Walks(V) <=> WalksIn(V, stack)
BY DEF Walks, WalksIn, FramesOf

\* Zipping and unzipping change neither the lab nor its directory.
LEMMA HoldsNext ==
  ASSUME UNCHANGED input, NEW V
  PROVE  Holds(V)' <=> HoldsIn(V, archive')
BY DEF input, Holds, HoldsIn, TopEntry, EntryOf, DirectoryBefore, HasParent, SameName, ZipPath

\* The same of the stack.
LEMMA WalksNext ==
  ASSUME UNCHANGED input, NEW V
  PROVE  Walks(V)' <=> WalksIn(V, stack')
BY DEF input, Walks, WalksIn, FramesOf, Kept, ChildrenOf

\* Nor do they change what is read from the lab and from its directory.
LEMMA InputNext ==
  ASSUME UNCHANGED input
  PROVE  /\ Kept' = Kept
         /\ Triggered' <=> Triggered
         /\ \A p : ZipPath(p)' = ZipPath(p)
BY DEF input, Kept, Triggered, ZipPath

\* The entry of a path, whose directory is there already and whose name is new.
LEMMA HoldsMore ==
  ASSUME LabIs, NEW V, NEW a \in Seq(Entry), HoldsIn(V, a),
         NEW p \in Seq(Names), p # << >>, EntryOf(p) \in Entry,
         \E j \in 1 .. Len(a) : a[j].path = ZipPath(Front(p)) /\ a[j].kind = "dir",
         \A i \in DOMAIN a : a[i].path = ZipPath(p) => (a[i].kind = "dir" <=> tree[p] # "dir")
  PROVE  HoldsIn(V \cup {p}, Append(a, EntryOf(p)))
<1> DEFINE e == EntryOf(p)
           b == Append(a, e)
           m == Len(a)
<1>1. e.path = ZipPath(p) /\ e.kind = tree[p]
  BY DEF EntryOf
<1>2. /\ b \in Seq(Entry) /\ m \in Nat /\ Len(b) = m + 1
      /\ DOMAIN a = 1 .. m /\ DOMAIN b = 1 .. m + 1
      /\ \A i \in 1 .. m : b[i] = a[i]
      /\ b[m + 1] = e
  BY AppendIs
<1>3. a # << >> /\ a[1] = TopEntry /\ 1 \in 1 .. m
  BY <1>2 DEF HoldsIn
<1>4. ASSUME NEW i \in 1 .. m
      PROVE  ~SameName(a[i], e)
  BY <1>1, <1>2 DEF SameName
<1>5. HasParent(b, m + 1)
  <2>1. PICK j \in 1 .. m : a[j].path = ZipPath(Front(p)) /\ a[j].kind = "dir"
    OBVIOUS
  <2>2. b[j].path = Front(b[m + 1].path) /\ b[j].kind = "dir"
    BY <1>1, <1>2, <2>1, ZipPathFront
  <2>3. j \in 1 .. (m + 1) - 1
    BY <1>2
  <2> HIDE DEF b
  <2>4. QED
    BY <2>2, <2>3 DEF HasParent
<1> HIDE DEF b, m, e
<1>6. ASSUME NEW i \in 1 .. m, HasParent(a, i)
      PROVE  HasParent(b, i)
  BY <1>2, <1>6 DEF HasParent
<1>7. b # << >> /\ b[1] = TopEntry
  BY <1>2, <1>3
<1>8. ASSUME NEW i \in 2 .. Len(b)
      PROVE  (\E q \in V \cup {p} : b[i] = EntryOf(q)) /\ HasParent(b, i)
  <2>1. CASE i = m + 1
    BY <1>2, <1>5, <2>1 DEF e
  <2>2. CASE i # m + 1
    <3>1. i \in 2 .. m /\ i \in 1 .. m /\ b[i] = a[i]
      BY <1>2, <2>2
    <3>2. (\E q \in V : a[i] = EntryOf(q)) /\ HasParent(a, i)
      BY <3>1 DEF HoldsIn, m
    <3>3. QED
      BY <1>6, <3>1, <3>2
  <2>3. QED
    BY <2>1, <2>2
<1>9. ASSUME NEW q \in V \cup {p}
      PROVE  \E i \in 2 .. Len(b) : b[i] = EntryOf(q)
  <2>1. CASE q = p
    <3>1. m + 1 \in 2 .. Len(b)
      BY <1>2, <1>3
    <3>2. QED
      BY <1>2, <2>1, <3>1 DEF e
  <2>2. CASE q \in V
    <3>1. PICK i \in 2 .. m : a[i] = EntryOf(q)
      BY <2>2 DEF HoldsIn, m
    <3>2. i \in 2 .. Len(b) /\ b[i] = a[i]
      BY <1>2
    <3>3. QED
      BY <3>1, <3>2
  <2>3. QED
    BY <2>1, <2>2
<1>10. ASSUME NEW i \in DOMAIN b, NEW j \in DOMAIN b, SameName(b[i], b[j])
       PROVE  i = j
  <2>1. CASE i \in 1 .. m /\ j \in 1 .. m
    <3>1. SameName(a[i], a[j])
      BY <1>2, <1>10, <2>1
    <3>2. QED
      BY <1>2, <2>1, <3>1 DEF HoldsIn
  <2>2. CASE i = m + 1 /\ j \in 1 .. m
    BY <1>2, <1>4, <1>10, <2>2 DEF SameName
  <2>3. CASE i \in 1 .. m /\ j = m + 1
    BY <1>2, <1>4, <1>10, <2>3
  <2>4. QED
    BY <1>2, <2>1, <2>2, <2>3
<1>11. HoldsIn(V \cup {p}, b)
  BY <1>7, <1>8, <1>9, <1>10 DEF HoldsIn
<1>12. QED
  BY <1>11 DEF b, e

\* The stack when n is no more left in the last directory of it.
RestOf(s, n) == Append(Front(s), [dir |-> Last(s).dir, left |-> Last(s).left \ {n}])

\* The stack, when one name has been taken from its last directory.
LEMMA RestIs ==
  ASSUME NEW s \in Seq(Frame), s # << >>, NEW n
  PROVE  /\ RestOf(s, n) \in Seq(Frame)
         /\ DOMAIN RestOf(s, n) = DOMAIN s /\ DOMAIN s = 1 .. Len(s) /\ Len(s) \in Nat \ {0}
         /\ \A k \in 1 .. Len(s) - 1 : RestOf(s, n)[k] = s[k]
         /\ RestOf(s, n)[Len(s)].dir = Last(s).dir
         /\ RestOf(s, n)[Len(s)].left = Last(s).left \ {n}
         /\ Last(s) = s[Len(s)] /\ Last(s) \in Frame
<1> DEFINE m == Len(s)
           f == Front(s)
           x == [dir |-> Last(s).dir, left |-> Last(s).left \ {n}]
<1>1. /\ f \in Seq(Frame) /\ Len(f) = m - 1 /\ m \in Nat \ {0} /\ DOMAIN s = 1 .. m
      /\ \A k \in 1 .. m - 1 : f[k] = s[k]
  BY PathParts
<1>2. Last(s) = s[m] /\ Last(s) \in Frame
  BY <1>1, PathParts DEF Last
<1>3. x \in Frame /\ x.dir = Last(s).dir /\ x.left = Last(s).left \ {n}
  BY <1>2 DEF Frame
<1> HIDE DEF m, f, x
<1>4. /\ Append(f, x) \in Seq(Frame) /\ Len(Append(f, x)) = Len(f) + 1
      /\ DOMAIN Append(f, x) = 1 .. Len(f) + 1
      /\ \A k \in 1 .. Len(f) : Append(f, x)[k] = f[k]
      /\ Append(f, x)[Len(f) + 1] = x
  BY <1>1, <1>3, AppendIs
<1>5. Len(f) + 1 = m
  BY <1>1
<1>6. RestOf(s, n) = Append(f, x)
  BY DEF RestOf, f, x
<1>7. QED
  BY <1>1, <1>2, <1>3, <1>4, <1>5, <1>6 DEF m

\* The paths of the tree: those of some names, each in a directory.
TreeIs ==
  \A p \in DOMAIN tree :
    /\ p \in Seq(Names) /\ p # << >>
    /\ tree[p] \in Kinds
    /\ Len(p) > 1 => Front(p) \in DOMAIN tree /\ tree[Front(p)] = "dir"

\* The path of what is left in the last directory of the stack is one of the
\* tree, and is not in the archive.
LEMMA PathOfLeft ==
  ASSUME TreeIs, NEW V \in SUBSET Kept, NEW s \in Seq(Frame), s # << >>, WalksIn(V, s),
         NEW n \in Last(s).left
  PROVE  LET path == Append(Last(s).dir, n) IN
           /\ path \in DOMAIN tree /\ path \in Seq(Names) /\ path # << >>
           /\ path \notin V
           /\ n \in Names /\ Last(s).dir \in Seq(Names)
           /\ Front(path) = Last(s).dir
           /\ Len(path) = Len(s) /\ Len(Last(s).dir) = Len(s) - 1
           /\ Len(path) > 1 => Front(path) \in V /\ tree[Front(path)] = "dir"
<1> DEFINE d == Last(s).dir
           path == Append(d, n)
           K == Len(s)
<1>1. Last(s) = s[K] /\ Last(s) \in Frame /\ K \in DOMAIN s /\ K \in Nat \ {0}
  BY RestIs
<1>2. d \in Seq(Names) /\ n \in Names
  BY <1>1 DEF Frame
<1>3. FramesOf(V, s)
  BY DEF WalksIn
<1>4. /\ Len(d) = K - 1
      /\ K > 1 => d \in V /\ tree[d] = "dir"
      /\ n \in ChildrenOf(d)
      /\ path \notin V
  BY <1>1, <1>3 DEF FramesOf
<1>5. /\ path \in Seq(Names) /\ path # << >> /\ Front(path) = d /\ Len(path) = Len(d) + 1
  BY <1>2, AppendParts
<1>6. path \in DOMAIN tree
  BY <1>4 DEF ChildrenOf
<1>7. Len(path) = K
  BY <1>1, <1>4, <1>5
<1> HIDE DEF d, path, K
<1>8. QED
  BY <1>2, <1>4, <1>5, <1>6, <1>7 DEF d, path, K

\* When it is done with, or added to the archive, the other frames stay.
LEMMA FramesKept ==
  ASSUME TreeIs, NEW V \in SUBSET Kept, NEW s \in Seq(Frame), s # << >>, WalksIn(V, s),
         NEW n \in Last(s).left, NEW U,
         V \subseteq U, U \subseteq V \cup {Append(Last(s).dir, n)}
  PROVE  /\ FramesOf(U, RestOf(s, n))
         /\ \A p \in Kept \ V :
              p # Append(Last(s).dir, n) /\ (Len(p) = 1 \/ Front(p) \in V) =>
                \E k \in DOMAIN s : /\ RestOf(s, n)[k].dir = Front(p)
                                    /\ Last(p) \in RestOf(s, n)[k].left
<1> DEFINE d == Last(s).dir
           path == Append(d, n)
           K == Len(s)
           r == RestOf(s, n)
<1>1. /\ r \in Seq(Frame) /\ DOMAIN r = 1 .. K /\ DOMAIN s = 1 .. K /\ K \in Nat \ {0}
      /\ \A k \in 1 .. K - 1 : r[k] = s[k]
      /\ r[K].dir = d /\ r[K].left = Last(s).left \ {n}
      /\ Last(s) = s[K]
  BY RestIs
<1>2. /\ path \in Seq(Names) /\ Front(path) = d /\ Last(path) = n
      /\ d \in Seq(Names) /\ n \in Names /\ Len(d) = K - 1
  <2>1. /\ path \in Seq(Names) /\ Front(path) = d
        /\ d \in Seq(Names) /\ n \in Names /\ Len(d) = K - 1
    BY PathOfLeft
  <2>2. QED
    BY <2>1, AppendParts
<1>3. ASSUME NEW k \in 1 .. K
      PROVE  s[k].dir \in Seq(Names) /\ s[k].left \subseteq Names
  <2>1. s[k] \in Frame
    BY <1>1
  <2>2. QED
    BY <2>1 DEF Frame
<1>4. FramesOf(V, s)
  BY DEF WalksIn
<1> HIDE DEF K, r
<1>5. ASSUME NEW k \in 1 .. K
      PROVE  /\ r[k].dir = s[k].dir /\ r[k].left \subseteq s[k].left
             /\ \A m \in r[k].left : Append(r[k].dir, m) # path
  <2>1. CASE k = K
    <3>1. r[k].dir = s[k].dir /\ r[k].left = s[k].left \ {n}
      BY <1>1, <2>1
    <3>2. ASSUME NEW m \in r[k].left
          PROVE  Append(r[k].dir, m) # path
      <4>1. m \in Names /\ m # n /\ r[k].dir \in Seq(Names)
        BY <1>3, <3>1
      <4>2. Last(Append(r[k].dir, m)) = m
        BY <4>1, AppendParts
      <4>3. QED
        BY <1>2, <4>1, <4>2
    <3>3. QED
      BY <3>1, <3>2
  <2>2. CASE k # K
    <3>1. k \in 1 .. K - 1
      BY <1>1, <2>2
    <3>2. r[k] = s[k]
      BY <1>1, <3>1
    <3>3. ASSUME NEW m \in r[k].left
          PROVE  Append(r[k].dir, m) # path
      <4>1. m \in Names /\ r[k].dir \in Seq(Names)
        BY <1>3, <3>2
      <4>2. Front(Append(r[k].dir, m)) = r[k].dir
        BY <4>1, AppendParts
      <4>3. Len(r[k].dir) = k - 1
        BY <1>1, <1>4, <3>2 DEF FramesOf
      <4>4. r[k].dir # d
        BY <1>1, <1>2, <2>2, <4>3
      <4>5. QED
        BY <1>2, <4>2, <4>4
    <3>4. QED
      BY <3>2, <3>3
  <2>3. QED
    BY <2>1, <2>2
<1>6. ASSUME NEW k \in DOMAIN r
      PROVE  /\ Len(r[k].dir) = k - 1
             /\ k > 1 => r[k].dir \in U /\ tree[r[k].dir] = "dir"
             /\ r[k].left \subseteq ChildrenOf(r[k].dir)
             /\ \A m \in r[k].left : Append(r[k].dir, m) \notin U
  <2>1. k \in DOMAIN s /\ k \in 1 .. K
    BY <1>1
  <2>2. /\ Len(s[k].dir) = k - 1
        /\ k > 1 => s[k].dir \in V /\ tree[s[k].dir] = "dir"
        /\ s[k].left \subseteq ChildrenOf(s[k].dir)
        /\ \A m \in s[k].left : Append(s[k].dir, m) \notin V
    BY <1>4, <2>1 DEF FramesOf
  <2>3. ASSUME NEW m \in r[k].left
        PROVE  Append(r[k].dir, m) \notin U
    BY <1>5, <2>1, <2>2
  <2>4. QED
    BY <1>5, <2>1, <2>2, <2>3
<1>7. ASSUME NEW p \in Kept \ V, p # path, Len(p) = 1 \/ Front(p) \in V
      PROVE  \E k \in DOMAIN s : r[k].dir = Front(p) /\ Last(p) \in r[k].left
  <2>1. PICK k \in DOMAIN s : s[k].dir = Front(p) /\ Last(p) \in s[k].left
    BY <1>7 DEF WalksIn
  <2>2. CASE k = K
    <3>1. p \in Seq(Names) /\ p # << >>
      BY DEF TreeIs, Kept
    <3>2. p = Append(Front(p), Last(p))
      BY <3>1, PathParts
    <3>3. Last(p) # n
      BY <1>1, <1>7, <2>1, <2>2, <3>2
    <3>4. QED
      BY <1>1, <2>1, <2>2, <3>3
  <2>3. CASE k # K
    <3>1. k \in 1 .. K - 1
      BY <1>1, <2>3
    <3>2. QED
      BY <1>1, <2>1, <3>1
  <2>4. QED
    BY <2>2, <2>3
<1>8. FramesOf(U, r)
  BY <1>6 DEF FramesOf
<1>9. QED
  BY <1>7, <1>8 DEF r

\* A path that is no directory is done with.
LEMMA WalksPast ==
  ASSUME TreeIs, NEW V \in SUBSET Kept, NEW s \in Seq(Frame), s # << >>, WalksIn(V, s),
         NEW n \in Last(s).left, NEW U,
         LET path == Append(Last(s).dir, n) IN
           /\ tree[path] # "dir"
           /\ U = IF path \in Kept THEN V \cup {path} ELSE V
  PROVE  WalksIn(U, RestOf(s, n))
<1> DEFINE path == Append(Last(s).dir, n)
           r == RestOf(s, n)
<1>1. V \subseteq U /\ U \subseteq V \cup {path} /\ (path \in Kept => path \in U)
  OBVIOUS
<1>2. /\ path \in DOMAIN tree
      /\ Len(path) > 1 => Front(path) \in V
  BY PathOfLeft
<1>3. DOMAIN r = DOMAIN s
  BY RestIs
<1>4. tree[path] # "dir"
  OBVIOUS
<1> HIDE DEF path, r
<1>5. /\ FramesOf(U, r)
      /\ \A p \in Kept \ V :
           p # path /\ (Len(p) = 1 \/ Front(p) \in V) =>
             \E k \in DOMAIN s : r[k].dir = Front(p) /\ Last(p) \in r[k].left
  BY <1>1, FramesKept DEF path, r
<1>6. ASSUME NEW p \in U, Len(p) > 1
      PROVE  Front(p) \in U
  <2>1. CASE p \in V
    BY <1>1, <1>6, <2>1 DEF WalksIn
  <2>2. CASE p = path
    BY <1>1, <1>2, <1>6, <2>2
  <2>3. QED
    BY <1>1, <2>1, <2>2
<1>7. ASSUME NEW p \in Kept \ U, Len(p) = 1 \/ Front(p) \in U
      PROVE  \E k \in DOMAIN r : r[k].dir = Front(p) /\ Last(p) \in r[k].left
  <2>1. p \in Kept \ V /\ p # path
    BY <1>1
  <2>2. Len(p) = 1 \/ Front(p) \in V
    <3>1. SUFFICES ASSUME Len(p) # 1, Front(p) = path PROVE FALSE
      BY <1>1, <1>7
    <3>2. p \in Seq(Names) /\ p # << >> /\ p \in DOMAIN tree
      BY DEF TreeIs, Kept
    <3>3. Len(p) > 1
      <4> DEFINE l == Len(p)
      <4>1. l \in Nat \ {0} /\ l # 1
        BY <3>1, <3>2
      <4> HIDE DEF l
      <4>2. l > 1
        BY <4>1
      <4>3. QED
        BY <4>2 DEF l
    <3>4. tree[Front(p)] = "dir"
      BY <3>2, <3>3 DEF TreeIs
    <3>5. QED
      BY <1>4, <3>1, <3>4
  <2>3. QED
    BY <1>3, <1>5, <2>1, <2>2
<1>8. WalksIn(U, r)
  BY <1>5, <1>6, <1>7 DEF WalksIn
<1>9. QED
  BY <1>8 DEF r

\* A directory is entered.
LEMMA WalksDown ==
  ASSUME TreeIs, NEW V \in SUBSET Kept, NEW s \in Seq(Frame), s # << >>, WalksIn(V, s),
         NEW n \in Last(s).left,
         tree[Append(Last(s).dir, n)] = "dir"
  PROVE  LET path == Append(Last(s).dir, n) IN
           WalksIn(V \cup {path},
                   Append(RestOf(s, n), [dir |-> path, left |-> ChildrenOf(path)]))
<1> DEFINE path == Append(Last(s).dir, n)
           r == RestOf(s, n)
           x == [dir |-> path, left |-> ChildrenOf(path)]
           t == Append(r, x)
           U == V \cup {path}
           K == Len(s)
<1>1. /\ path \in DOMAIN tree /\ path \in Seq(Names) /\ path # << >> /\ path \notin V
      /\ Len(path) = K
      /\ Len(path) > 1 => Front(path) \in V
  BY PathOfLeft
<1>2. tree[path] = "dir"
  OBVIOUS
<1>3. x \in Frame /\ x.dir = path /\ x.left = ChildrenOf(path)
  BY <1>1 DEF Frame, ChildrenOf
<1>4. r \in Seq(Frame) /\ DOMAIN r = 1 .. K /\ DOMAIN s = 1 .. K /\ K \in Nat \ {0}
  BY RestIs
<1> HIDE DEF path, r, x, K
<1>5. Len(r) = K
  BY <1>4
<1>6. /\ DOMAIN t = 1 .. K + 1 /\ \A k \in 1 .. K : t[k] = r[k]
      /\ t[K + 1] = x
  BY <1>3, <1>4, <1>5, AppendIs
<1>7. /\ FramesOf(U, r)
      /\ \A p \in Kept \ V :
           p # path /\ (Len(p) = 1 \/ Front(p) \in V) =>
             \E k \in DOMAIN s : r[k].dir = Front(p) /\ Last(p) \in r[k].left
  <2>1. V \subseteq U /\ U \subseteq V \cup {path}
    OBVIOUS
  <2> HIDE DEF U
  <2>2. QED
    BY <2>1, FramesKept DEF path, r
<1>8. ASSUME NEW p \in U, Len(p) > 1
      PROVE  Front(p) \in U
  <2>1. CASE p \in V
    BY <1>8, <2>1 DEF WalksIn
  <2>2. CASE p = path
    BY <1>1, <1>8, <2>2
  <2>3. QED
    BY <2>1, <2>2
<1>9. ASSUME NEW m \in ChildrenOf(path)
      PROVE  Append(path, m) \notin U
  <2>1. SUFFICES ASSUME Append(path, m) \in U PROVE FALSE
    OBVIOUS
  <2>2. m \in Names
    BY DEF ChildrenOf
  <2>3. Front(Append(path, m)) = path /\ Len(Append(path, m)) = K + 1
    BY <1>1, <2>2, AppendParts
  <2>4. Append(path, m) # path
    BY <1>1, <1>4, <2>3
  <2>5. Append(path, m) \in V /\ Len(Append(path, m)) > 1
    BY <1>4, <2>1, <2>3, <2>4
  <2>6. path \in V
    BY <2>3, <2>5 DEF WalksIn
  <2>7. QED
    BY <1>1, <2>6
<1>10. ASSUME NEW k \in DOMAIN t
       PROVE  /\ Len(t[k].dir) = k - 1
              /\ k > 1 => t[k].dir \in U /\ tree[t[k].dir] = "dir"
              /\ t[k].left \subseteq ChildrenOf(t[k].dir)
              /\ \A m \in t[k].left : Append(t[k].dir, m) \notin U
  <2>1. CASE k = K + 1
    <3>1. t[k].dir = path /\ t[k].left = ChildrenOf(path)
      BY <1>3, <1>6, <2>1
    <3>2. Len(path) = k - 1
      BY <1>1, <1>4, <2>1
    <3> HIDE DEF t
    <3>3. QED
      BY <1>2, <1>9, <3>1, <3>2
  <2>2. CASE k # K + 1
    <3>1. k \in 1 .. K /\ k \in DOMAIN r /\ t[k] = r[k]
      BY <1>4, <1>6, <2>2
    <3> HIDE DEF t, U
    <3>2. QED
      BY <1>7, <3>1 DEF FramesOf
  <2>3. QED
    BY <2>1, <2>2
<1>11. ASSUME NEW p \in Kept \ U, Len(p) = 1 \/ Front(p) \in U
       PROVE  \E k \in DOMAIN t : t[k].dir = Front(p) /\ Last(p) \in t[k].left
  <2>1. CASE Len(p) = 1 \/ Front(p) \in V
    <3>1. PICK k \in DOMAIN s : r[k].dir = Front(p) /\ Last(p) \in r[k].left
      BY <1>7, <2>1
    <3>2. k \in DOMAIN t /\ t[k] = r[k]
      BY <1>4, <1>6
    <3>3. QED
      BY <3>1, <3>2
  <2>2. CASE Front(p) = path
    <3>1. p \in Seq(Names) /\ p # << >> /\ p \in DOMAIN tree
      BY DEF TreeIs, Kept
    <3>2. p = Append(path, Last(p)) /\ Last(p) \in Names
      BY <2>2, <3>1, PathParts
    <3>3. Last(p) \in ChildrenOf(path)
      BY <3>1, <3>2 DEF ChildrenOf
    <3>4. K + 1 \in DOMAIN t /\ t[K + 1].dir = path /\ t[K + 1].left = ChildrenOf(path)
      BY <1>3, <1>4, <1>6
    <3>5. QED
      BY <2>2, <3>3, <3>4
  <2>3. QED
    BY <1>11, <2>1, <2>2
<1>12. WalksIn(U, t)
  <2> HIDE DEF U, t
  <2>1. FramesOf(U, t)
    BY <1>10 DEF FramesOf
  <2>2. QED
    BY <1>8, <1>11, <2>1 DEF WalksIn
<1>13. QED
  BY <1>12 DEF path, r, x

\* A directory that has nothing left is left.
LEMMA WalksUp ==
  ASSUME NEW V, NEW s \in Seq(Frame), s # << >>, WalksIn(V, s), Last(s).left = {}
  PROVE  WalksIn(V, Front(s))
<1> DEFINE K == Len(s)
           f == Front(s)
<1>1. /\ DOMAIN f = 1 .. K - 1 /\ DOMAIN s = 1 .. K /\ K \in Nat \ {0}
      /\ \A k \in 1 .. K - 1 : f[k] = s[k]
  BY PathParts
<1>2. s[K].left = {}
  BY DEF Last
<1> HIDE DEF f, K
<1>3. FramesOf(V, f)
  BY <1>1 DEF WalksIn, FramesOf
<1>4. ASSUME NEW p \in Kept \ V, Len(p) = 1 \/ Front(p) \in V
      PROVE  \E k \in DOMAIN f : f[k].dir = Front(p) /\ Last(p) \in f[k].left
  <2>1. PICK k \in DOMAIN s : s[k].dir = Front(p) /\ Last(p) \in s[k].left
    BY <1>4 DEF WalksIn
  <2>2. k # K
    BY <1>2, <2>1
  <2>3. k \in DOMAIN f /\ f[k] = s[k]
    BY <1>1, <2>2
  <2>4. QED
    BY <2>1, <2>3
<1>5. WalksIn(V, f)
  BY <1>3, <1>4 DEF WalksIn
<1>6. QED
  BY <1>5 DEF f

\* When add_to_zip has left every directory, nothing is left to add: a shortest
\* path that is not in the archive would be left in the directory it is in.
LEMMA WalkEnds ==
  ASSUME TreeIs, NEW V \in SUBSET Kept, WalksIn(V, << >>)
  PROVE  V = Kept
<1> DEFINE T == {Len(p) : p \in Kept \ V}
<1>1. \A p \in Kept : p \in Seq(Names) /\ p # << >> /\ p \in DOMAIN tree
  BY DEF TreeIs, Kept
<1>2. T \subseteq Nat
  BY <1>1
<1>3. SUFFICES ASSUME T # {} PROVE FALSE
  OBVIOUS
<1>4. PICK l \in T : \A k \in T : l <= k
  BY <1>2, <1>3, LeastOf
<1>5. PICK p \in Kept \ V : l = Len(p)
  OBVIOUS
<1>6. ~(Len(p) = 1 \/ Front(p) \in V)
  BY DEF WalksIn
<1>7. /\ Len(p) \in Nat \ {0} /\ Len(p) > 1
      /\ Len(Front(p)) = Len(p) - 1
  <2> DEFINE m == Len(p)
  <2>1. m \in Nat \ {0} /\ m # 1
    BY <1>1, <1>6
  <2>2. Len(Front(p)) = m - 1
    BY <1>1, PathParts
  <2> HIDE DEF m
  <2>3. m > 1
    BY <2>1
  <2>4. QED
    BY <2>1, <2>2, <2>3 DEF m
<1>8. Front(p) \in Kept
  BY <1>1, <1>7 DEF TreeIs, Kept
<1>9. Len(Front(p)) \in T
  BY <1>6, <1>8
<1>10. Len(p) <= Len(Front(p))
  BY <1>4, <1>5, <1>9
<1>11. QED
  BY <1>7, <1>10

-----------------------------------------------------------------------------
(* Zipping.                                                                *)

\* The paths of the bounded trees are paths.
LEMMA PathsArePaths ==
  ASSUME NEW p \in Paths
  PROVE  p \in Seq(Names) /\ p # << >>
<1>1. PICK k \in 1 .. MaxDepth : p \in [1 .. k -> Names]
  BY DEF Paths
<1>2. k \in Nat \ {0}
  BY ArchiveAssumption DEF ArchiveAssumption
<1>3. QED
  BY <1>1, <1>2

\* What the types and the invariant say of the input.
LEMMA Typed ==
  ASSUME ArchiveTypeOK, ArchiveInv
  PROVE  /\ LabIs /\ TreeIs
         /\ stack \in Seq(Frame) /\ archive \in Seq(Entry)
         /\ next \in 1 .. Len(archive) + 1
<1>1. LabIs
  BY ArchiveAssumption DEF ArchiveAssumption, ArchiveTypeOK, LabIs
<1>2. TreeIs
  BY PathsArePaths DEF ArchiveTypeOK, ArchiveInv, TreeIs
<1>3. QED
  BY <1>1, <1>2 DEF ArchiveTypeOK, Frame

\* What a step that keeps the input has to keep of the invariant.
LEMMA InvNext ==
  ASSUME ArchiveInv, UNCHANGED input,
         step' \in {"look", "none"} => archive' = << >> /\ stack' = << >>,
         step' = "zip" =>
           Triggered /\ \E V \in SUBSET Kept : HoldsIn(V, archive') /\ WalksIn(V, stack'),
         step' \in {"look", "none", "zip", "zipFailed"} => next' = 1,
         step' \in {"unzip", "unzipFailed", "unzipped"} =>
           archive' \in Foreign \/ (Triggered /\ HoldsIn(Kept, archive')),
         \/ damaged = {}
         \/ archive' = archive /\ step' \in {"unzip", "unzipFailed", "unzipped"},
         step' = "zipFailed" =>
           \/ full'
           \/ \E p \in DOMAIN tree : tree[p] = "broken"
           \/ \E p, q \in Kept : /\ p # q /\ ZipPath(p) = ZipPath(q)
                                 /\ tree[p] = "dir" <=> tree[q] = "dir",
         Unpacks'
  PROVE  ArchiveInv'
<1>1. tree' = tree /\ Kept' = Kept /\ (Triggered' <=> Triggered)
  BY InputNext DEF input
<1>2. \A p : ZipPath(p)' = ZipPath(p)
  BY InputNext
<1>3. ZipFailureHasCause'
  BY <1>1, <1>2 DEF ZipFailureHasCause
<1>4. (step = "zip" => Triggered /\ \E V \in SUBSET Kept : Holds(V) /\ Walks(V))'
  <2>1. SUFFICES ASSUME step' = "zip"
                 PROVE  Triggered' /\ \E V \in SUBSET Kept' : Holds(V)' /\ Walks(V)'
    OBVIOUS
  <2>2. QED
    BY <1>1, <2>1, HoldsNext, WalksNext
<1>5. (step \in {"unzip", "unzipFailed", "unzipped"} =>
         archive \in Foreign \/ (Triggered /\ Holds(Kept)))'
  <2>1. Holds(Kept)' <=> HoldsIn(Kept, archive')
    BY <1>1 DEF input, Holds, HoldsIn, TopEntry, EntryOf, DirectoryBefore, HasParent, SameName, ZipPath
  <2>2. QED
    BY <1>1, <2>1
<1>6. (\A p \in DOMAIN tree :
         Len(p) > 1 => Front(p) \in DOMAIN tree /\ tree[Front(p)] = "dir")'
  BY <1>1 DEF ArchiveInv
<1>7. (damaged # {} =>
         step \in {"unzip", "unzipFailed", "unzipped"} /\ archive \in Foreign)'
  BY DEF ArchiveInv, input
<1>8. QED
  BY <1>3, <1>4, <1>5, <1>6, <1>7 DEF ArchiveInv

\* Nothing is unzipped yet.
LEMMA UnpacksNothing ==
  ASSUME Unpacks, next = 1, UNCHANGED <<next, out>>, step' \notin {"unzipFailed", "unzipped"}
  PROVE  Unpacks'
<1>1. DOMAIN out = {}
  BY DEF Unpacks
<1>2. DOMAIN out' = {} /\ next' = 1 /\ 1 .. next' - 1 = {}
  BY <1>1
<1>3. QED
  BY <1>2 DEF Unpacks

\* A step of the packaging keeps the types.
LEMMA PackageKeepsTypes ==
  ASSUME ArchiveTypeOK, UNCHANGED <<input, next, out>>, next = 1, damaged = {},
         step' \in {"look", "zip", "unzip", "none", "zipFailed"},
         stack' \in Seq(Frame), archive' \in Seq(Entry),
         whole' \in BOOLEAN, full' \in BOOLEAN
  PROVE  ArchiveTypeOK'
<1>1. next' \in 1 .. Len(archive') + 1
  <2>1. Len(archive') \in Nat
    OBVIOUS
  <2>2. QED
    BY <2>1
<1>2. lab' = lab /\ text' = text /\ tree' = tree /\ damaged' = {} /\ out' = out
  BY DEF input
<1>3. stack' \in Seq([dir : Seq(Names), left : SUBSET Names])
  BY DEF Frame
<1>4. QED
  BY <1>1, <1>2, <1>3 DEF ArchiveTypeOK

\* The first entry is top, and all that the directory holds is left to add.
LEMMA LookKeepsInv ==
  ASSUME ArchiveTypeOK, ArchiveInv, Look
  PROVE  ArchiveTypeOK' /\ ArchiveInv'
<1>1. /\ step = "look" /\ archive = << >> /\ stack = << >> /\ next = 1 /\ damaged = {}
      /\ UNCHANGED <<input, whole, full, next, out>>
      /\ whole \in BOOLEAN /\ full \in BOOLEAN
      /\ LabIs /\ TreeIs
  BY Typed DEF Look, ArchiveInv, ArchiveTypeOK
<1>2. CASE Triggered
  <2> DEFINE x == [dir |-> << >>, left |-> ChildrenOf(<< >>)]
  <2>1. step' = "zip" /\ archive' = <<TopEntry>> /\ stack' = <<x>>
    BY <1>1, <1>2 DEF Look, Add, TopEntry
  <2>2. x \in Frame /\ x.dir = << >> /\ x.left = ChildrenOf(<< >>)
    BY DEF Frame, ChildrenOf
  <2>3. TopEntry \in Entry
    BY <1>1 DEF TopEntry, Entry, LabIs
  <2> HIDE DEF x
  <2>4. ArchiveTypeOK'
    BY <1>1, <2>1, <2>2, <2>3, PackageKeepsTypes
  <2>5. HoldsIn({}, archive')
    BY <2>1 DEF HoldsIn
  <2>6. WalksIn({}, stack')
    <3>1. FramesOf({}, <<x>>)
      BY <2>2 DEF FramesOf
    <3>2. ASSUME NEW p \in Kept, Len(p) = 1
          PROVE  <<x>>[1].dir = Front(p) /\ Last(p) \in <<x>>[1].left
      <4>1. p \in DOMAIN tree /\ p \in Seq(Names) /\ p # << >>
        BY <1>1 DEF Kept, TreeIs
      <4>2. /\ Front(p) \in Seq(Names) /\ Len(Front(p)) = 0 /\ Last(p) \in Names
            /\ p = Append(Front(p), Last(p))
        BY <3>2, <4>1, PathParts
      <4>3. Front(p) = << >>
        BY <4>2
      <4>4. Append(<< >>, Last(p)) \in DOMAIN tree
        BY <4>1, <4>2, <4>3
      <4>5. QED
        BY <2>2, <4>2, <4>3, <4>4 DEF ChildrenOf
    <3>3. QED
      BY <2>1, <3>1, <3>2 DEF WalksIn
  <2>7. Unpacks'
    BY <1>1, <2>1, UnpacksNothing DEF ArchiveInv
  <2>8. \E V \in SUBSET Kept : HoldsIn(V, archive') /\ WalksIn(V, stack')
    BY <2>5, <2>6
  <2>9. ArchiveInv'
    BY <1>1, <1>2, <2>1, <2>7, <2>8, InvNext
  <2>10. QED
    BY <2>4, <2>9
<1>3. CASE ~Triggered
  <2>1. step' = "none" /\ UNCHANGED <<archive, stack>>
    BY <1>1, <1>3 DEF Look
  <2>2. ArchiveTypeOK'
    BY <1>1, <2>1, Typed, PackageKeepsTypes
  <2>3. Unpacks'
    BY <1>1, <2>1, UnpacksNothing DEF ArchiveInv
  <2>4. ArchiveInv'
    BY <1>1, <2>1, <2>3, InvNext
  <2>5. QED
    BY <2>2, <2>4
<1>4. QED
  BY <1>2, <1>3

\* An entry is refused: it leads nowhere, or its name is that of another.
LEMMA RefusalHasCause ==
  ASSUME LabIs, TreeIs, archive \in Seq(Entry), NEW V \in SUBSET Kept, HoldsIn(V, archive),
         NEW p \in Kept \ V, ~IsNew(ZipPath(p), tree[p])
  PROVE  \E q \in Kept : /\ p # q /\ ZipPath(p) = ZipPath(q)
                         /\ tree[p] = "dir" <=> tree[q] = "dir"
<1>1. PICK i \in DOMAIN archive : /\ archive[i].path = ZipPath(p)
                                  /\ archive[i].kind = "dir" <=> tree[p] = "dir"
  BY DEF IsNew
<1>2. p \in Seq(Names) /\ p # << >>
  BY DEF TreeIs, Kept
<1>3. i # 1
  <2>1. SUFFICES ASSUME i = 1 PROVE FALSE
    OBVIOUS
  <2>2. ZipPath(p) = lab.top
    BY <1>1, <2>1 DEF HoldsIn, TopEntry
  <2>3. Len(ZipPath(p)) = Len(lab.top) + Len(p) /\ Len(lab.top) \in Nat /\ Len(p) \in Nat \ {0}
    BY <1>2, ZipPathIs
  <2>4. QED
    BY <2>2, <2>3
<1>4. i \in 2 .. Len(archive)
  BY <1>3
<1>5. PICK q \in V : archive[i] = EntryOf(q)
  BY <1>4 DEF HoldsIn
<1>6. archive[i].path = ZipPath(q) /\ archive[i].kind = tree[q]
  BY <1>5 DEF EntryOf
<1>7. QED
  BY <1>1, <1>6

\* The directory of what is to be added is there.
LEMMA ParentIsHeld ==
  ASSUME LabIs, NEW V, NEW a \in Seq(Entry), HoldsIn(V, a),
         NEW p \in Seq(Names), p # << >>,
         Len(p) > 1 => Front(p) \in V /\ tree[Front(p)] = "dir"
  PROVE  \E j \in 1 .. Len(a) : a[j].path = ZipPath(Front(p)) /\ a[j].kind = "dir"
<1>1. CASE Len(p) > 1
  <2>1. PICK j \in 2 .. Len(a) : a[j] = EntryOf(Front(p))
    BY <1>1 DEF HoldsIn
  <2>2. a[j].path = ZipPath(Front(p)) /\ a[j].kind = "dir"
    BY <1>1, <2>1 DEF EntryOf
  <2>3. QED
    BY <2>2
<1>2. CASE ~(Len(p) > 1)
  <2>1. Len(p) = 1
    <3> DEFINE l == Len(p)
    <3>1. l \in Nat \ {0} /\ ~(l > 1)
      BY <1>2
    <3> HIDE DEF l
    <3>2. l = 1
      BY <3>1
    <3>3. QED
      BY <3>2 DEF l
  <2>2. Front(p) = << >>
    BY <2>1, PathParts
  <2>3. 1 \in 1 .. Len(a) /\ a[1] = TopEntry
    BY DEF HoldsIn
  <2>4. a[1].path = ZipPath(Front(p)) /\ a[1].kind = "dir"
    BY <2>2, <2>3, ZipPathOfNone DEF TopEntry
  <2>5. QED
    BY <2>3, <2>4
<1>3. QED
  BY <1>1, <1>2

\* add_to_zip refuses an entry, passes by it, enters it or writes it.
LEMMA AddEntryKeepsInv ==
  ASSUME ArchiveTypeOK, ArchiveInv, AddEntry
  PROVE  ArchiveTypeOK' /\ ArchiveInv'
<1>1. /\ step = "zip" /\ stack # << >> /\ next = 1 /\ damaged = {}
      /\ UNCHANGED <<input, whole, full, next, out>>
      /\ whole \in BOOLEAN /\ full \in BOOLEAN
      /\ LabIs /\ TreeIs /\ stack \in Seq(Frame) /\ archive \in Seq(Entry)
  BY Typed DEF AddEntry, ArchiveInv, ArchiveTypeOK
<1>2. Triggered /\ \E V \in SUBSET Kept : HoldsIn(V, archive) /\ WalksIn(V, stack)
  BY <1>1, HoldsIs, WalksIs DEF ArchiveInv
<1>3. PICK V \in SUBSET Kept : HoldsIn(V, archive) /\ WalksIn(V, stack)
  BY <1>2
<1>4. PICK n \in Last(stack).left : ZipEntry(n)
  BY DEF AddEntry
<1> DEFINE path == Append(Last(stack).dir, n)
           kind == tree[path]
           rest == RestOf(stack, n)
<1>5. /\ path \in DOMAIN tree /\ path \in Seq(Names) /\ path # << >> /\ path \notin V
      /\ Len(path) > 1 => Front(path) \in V /\ tree[Front(path)] = "dir"
  BY <1>1, <1>3, PathOfLeft
<1>6. rest \in Seq(Frame)
  BY <1>1, RestIs
<1>7. \/ /\ kind = "broken" \/ (kind # "other" /\ ~IsNew(ZipPath(path), kind))
         /\ ZipFails
      \/ /\ kind = "other" /\ stack' = rest /\ UNCHANGED <<step, archive>>
      \/ /\ kind = "dir" /\ IsNew(ZipPath(path), kind)
         /\ archive' = Append(archive, EntryOf(path))
         /\ stack' = Append(rest, [dir |-> path, left |-> ChildrenOf(path)])
         /\ UNCHANGED step
      \/ /\ kind \in {"file", "exec"} /\ IsNew(ZipPath(path), kind)
         /\ archive' = Append(archive, EntryOf(path))
         /\ stack' = rest /\ UNCHANGED step
  BY <1>4 DEF ZipEntry, RestOf, Add, EntryOf
<1>8. kind \in Kinds
  BY <1>1, <1>5 DEF TreeIs
<1> HIDE DEF path, kind, rest
<1>9. CASE /\ kind = "broken" \/ (kind # "other" /\ ~IsNew(ZipPath(path), kind))
           /\ ZipFails
  <2>1. step' = "zipFailed" /\ UNCHANGED <<archive, stack>>
    BY <1>9 DEF ZipFails
  <2>2. ArchiveTypeOK'
    BY <1>1, <2>1, PackageKeepsTypes
  <2>3. Unpacks'
    BY <1>1, <2>1, UnpacksNothing DEF ArchiveInv
  <2>4. \/ \E p \in DOMAIN tree : tree[p] = "broken"
        \/ \E p, q \in Kept : /\ p # q /\ ZipPath(p) = ZipPath(q)
                              /\ tree[p] = "dir" <=> tree[q] = "dir"
    <3>1. CASE kind = "broken"
      BY <1>5, <3>1 DEF kind
    <3>2. CASE kind # "broken"
      <4>1. path \in Kept \ V
        BY <1>5, <1>8, <1>9, <3>2 DEF kind, Kept, Kinds
      <4>2. ~IsNew(ZipPath(path), tree[path])
        BY <1>9, <3>2 DEF kind
      <4>3. QED
        BY <1>1, <1>3, <4>1, <4>2, RefusalHasCause
    <3>3. QED
      BY <3>1, <3>2
  <2>5. ArchiveInv'
    BY <1>1, <2>1, <2>3, <2>4, InvNext
  <2>6. QED
    BY <2>2, <2>5
<1>10. ASSUME NEW U \in SUBSET Kept, HoldsIn(U, archive'), WalksIn(U, stack'),
              archive' \in Seq(Entry), stack' \in Seq(Frame), UNCHANGED step
       PROVE  ArchiveTypeOK' /\ ArchiveInv'
  <2>1. ArchiveTypeOK'
    BY <1>1, <1>10, PackageKeepsTypes
  <2>2. Unpacks'
    BY <1>1, <1>10, UnpacksNothing DEF ArchiveInv
  <2>3. ArchiveInv'
    BY <1>1, <1>2, <1>10, <2>2, InvNext
  <2>4. QED
    BY <2>1, <2>3
<1>11. CASE kind = "other" /\ stack' = rest /\ UNCHANGED <<step, archive>>
  <2>1. path \notin Kept /\ tree[path] # "dir"
    BY <1>11 DEF kind, Kept
  <2>2. WalksIn(V, rest)
    BY <1>1, <1>3, <2>1, WalksPast DEF path, rest
  <2>3. QED
    BY <1>1, <1>3, <1>6, <1>10, <1>11, <2>2
<1>12. ASSUME kind \in {"dir", "file", "exec"}, IsNew(ZipPath(path), kind),
              archive' = Append(archive, EntryOf(path))
       PROVE  /\ path \in Kept
              /\ archive' \in Seq(Entry)
              /\ HoldsIn(V \cup {path}, archive')
  <2>1. path \in Kept
    BY <1>5, <1>12 DEF kind, Kept
  <2>2. EntryOf(path) \in Entry
    BY <1>1, <1>5, <1>12, ZipPathIs DEF kind, EntryOf, Entry
  <2>3. \A i \in DOMAIN archive :
          archive[i].path = ZipPath(path) => (archive[i].kind = "dir" <=> tree[path] # "dir")
    BY <1>12 DEF IsNew, kind
  <2>4. \E j \in 1 .. Len(archive) :
          archive[j].path = ZipPath(Front(path)) /\ archive[j].kind = "dir"
    BY <1>1, <1>3, <1>5, ParentIsHeld
  <2>5. HoldsIn(V \cup {path}, Append(archive, EntryOf(path)))
    BY <1>1, <1>3, <1>5, <2>2, <2>3, <2>4, HoldsMore
  <2>6. Append(archive, EntryOf(path)) \in Seq(Entry)
    BY <1>1, <2>2, AppendIs
  <2>7. QED
    BY <1>12, <2>1, <2>5, <2>6
<1>13. CASE /\ kind = "dir" /\ IsNew(ZipPath(path), kind)
            /\ archive' = Append(archive, EntryOf(path))
            /\ stack' = Append(rest, [dir |-> path, left |-> ChildrenOf(path)])
            /\ UNCHANGED step
  <2>1. WalksIn(V \cup {path}, stack')
    BY <1>1, <1>3, <1>13, WalksDown DEF path, kind, rest
  <2>2. stack' \in Seq(Frame)
    <3>1. [dir |-> path, left |-> ChildrenOf(path)] \in Frame
      BY <1>5 DEF Frame, ChildrenOf
    <3>2. QED
      BY <1>6, <1>13, <3>1, AppendIs
  <2>3. QED
    BY <1>10, <1>12, <1>13, <2>1, <2>2
<1>14. CASE /\ kind \in {"file", "exec"} /\ IsNew(ZipPath(path), kind)
            /\ archive' = Append(archive, EntryOf(path))
            /\ stack' = rest /\ UNCHANGED step
  <2>1. path \in Kept /\ archive' \in Seq(Entry) /\ HoldsIn(V \cup {path}, archive')
    BY <1>12, <1>14
  <2>2. tree[path] # "dir"
    BY <1>14 DEF kind
  <2>3. WalksIn(V \cup {path}, rest)
    BY <1>1, <1>3, <2>1, <2>2, WalksPast DEF path, rest
  <2>4. QED
    BY <1>6, <1>10, <1>14, <2>1, <2>3
<1>15. QED
  BY <1>7, <1>9, <1>11, <1>13, <1>14

\* A directory is left, the disk is full, or the archive is complete.
LEMMA LeaveDirectoryKeepsInv ==
  ASSUME ArchiveTypeOK, ArchiveInv, LeaveDirectory
  PROVE  ArchiveTypeOK' /\ ArchiveInv'
<1>1. /\ step = "zip" /\ stack # << >> /\ next = 1 /\ damaged = {}
      /\ Last(stack).left = {} /\ stack' = Front(stack)
      /\ UNCHANGED <<input, step, archive, whole, full, next, out>>
      /\ whole \in BOOLEAN /\ full \in BOOLEAN
      /\ stack \in Seq(Frame) /\ archive \in Seq(Entry)
  BY Typed DEF LeaveDirectory, ArchiveInv, ArchiveTypeOK
<1>2. Triggered /\ \E V \in SUBSET Kept : HoldsIn(V, archive) /\ WalksIn(V, stack)
  BY <1>1, HoldsIs, WalksIs DEF ArchiveInv
<1>3. PICK V \in SUBSET Kept : HoldsIn(V, archive) /\ WalksIn(V, stack)
  BY <1>2
<1>4. WalksIn(V, stack') /\ stack' \in Seq(Frame)
  BY <1>1, <1>3, WalksUp, PathParts
<1>5. ArchiveTypeOK'
  BY <1>1, <1>4, PackageKeepsTypes
<1>6. Unpacks'
  BY <1>1, UnpacksNothing DEF ArchiveInv
<1>7. ArchiveInv'
  BY <1>1, <1>2, <1>3, <1>4, <1>6, InvNext
<1>8. QED
  BY <1>5, <1>7

\* The disk is full: that is the cause.
LEMMA WriteFailsKeepsInv ==
  ASSUME ArchiveTypeOK, ArchiveInv, WriteFails
  PROVE  ArchiveTypeOK' /\ ArchiveInv'
<1>1. /\ step = "zip" /\ next = 1 /\ damaged = {} /\ step' = "zipFailed" /\ full' = TRUE
      /\ UNCHANGED <<input, stack, archive, whole, next, out>>
      /\ whole \in BOOLEAN
      /\ stack \in Seq(Frame) /\ archive \in Seq(Entry)
  BY Typed DEF WriteFails, ZipFails, ArchiveInv, ArchiveTypeOK
<1>2. ArchiveTypeOK'
  BY <1>1, PackageKeepsTypes
<1>3. Unpacks'
  BY <1>1, UnpacksNothing DEF ArchiveInv
<1>4. ArchiveInv'
  BY <1>1, <1>3, InvNext
<1>5. QED
  BY <1>2, <1>4

\* The walk has ended: nothing is left to add.
LEMMA FinishKeepsInv ==
  ASSUME ArchiveTypeOK, ArchiveInv, Finish
  PROVE  ArchiveTypeOK' /\ ArchiveInv'
<1>1. /\ step = "zip" /\ stack = << >> /\ next = 1 /\ damaged = {} /\ step' = "unzip"
      /\ UNCHANGED <<input, stack, archive, next, out>>
      /\ whole' \in BOOLEAN /\ full' \in BOOLEAN
      /\ TreeIs /\ stack \in Seq(Frame) /\ archive \in Seq(Entry)
  BY Typed DEF Finish, ArchiveInv, ArchiveTypeOK
<1>2. Triggered /\ \E V \in SUBSET Kept : HoldsIn(V, archive) /\ WalksIn(V, stack)
  BY <1>1, HoldsIs, WalksIs DEF ArchiveInv
<1>3. PICK V \in SUBSET Kept : HoldsIn(V, archive) /\ WalksIn(V, stack)
  BY <1>2
<1>4. V = Kept
  BY <1>1, <1>3, WalkEnds
<1>5. ArchiveTypeOK'
  BY <1>1, PackageKeepsTypes
<1>6. Unpacks'
  BY <1>1, UnpacksNothing DEF ArchiveInv
<1>7. ArchiveInv'
  BY <1>1, <1>2, <1>3, <1>4, <1>6, InvNext
<1>8. QED
  BY <1>5, <1>7

-----------------------------------------------------------------------------
(* Unzipping.                                                              *)

\* An entry is written: that of a directory where nothing is, that of a file
\* where no directory is.
LEMMA EntryIsUnpacked ==
  ASSUME Unpacks, archive \in Seq(Entry), next \in 1 .. Len(archive),
         Writable(archive[next]),
         UNCHANGED archive, step' = "unzip", next' = next + 1,
         out' = With(out, archive[next].path, archive[next].kind)
  PROVE  /\ Unpacks'
         /\ DOMAIN out' = DOMAIN out \cup {archive[next].path}
         /\ out'[archive[next].path] = archive[next].kind
         /\ \A p \in DOMAIN out : p # archive[next].path => out'[p] = out[p]
<1> DEFINE e == archive[next]
           before == 1 .. next - 1
<1>1. /\ e \in Entry /\ next \in Nat \ {0}
      /\ 1 .. next' - 1 = before \cup {next} /\ next \notin before
  OBVIOUS
<1>2. /\ DOMAIN out' = DOMAIN out \cup {e.path}
      /\ out'[e.path] = e.kind
      /\ \A p \in DOMAIN out : p # e.path => out'[p] = out[p]
  BY DEF With
<1>3. e.path \in DOMAIN out => e.kind # "dir" /\ out[e.path] # "dir"
  BY DEF Writable
<1>4. /\ DOMAIN out = {archive[i].path : i \in before}
      /\ \A p \in DOMAIN out : \E i \in before : archive[i] = [path |-> p, kind |-> out[p]]
      /\ \A i \in before : archive[i].kind = "dir" <=> out[archive[i].path] = "dir"
      /\ \A i, j \in before :
           i # j /\ archive[i].path = archive[j].path => archive[i].kind # "dir"
  BY DEF Unpacks
<1>5. e = [path |-> e.path, kind |-> e.kind]
  BY <1>1 DEF Entry
<1>6. \A i \in before : archive[i].path \in DOMAIN out
  BY <1>4
<1>7. archive[next] = e
  OBVIOUS
<1> HIDE DEF e, before
<1>8. DOMAIN out' = {archive[i].path : i \in before \cup {next}}
  BY <1>2, <1>4, <1>7
<1>9. ASSUME NEW p \in DOMAIN out'
      PROVE  \E i \in before \cup {next} : archive[i] = [path |-> p, kind |-> out'[p]]
  <2>1. CASE p = e.path
    BY <1>2, <1>5, <1>7, <2>1
  <2>2. CASE p # e.path
    <3>1. p \in DOMAIN out /\ out'[p] = out[p]
      BY <1>2, <2>2
    <3>2. QED
      BY <1>4, <3>1
  <2>3. QED
    BY <2>1, <2>2
<1>10. ASSUME NEW i \in before \cup {next}
       PROVE  archive[i].kind = "dir" <=> out'[archive[i].path] = "dir"
  <2>1. CASE i = next
    BY <1>2, <1>7, <2>1
  <2>2. CASE i \in before
    <3>1. archive[i].path \in DOMAIN out
      BY <1>6, <2>2
    <3>2. archive[i].kind = "dir" <=> out[archive[i].path] = "dir"
      BY <1>4, <2>2
    <3>3. CASE archive[i].path = e.path
      BY <1>2, <1>3, <3>1, <3>2, <3>3
    <3>4. CASE archive[i].path # e.path
      BY <1>2, <3>1, <3>2, <3>4
    <3>5. QED
      BY <3>3, <3>4
  <2>3. QED
    BY <2>1, <2>2
<1>11. ASSUME NEW i \in before \cup {next}, NEW j \in before \cup {next},
              i # j, archive[i].path = archive[j].path
       PROVE  archive[i].kind # "dir"
  <2>1. CASE i \in before /\ j \in before
    BY <1>4, <1>11, <2>1
  <2>2. CASE i = next /\ j \in before
    BY <1>3, <1>6, <1>7, <1>11, <2>2
  <2>3. CASE i \in before /\ j = next
    <3>1. archive[i].path = e.path /\ archive[i].path \in DOMAIN out
      BY <1>6, <1>7, <1>11, <2>3
    <3>2. out[archive[i].path] # "dir"
      BY <1>3, <3>1
    <3>3. QED
      BY <1>4, <2>3, <3>2
  <2>4. QED
    BY <1>11, <2>1, <2>2, <2>3
<1>12. 1 .. next' - 1 = before \cup {next} /\ archive' = archive /\ step' = "unzip"
  BY <1>1
<1>13. DOMAIN out' = {archive'[i].path : i \in 1 .. next' - 1}
  BY <1>8, <1>12
<1>14. \A p \in DOMAIN out' :
         \E i \in 1 .. next' - 1 : archive'[i] = [path |-> p, kind |-> out'[p]]
  BY <1>9, <1>12
<1>15. \A i \in 1 .. next' - 1 : archive'[i].kind = "dir" <=> out'[archive'[i].path] = "dir"
  BY <1>10, <1>12
<1>16. \A i, j \in 1 .. next' - 1 :
         i # j /\ archive'[i].path = archive'[j].path => archive'[i].kind # "dir"
  BY <1>11, <1>12
<1>17. Unpacks'
  BY <1>12, <1>13, <1>14, <1>15, <1>16 DEF Unpacks
<1>18. QED
  BY <1>2, <1>17 DEF e

\* What Unpacks says of what is written...
UnpacksAs(a, n, o) ==
  /\ DOMAIN o = {a[i].path : i \in 1 .. n - 1}
  /\ \A p \in DOMAIN o : \E i \in 1 .. n - 1 : a[i] = [path |-> p, kind |-> o[p]]
  /\ \A i \in 1 .. n - 1 : a[i].kind = "dir" <=> o[a[i].path] = "dir"
  /\ \A i, j \in 1 .. n - 1 : i # j /\ a[i].path = a[j].path => a[i].kind # "dir"

\* ... and of where it ends.
LEMMA UnpacksIs ==
  Unpacks <=>
    /\ UnpacksAs(archive, next, out)
    /\ step = "unzipFailed" /\ whole /\ ~full =>
         next <= Len(archive) /\ ~(Readable(next) /\ Writable(archive[next]))
    /\ step = "unzipped" => next = Len(archive) + 1
BY DEF Unpacks, UnpacksAs

\* A step that writes nothing.
LEMMA UnpacksNext ==
  ASSUME UnpacksAs(archive, next, out), UNCHANGED <<archive, next, out>>,
         step' = "unzipFailed" /\ whole' /\ ~full' =>
           next' <= Len(archive') /\ ~(Readable(next) /\ Writable(archive[next]))',
         step' = "unzipped" => next' = Len(archive') + 1
  PROVE  Unpacks'
<1>1. UnpacksAs(archive', next', out')
  OBVIOUS
<1>2. QED
  BY <1>1 DEF Unpacks, UnpacksAs

\* unzip_file writes an entry, in a directory that it has written, or stops at
\* it.
LEMMA UnzipEntryKeepsInv ==
  ASSUME ArchiveTypeOK, ArchiveInv, UnzipEntry
  PROVE  ArchiveTypeOK' /\ ArchiveInv'
<1>1. /\ step = "unzip" /\ next \in 1 .. Len(archive) /\ archive[next] \in Entry
      /\ UNCHANGED <<input, stack, archive, whole, full>>
      /\ archive \in Seq(Entry) /\ stack \in Seq(Frame)
  <2>1. next <= Len(archive) /\ next \in 1 .. Len(archive) + 1 /\ archive \in Seq(Entry)
    BY Typed DEF UnzipEntry
  <2>2. next \in 1 .. Len(archive)
    BY <2>1
  <2>3. archive[next] \in Entry
    BY <2>1, <2>2
  <2>4. QED
    BY <2>2, <2>3, Typed DEF UnzipEntry
<1>2. archive' \in Foreign \/ (Triggered /\ HoldsIn(Kept, archive'))
  BY <1>1, HoldsIs DEF ArchiveInv
<1>3. CASE Readable(next) /\ Writable(archive[next])
  <2> DEFINE e == archive[next]
  <2>1. /\ out' = With(out, e.path, e.kind)
        /\ next' = next + 1 /\ step' = "unzip"
    BY <1>1, <1>3 DEF UnzipEntry, WrittenAs
  <2>2. /\ Unpacks'
        /\ DOMAIN out' = DOMAIN out \cup {e.path}
        /\ out'[e.path] = e.kind
        /\ \A p \in DOMAIN out : p # e.path => out'[p] = out[p]
    BY <1>1, <1>3, <2>1, EntryIsUnpacked DEF ArchiveInv
  <2>3. ArchiveInv'
    BY <1>1, <1>2, <2>1, <2>2, InvNext
  <2>4. next' \in 1 .. Len(archive') + 1
    BY <1>1, <2>1
  <2>5. e.kind \in {"dir", "file", "exec"} /\ e.path \in Seq(Names)
    BY <1>1 DEF Entry
  <2>6. Len(e.path) > 1 => Front(e.path) \in DOMAIN out
    <3>1. ParentExists(e.path)
      BY <1>3 DEF Writable
    <3> HIDE DEF e
    <3>2. Len(e.path) = 1 \/ Front(e.path) \in DOMAIN out
      BY <3>1 DEF ParentExists
    <3>3. CASE Len(e.path) = 1
      BY <3>3
    <3>4. QED
      BY <3>2, <3>3
  <2>7. \A p \in DOMAIN out : /\ out[p] \in {"dir", "file", "exec"}
                              /\ Len(p) > 1 => Front(p) \in DOMAIN out
    BY DEF ArchiveTypeOK
  <2> HIDE DEF e
  <2>8. \A p \in DOMAIN out' : /\ out'[p] \in {"dir", "file", "exec"}
                               /\ Len(p) > 1 => Front(p) \in DOMAIN out'
    BY <2>2, <2>5, <2>6, <2>7
  <2>9. ArchiveTypeOK'
    BY <1>1, <2>1, <2>4, <2>8 DEF ArchiveTypeOK, input
  <2>10. QED
    BY <2>3, <2>9
<1>4. CASE ~(Readable(next) /\ Writable(archive[next]))
  <2>1. step' = "unzipFailed" /\ UNCHANGED <<out, next>>
    BY <1>1, <1>4 DEF UnzipEntry
  <2>2. ArchiveTypeOK'
    BY <1>1, <2>1 DEF ArchiveTypeOK, input
  <2>3. ~(Readable(next) /\ Writable(archive[next]))'
    BY <1>1, <1>4, <2>1 DEF Readable, Writable, BelowTop, ParentExists, input
  <2>4. UnpacksAs(archive, next, out)
    BY UnpacksIs DEF ArchiveInv
  <2>5. Unpacks'
    BY <1>1, <2>1, <2>3, <2>4, UnpacksNext
  <2>6. ArchiveInv'
    BY <1>1, <1>2, <2>1, <2>5, InvNext
  <2>7. QED
    BY <2>2, <2>6
<1>5. QED
  BY <1>3, <1>4

\* The file cannot be read, or the disk is full.
LEMMA UnzipStopsKeepsInv ==
  ASSUME ArchiveTypeOK, ArchiveInv, OpenFails \/ UnzipWriteFails
  PROVE  ArchiveTypeOK' /\ ArchiveInv'
<1>1. /\ step = "unzip" /\ step' = "unzipFailed" /\ (~whole' \/ full')
      /\ UNCHANGED <<input, stack, archive, whole, next, out>>
      /\ full' \in BOOLEAN
  <2>1. full \in BOOLEAN
    BY DEF ArchiveTypeOK
  <2>2. CASE OpenFails
    BY <2>1, <2>2 DEF OpenFails
  <2>3. CASE UnzipWriteFails
    BY <2>3 DEF UnzipWriteFails
  <2>4. QED
    BY <2>2, <2>3
<1>2. archive' \in Foreign \/ (Triggered /\ HoldsIn(Kept, archive'))
  BY <1>1, HoldsIs DEF ArchiveInv
<1>3. ArchiveTypeOK'
  BY <1>1 DEF ArchiveTypeOK, input
<1>4. UnpacksAs(archive, next, out)
  BY UnpacksIs DEF ArchiveInv
<1>5. Unpacks'
  BY <1>1, <1>4, UnpacksNext
<1>6. ArchiveInv'
  BY <1>1, <1>2, <1>5, InvNext
<1>7. QED
  BY <1>3, <1>6

\* No entry is left.
LEMMA UnzippedKeepsInv ==
  ASSUME ArchiveTypeOK, ArchiveInv, Unzipped
  PROVE  ArchiveTypeOK' /\ ArchiveInv'
<1>1. /\ step = "unzip" /\ step' = "unzipped" /\ next = Len(archive) + 1
      /\ UNCHANGED <<input, stack, archive, whole, full, next, out>>
  BY DEF Unzipped
<1>2. archive' \in Foreign \/ (Triggered /\ HoldsIn(Kept, archive'))
  BY <1>1, HoldsIs DEF ArchiveInv
<1>3. ArchiveTypeOK'
  BY <1>1 DEF ArchiveTypeOK, input
<1>4. Unpacks
  BY DEF ArchiveInv
<1>5. Unpacks'
  BY <1>1, <1>4 DEF Unpacks
<1>6. ArchiveInv'
  BY <1>1, <1>2, <1>5, InvNext
<1>7. QED
  BY <1>3, <1>6

-----------------------------------------------------------------------------
(* The zip file, from the clone to the sources.                            *)

\* Nothing is packaged yet, or a student has sent a zip file.
LEMMA ArchiveStarts ==
  ASSUME ArchiveInit
  PROVE  ArchiveTypeOK /\ ArchiveInv
<1>1. /\ lab \in LabConfigs /\ text \in Texts
      /\ stack = << >> /\ full = FALSE /\ next = 1 /\ out = << >>
      /\ step \in {"look", "unzip"} /\ archive \in Seq(Entry) /\ whole \in BOOLEAN
      /\ damaged \subseteq DOMAIN archive
      /\ step = "look" => archive = << >> /\ damaged = {}
      /\ step = "unzip" => archive \in Foreign
  <2>1. << >> \in Seq(Entry)
    OBVIOUS
  <2>2. QED
    BY <2>1, ArchiveAssumption DEF ArchiveInit, ArchiveAssumption
<1>2. \A p \in DOMAIN tree : /\ p \in Paths /\ tree[p] \in Kinds
                             /\ Len(p) > 1 => Front(p) \in DOMAIN tree /\ tree[Front(p)] = "dir"
  <2>1. CASE tree = << >>
    BY <2>1
  <2>2. CASE tree \in Trees
    <3>1. PICK s \in SUBSET Paths : /\ tree \in [s -> Kinds]
                                    /\ \A p \in s : Len(p) > 1 => Front(p) \in s
      BY <2>2 DEF Trees
    <3>2. \A p \in DOMAIN tree : Len(p) > 1 => tree[Front(p)] = "dir"
      BY <2>2 DEF Trees
    <3>3. QED
      BY <3>1, <3>2
  <2>3. QED
    BY <2>1, <2>2 DEF ArchiveInit
<1>3. DOMAIN out = {} /\ 1 .. next - 1 = {} /\ Len(archive) \in Nat
  BY <1>1
<1>4. stack \in Seq([dir : Seq(Names), left : SUBSET Names])
  BY <1>1
<1>5. next \in 1 .. Len(archive) + 1
  BY <1>1, <1>3
<1>6. ArchiveTypeOK
  BY <1>1, <1>2, <1>3, <1>4, <1>5 DEF ArchiveTypeOK
<1>7. Unpacks
  BY <1>1, <1>3 DEF Unpacks
<1>8. ArchiveInv
  BY <1>1, <1>2, <1>7 DEF ArchiveInv, ZipFailureHasCause
<1>9. QED
  BY <1>6, <1>8

\* The steps that keep the zip file as it is.
LEMMA ArchiveStutter ==
  ASSUME ArchiveTypeOK, ArchiveInv, UNCHANGED archiveVars
  PROVE  ArchiveTypeOK' /\ ArchiveInv'
<1>1. UNCHANGED <<input, step, stack, archive, whole, full, next, out>>
  BY DEF archiveVars
<1>2. ArchiveTypeOK'
  BY <1>1 DEF ArchiveTypeOK, input
<1>3. /\ step \in {"look", "none"} => archive = << >> /\ stack = << >>
      /\ step = "zip" =>
           Triggered /\ \E V \in SUBSET Kept : HoldsIn(V, archive) /\ WalksIn(V, stack)
      /\ step \in {"look", "none", "zip", "zipFailed"} => next = 1
      /\ step \in {"unzip", "unzipFailed", "unzipped"} =>
           archive \in Foreign \/ (Triggered /\ HoldsIn(Kept, archive))
      /\ Unpacks /\ ZipFailureHasCause
      /\ damaged = {} \/ step \in {"unzip", "unzipFailed", "unzipped"}
  BY HoldsIs, WalksIs DEF ArchiveInv
<1>4. Unpacks'
  <2>1. ~(Readable(next) /\ Writable(archive[next])) => ~(Readable(next) /\ Writable(archive[next]))'
    BY <1>1 DEF Readable, Writable, BelowTop, ParentExists, input
  <2>2. QED
    BY <1>1, <1>3, <2>1, UnpacksIs, UnpacksNext
<1>5. ArchiveInv'
  <2>1. step' = step /\ archive' = archive /\ stack' = stack /\ next' = next /\ full' = full
    BY <1>1
  <2>2. QED
    BY <1>1, <1>3, <1>4, <2>1, InvNext DEF ZipFailureHasCause
<1>6. QED
  BY <1>2, <1>5

\* Every step of the hub and of the builders keeps ArchiveInv.
LEMMA ArchiveStep ==
  ASSUME ArchiveTypeOK, ArchiveInv, [TransferNext]_transferVars
  PROVE  ArchiveTypeOK' /\ ArchiveInv'
<1>1. CASE PackageLab
  BY <1>1, LookKeepsInv, AddEntryKeepsInv, LeaveDirectoryKeepsInv, WriteFailsKeepsInv,
     FinishKeepsInv DEF PackageLab, Package
<1>2. CASE UnzipCopy
  BY <1>2, UnzipEntryKeepsInv, UnzipStopsKeepsInv, UnzippedKeepsInv DEF UnzipCopy, Unzip
<1>3. CASE UNCHANGED archiveVars
  BY <1>3, ArchiveStutter
<1>4. PackageLab \/ UnzipCopy \/ UNCHANGED archiveVars
  BY DEF TransferNext, Ask, IsFile, Metadata, Open, Serve, ReadToEnd, RemoveZipFile,
     HubDown, HubUp, transferVars
<1>5. QED
  BY <1>1, <1>2, <1>3, <1>4

-----------------------------------------------------------------------------
(* The types of the downloads.                                             *)

Places == InFlight \cup Failed \cup {"none", "got"}
Answers == {"served", "refused"}

HubTypeOK ==
  /\ up \in BOOLEAN
  /\ onDisk \in BOOLEAN
  /\ get \in [Builds -> Places]
  /\ could \in [Builds -> SUBSET Answers]
  /\ \A b \in Builds : get[b] = "none" <=> could[b] = {}

\* A step that Watch notes, of downloads that do not come back to where they
\* start from.
LEMMA WatchedTypes ==
  ASSUME HubTypeOK, Watch, up' \in BOOLEAN, onDisk' \in BOOLEAN, get' \in [Builds -> Places],
         \A b \in Builds : get'[b] # get[b] \/ get[b] \in InFlight => get'[b] # "none"
  PROVE  HubTypeOK'
<1>1. ASSUME NEW b \in Builds
      PROVE  /\ could'[b] \in SUBSET Answers
             /\ get'[b] = "none" <=> could'[b] = {}
  <2>1. /\ Instant(up, onDisk) \in Answers /\ Instant(up', onDisk') \in Answers
        /\ could[b] \in SUBSET Answers
    BY DEF HubTypeOK, Instant, Answers
  <2>2. CASE get[b] \in InFlight \/ get'[b] # get[b]
    <3>1. could'[b] = could[b] \cup {Instant(up, onDisk), Instant(up', onDisk')}
      BY <2>2 DEF Watch
    <3>2. get'[b] # "none"
      BY <2>2
    <3>3. QED
      BY <2>1, <3>1, <3>2
  <2>3. CASE ~(get[b] \in InFlight \/ get'[b] # get[b])
    <3>1. could'[b] = could[b] /\ get'[b] = get[b]
      BY <2>3 DEF Watch
    <3>2. QED
      BY <2>1, <3>1 DEF HubTypeOK
  <2>4. QED
    BY <2>2, <2>3
<1>2. could' \in [Builds -> SUBSET Answers]
  BY <1>1 DEF Watch
<1>3. QED
  BY <1>1, <1>2 DEF HubTypeOK

\* The steps of the hub and of the builders, but for those of the zip file, which
\* only make onDisk true.
LEMMA HubTypesKept ==
  ASSUME HubTypeOK, [TransferNext]_transferVars
  PROVE  HubTypeOK'
<1>1. CASE PackageLab
  <2>1. /\ UNCHANGED <<up, get, could>>
        /\ onDisk' = (onDisk \/ step' \in {"zip", "zipFailed"})
    BY <1>1 DEF PackageLab
  <2>2. onDisk' \in BOOLEAN
    BY <2>1
  <2>3. QED
    BY <2>1, <2>2 DEF HubTypeOK
<1>2. ASSUME NEW b \in Builds,
             Ask(b) \/ IsFile(b) \/ Metadata(b) \/ Open(b) \/ ReadToEnd(b)
      PROVE  HubTypeOK'
  <2>1. PICK place \in Places \ {"none"} : get' = [get EXCEPT ![b] = place]
    <3>1. {"asked", "broken", "found", "notFound", "sized", "open", "got"}
            \subseteq Places \ {"none"}
      BY DEF Places, InFlight, Failed
    <3>2. \E place \in Places \ {"none"} : get' = [get EXCEPT ![b] = place]
      <4>1. CASE Ask(b)
        BY <3>1, <4>1 DEF Ask
      <4>2. CASE IsFile(b) \/ Metadata(b) \/ Open(b)
        BY <3>1, <4>2 DEF IsFile, Metadata, Open, Serve
      <4>3. CASE ReadToEnd(b)
        BY <3>1, <4>3 DEF ReadToEnd
      <4>4. QED
        BY <1>2, <4>1, <4>2, <4>3
    <3>3. QED
      BY <3>2
  <2>2. UNCHANGED hubSide /\ Watch
    BY <1>2 DEF Ask, IsFile, Metadata, Open, Serve, ReadToEnd
  <2>3. get' \in [Builds -> Places]
    BY <2>1 DEF HubTypeOK
  <2>4. \A c \in Builds : get'[c] # get[c] \/ get[c] \in InFlight => get'[c] # "none"
    BY <2>1 DEF HubTypeOK, InFlight
  <2>5. QED
    BY <2>2, <2>3, <2>4, WatchedTypes DEF HubTypeOK, hubSide
<1>3. CASE RemoveZipFile \/ HubUp
  <2>1. UNCHANGED get /\ Watch /\ up' \in BOOLEAN /\ onDisk' \in BOOLEAN
    BY <1>3 DEF RemoveZipFile, HubUp, HubTypeOK
  <2>2. QED
    BY <2>1, WatchedTypes DEF HubTypeOK, InFlight
<1>4. CASE HubDown
  <2>1. /\ get' = [b \in Builds |-> IF get[b] \in InFlight THEN "broken" ELSE get[b]]
        /\ Watch /\ up' \in BOOLEAN /\ onDisk' \in BOOLEAN
    BY <1>4 DEF HubDown, HubTypeOK
  <2>2. get' \in [Builds -> Places]
    BY <2>1 DEF HubTypeOK, Places, InFlight, Failed
  <2>3. \A c \in Builds : get'[c] # get[c] \/ get[c] \in InFlight => get'[c] # "none"
    BY <2>1
  <2>4. QED
    BY <2>1, <2>2, <2>3, WatchedTypes
<1>5. CASE UnzipCopy
  BY <1>5 DEF UnzipCopy, hubSide, HubTypeOK
<1>6. CASE UNCHANGED transferVars
  BY <1>6 DEF transferVars, hubSide, HubTypeOK
<1>7. QED
  BY <1>1, <1>2, <1>3, <1>4, <1>5, <1>6 DEF TransferNext

\* The zip file at every step of its way, whatever the tree of the lab, its
\* depth, the names and their texts, the order in which read_dir gives them
\* (add_to_zip), the zip files that students send and the number of builders:
\* while a directory is walked the archive holds some of the tree, each name once
\* and after its directory, the stack of add_to_zip leads to all of the rest, and
\* what unzip_file has written is what the entries that it has read say; a
\* download that is under way has a hub that is up, and has seen what it says.
THEOREM TransferInvariant == TransferSpec => []TransferInv
<1> DEFINE Inv == ArchiveTypeOK /\ ArchiveInv /\ HubTypeOK /\ DownloadInv
<1>1. TransferInit => Inv
  <2>1. TransferInit => HubTypeOK
    BY DEF TransferInit, HubTypeOK, Places, Answers
  <2>2. QED
    BY <2>1, ArchiveStarts, DownloadInitially DEF TransferInit
<1>2. Inv /\ [TransferNext]_transferVars => Inv'
  BY ArchiveStep, HubTypesKept, DownloadStep
<1>3. Inv => TransferInv
  BY DEF HubTypeOK, TransferTypeOK, TransferInv, Places, Answers
<1>4. QED
  BY <1>1, <1>2, <1>3, PTL DEF TransferSpec

\* package fails only when the disk is full, a link of the tree leads nowhere,
\* or two of its files, or two of its directories, have names with the same text
\* (add_to_zip): it never refuses an entry that it has added itself, and never
\* meets one before its directory.
THEOREM PackagingFailuresHaveACause == TransferSpec => []ZipFailureHasCause
<1>1. TransferInv => ZipFailureHasCause
  BY DEF TransferInv, ArchiveInv
<1>2. QED
  BY <1>1, TransferInvariant, PTL

\* An archive of ours holds two entries of the same path only if one is the
\* directory and the other the file of two paths of the tree.
LEMMA ClashOfHeld ==
  ASSUME LabIs, TreeIs, archive \in Seq(Entry), HoldsIn(Kept, archive),
         NEW i \in DOMAIN archive, NEW j \in DOMAIN archive, i # j,
         archive[i].path = archive[j].path
  PROVE  \E p, q \in Kept : /\ archive[i] = EntryOf(p) /\ archive[j] = EntryOf(q)
                            /\ ZipPath(p) = ZipPath(q)
                            /\ tree[p] = "dir" <=> tree[q] # "dir"
<1>1. ASSUME NEW k \in DOMAIN archive
      PROVE  \/ k = 1 /\ Len(archive[k].path) = Len(lab.top)
             \/ \E p \in Kept : archive[k] = EntryOf(p) /\ Len(archive[k].path) > Len(lab.top)
  <2>1. CASE k = 1
    BY <2>1 DEF HoldsIn, TopEntry
  <2>2. CASE k # 1
    <3>1. k \in 2 .. Len(archive)
      BY <2>2
    <3>2. PICK p \in Kept : archive[k] = EntryOf(p)
      BY <3>1 DEF HoldsIn
    <3>3. p \in Seq(Names) /\ p # << >>
      BY DEF TreeIs, Kept
    <3>4. /\ Len(ZipPath(p)) = Len(lab.top) + Len(p)
          /\ Len(lab.top) \in Nat /\ Len(p) \in Nat \ {0}
      BY <3>3, ZipPathIs
    <3>5. Len(archive[k].path) > Len(lab.top)
      BY <3>2, <3>4 DEF EntryOf
    <3>6. QED
      BY <3>2, <3>5
  <2>3. QED
    BY <2>1, <2>2
<1>2. Len(lab.top) \in Nat
  BY DEF LabIs
<1>3. /\ \E p \in Kept : archive[i] = EntryOf(p)
      /\ \E q \in Kept : archive[j] = EntryOf(q)
  BY <1>1, <1>2
<1>4. PICK p \in Kept, q \in Kept : archive[i] = EntryOf(p) /\ archive[j] = EntryOf(q)
  BY <1>3
<1>5. ~SameName(archive[i], archive[j])
  BY DEF HoldsIn
<1>6. ZipPath(p) = ZipPath(q) /\ (tree[p] = "dir" <=> tree[q] # "dir")
  BY <1>4, <1>5 DEF SameName, EntryOf
<1>7. QED
  BY <1>4, <1>6

\* What keeps an entry from being written.
LEMMA WhyNotWritable ==
  ASSUME Unpacks, archive \in Seq(Entry), next \in 1 .. Len(archive),
         ~Writable(archive[next])
  PROVE  \/ ~BelowTop(archive[next].path)
         \/ ~DirectoryBefore(next)
         \/ \E j \in 1 .. next - 1 : /\ archive[j].path = archive[next].path
                                     /\ "dir" \in {archive[next].kind, archive[j].kind}
<1> DEFINE e == archive[next]
<1>1. DirectoryBefore(next) => ParentExists(e.path)
  <2>1. SUFFICES ASSUME NEW j \in 1 .. next - 1,
                        archive[j].path = Front(e.path), archive[j].kind = "dir"
                 PROVE  Front(e.path) \in {p \in DOMAIN out : out[p] = "dir"}
    BY DEF DirectoryBefore, ParentExists
  <2>2. archive[j].path \in DOMAIN out
    BY DEF Unpacks
  <2>3. out[archive[j].path] = "dir"
    BY <2>1 DEF Unpacks
  <2>4. QED
    BY <2>1, <2>2, <2>3
<1>2. ASSUME e.path \in DOMAIN out, e.kind = "dir" \/ out[e.path] = "dir"
      PROVE  \E j \in 1 .. next - 1 : archive[j].path = e.path /\ "dir" \in {e.kind, archive[j].kind}
  <2>1. PICK j \in 1 .. next - 1 : archive[j] = [path |-> e.path, kind |-> out[e.path]]
    BY <1>2 DEF Unpacks
  <2>2. archive[j].path = e.path /\ archive[j].kind = out[e.path]
    BY <2>1
  <2>3. QED
    BY <1>2, <2>2
<1>3. \/ ~BelowTop(e.path) \/ ~ParentExists(e.path)
      \/ e.path \in DOMAIN out /\ (e.kind = "dir" \/ out[e.path] = "dir")
  BY DEF Writable
<1>4. QED
  BY <1>1, <1>2, <1>3

\* unzip_file fails on a file that package has made only when its end is
\* missing, when the directory of the lab is not a single name, or when a file
\* and a directory of the tree have names with the same text; on one that a student
\* made only when an entry cannot be read, is outside of its directory, comes before
\* the directory that it is in, or names again a directory; and on both when the
\* disk of the builder is full.
THEOREM UnzippingFailuresHaveACause == TransferSpec => []UnzipFailureHasCause
<1>1. ASSUME ArchiveTypeOK, ArchiveInv
      PROVE  UnzipFailureHasCause
  <2>1. SUFFICES ASSUME step = "unzipFailed", whole, ~full
                 PROVE  \/ Ours /\ Len(lab.top) > 1
                        \/ Ours /\ \E p, q \in Kept : /\ ZipPath(p) = ZipPath(q)
                                                      /\ tree[p] = "dir" /\ tree[q] # "dir"
                        \/ /\ ~Ours
                           /\ \/ ~Readable(next)
                              \/ \E i \in DOMAIN archive :
                                   \/ ~BelowTop(archive[i].path)
                                   \/ ~DirectoryBefore(i)
                                   \/ \E j \in 1 .. i - 1 :
                                        /\ archive[j].path = archive[i].path
                                        /\ "dir" \in {archive[i].kind, archive[j].kind}
    BY DEF UnzipFailureHasCause
  <2>2. Unpacks /\ LabIs /\ TreeIs /\ archive \in Seq(Entry)
    BY <1>1, Typed DEF ArchiveInv
  <2>3. next \in 1 .. Len(archive) /\ ~(Readable(next) /\ Writable(archive[next]))
    <3>1. next <= Len(archive) /\ ~(Readable(next) /\ Writable(archive[next]))
      BY <2>1, <2>2 DEF Unpacks
    <3>2. QED
      BY <1>1, <3>1, Typed
  <2>4. ASSUME Readable(next)
        PROVE  \/ ~BelowTop(archive[next].path)
               \/ ~DirectoryBefore(next)
               \/ \E j \in 1 .. next - 1 : /\ archive[j].path = archive[next].path
                                           /\ "dir" \in {archive[next].kind, archive[j].kind}
    BY <2>2, <2>3, <2>4, WhyNotWritable
  <2>5. CASE ~Ours
    BY <2>2, <2>3, <2>4, <2>5
  <2>6. CASE Ours /\ ~(Len(lab.top) > 1)
    <3>1. HoldsIn(Kept, archive)
      BY <1>1, <2>1, <2>6, HoldsIs DEF ArchiveInv, Ours
    <3>8. Readable(next)
      BY <1>1, <2>6 DEF ArchiveInv, Ours, Readable
    <3>2. BelowTop(archive[next].path) /\ DirectoryBefore(next)
      <4>1. CASE next = 1
        <5>1. archive[next].path = lab.top
          BY <3>1, <4>1 DEF HoldsIn, TopEntry
        <5>2. Len(lab.top) \in Nat \ {0} /\ lab.top \in Seq(Names)
          BY <2>2 DEF LabIs
        <5>3. Len(lab.top) = 1
          <6> DEFINE l == Len(lab.top)
          <6>1. l \in Nat \ {0} /\ ~(l > 1)
            BY <2>6, <5>2
          <6> HIDE DEF l
          <6>2. l = 1
            BY <6>1
          <6>3. QED
            BY <6>2 DEF l
        <5>4. IsPrefix(lab.top, lab.top)
          BY <5>2 DEF IsPrefix
        <5>5. QED
          BY <5>1, <5>3, <5>4 DEF BelowTop, DirectoryBefore
      <4>2. CASE next # 1
        <5>1. next \in 2 .. Len(archive)
          BY <2>3, <4>2
        <5>2. HasParent(archive, next)
          BY <3>1, <5>1 DEF HoldsIn
        <5>3. PICK p \in Kept : archive[next] = EntryOf(p)
          BY <3>1, <5>1 DEF HoldsIn
        <5>4. p \in Seq(Names)
          BY <2>2 DEF TreeIs, Kept
        <5>5. BelowTop(ZipPath(p))
          BY <2>2, <5>4, ZipPathIs
        <5>6. QED
          BY <5>2, <5>3, <5>5 DEF HasParent, DirectoryBefore, EntryOf
      <4>3. QED
        BY <4>1, <4>2
    <3>3. PICK j \in 1 .. next - 1 : /\ archive[j].path = archive[next].path
                                     /\ "dir" \in {archive[next].kind, archive[j].kind}
      BY <2>4, <3>8, <3>2
    <3>4. next \in DOMAIN archive /\ j \in DOMAIN archive /\ j # next
      BY <2>2, <2>3
    <3>5. PICK p \in Kept, q \in Kept : /\ ZipPath(p) = ZipPath(q)
                                        /\ tree[p] = "dir" <=> tree[q] # "dir"
      BY <2>2, <3>1, <3>3, <3>4, ClashOfHeld
    <3>6. \/ tree[p] = "dir" /\ tree[q] # "dir"
          \/ tree[q] = "dir" /\ tree[p] # "dir"
      BY <3>5
    <3>7. QED
      BY <2>6, <3>5, <3>6
  <2>7. QED
    BY <2>5, <2>6
<1>2. TransferInv => ArchiveTypeOK /\ ArchiveInv
  BY DEF TransferInv, TransferTypeOK
<1>3. QED
  BY <1>1, <1>2, TransferInvariant, PTL

\* What the builder unzips is what the student pushed: when unzip_file has ended
\* well on a file that package has made, its directory holds each file and
\* directory of the clone below top, a file executable as it was, the witness of
\* the lab among them, and nothing else.
THEOREM TheTreeIsKept == TransferSpec => []RoundTrip
<1>1. ASSUME ArchiveTypeOK, ArchiveInv
      PROVE  RoundTrip
  <2>1. SUFFICES ASSUME Ours, step = "unzipped"
                 PROVE  /\ DOMAIN out = {lab.top} \cup {ZipPath(p) : p \in Kept}
                        /\ \A p \in Kept : out[ZipPath(p)] = tree[p]
                        /\ lab.witness # << >> =>
                             \E p \in DOMAIN out : /\ p = ZipPath(lab.witness)
                                                   /\ out[p] \in {"file", "exec"}
    BY DEF RoundTrip
  <2>2. Unpacks /\ LabIs /\ TreeIs /\ archive \in Seq(Entry)
    BY <1>1, Typed DEF ArchiveInv
  <2>3. Triggered /\ HoldsIn(Kept, archive)
    BY <1>1, <2>1, HoldsIs DEF ArchiveInv, Ours
  <2>4. 1 .. next - 1 = 1 .. Len(archive) /\ DOMAIN archive = 1 .. Len(archive)
    BY <2>1, <2>2 DEF Unpacks
  <2>5. DOMAIN out = {archive[i].path : i \in DOMAIN archive}
    BY <2>2, <2>4 DEF Unpacks
  <2>6. \A p \in Kept : \E i \in DOMAIN archive : archive[i] = EntryOf(p)
    BY <2>3, <2>4 DEF HoldsIn
  <2>7. 1 \in DOMAIN archive /\ archive[1].path = lab.top
    BY <2>2, <2>3 DEF HoldsIn, TopEntry
  <2>8. \A i \in DOMAIN archive :
          archive[i].path = lab.top \/ \E p \in Kept : archive[i].path = ZipPath(p)
    <3>1. TAKE i \in DOMAIN archive
    <3>2. CASE i = 1
      BY <2>7, <3>2
    <3>3. CASE i # 1
      <4>1. i \in 2 .. Len(archive)
        BY <2>4, <3>3
      <4>2. PICK p \in Kept : archive[i] = EntryOf(p)
        BY <2>3, <4>1 DEF HoldsIn
      <4>3. QED
        BY <4>2 DEF EntryOf
    <3>4. QED
      BY <3>2, <3>3
  <2>9. DOMAIN out = {lab.top} \cup {ZipPath(p) : p \in Kept}
    <3>1. \A p \in Kept : ZipPath(p) \in DOMAIN out
      BY <2>5, <2>6 DEF EntryOf
    <3>2. lab.top \in DOMAIN out
      BY <2>5, <2>7
    <3>3. QED
      BY <2>5, <2>8, <3>1, <3>2
  <2>10. ASSUME NEW p \in Kept
         PROVE  out[ZipPath(p)] = tree[p]
    <3>1. PICK i \in DOMAIN archive : archive[i] = EntryOf(p)
      BY <2>6
    <3>2. archive[i].path = ZipPath(p) /\ archive[i].kind = tree[p]
      BY <3>1 DEF EntryOf
    <3>3. PICK j \in DOMAIN archive :
            archive[j] = [path |-> ZipPath(p), kind |-> out[ZipPath(p)]]
      BY <2>2, <2>4, <2>9 DEF Unpacks
    <3>4. archive[j].path = ZipPath(p) /\ archive[j].kind = out[ZipPath(p)]
      BY <3>3
    <3>5. i = j
      <4>1. SUFFICES ASSUME i # j PROVE FALSE
        OBVIOUS
      <4>2. archive[i].kind # "dir" /\ archive[j].kind # "dir"
        BY <2>2, <2>4, <3>2, <3>4, <4>1 DEF Unpacks
      <4>3. SameName(archive[i], archive[j])
        BY <3>2, <3>4, <4>2 DEF SameName
      <4>4. QED
        BY <2>3, <4>1, <4>3 DEF HoldsIn
    <3>6. QED
      BY <3>2, <3>4, <3>5
  <2>11. ASSUME lab.witness # << >>
         PROVE  \E p \in DOMAIN out : p = ZipPath(lab.witness) /\ out[p] \in {"file", "exec"}
    <3>1. lab.witness \in Kept /\ tree[lab.witness] \in {"file", "exec"}
      BY <2>3, <2>11 DEF Triggered, Kept
    <3>2. ZipPath(lab.witness) \in DOMAIN out
      BY <2>9, <3>1
    <3>3. out[ZipPath(lab.witness)] \in {"file", "exec"}
      BY <2>10, <3>1
    <3>4. QED
      BY <3>2, <3>3
  <2>12. QED
    BY <2>9, <2>10, <2>11
<1>2. TransferInv => ArchiveTypeOK /\ ArchiveInv
  BY DEF TransferInv, TransferTypeOK
<1>3. QED
  BY <1>1, <1>2, TransferInvariant, PTL
=============================================================================
