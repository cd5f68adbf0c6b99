------------------------- MODULE FileManager_proofs -------------------------
(***************************************************************************)
(* Proofs about the file manager, for any number of windows, calls,        *)
(* folders and files: the types; that the trail of a user who waits leads  *)
(* to the folder that the table shows, and the table is current; and that  *)
(* no file disappears but by its name.                                     *)
(***************************************************************************)
EXTENDS FileProperties, SequenceTheorems, FiniteSetTheorems, TLAPS

(* What a call carries, by its kind.                                       *)
CallOK(c) ==
    /\ c \in Call
    /\ c.op = "folderinfo" => c.w \in Windows
    /\ c.op = "newfolder" => Len(c.path) < MaxDepth /\ c.name \in FolderNames
    /\ c.op = "newfolder" /\ c.stage = "checked" => c.path \in Paths
    /\ c.op = "upload" => c.name \in FileNames

(* The calls of a window are finitely many, so that the next one has a     *)
(* number of its own.                                                      *)
TypeInv ==
    /\ DiskTypeOK
    /\ win \in [Windows -> Window]
    /\ \A c \in calls : CallOK(c)
    /\ acts \in [Windows -> Nat]
    /\ \A w \in Windows : IsFiniteSet(CallsOf(w))

(* The rows of a table are those of a folder: folders in it, and files.    *)
RowsBelong(rows, dir) ==
    \A row \in rows : \/ row.type = "folder" /\ row.path # Root /\ Parent(row.path) = dir
                      \/ \E f \in FileNames : row = FileRow(f)

TrailEnds(window) ==
    /\ window.crumbs = Chain(window.dir) /\ window.destination = window.dir
    /\ window.dir \in Paths
    /\ RowsBelong(window.rows, window.dir)

UpToDate(window) == window.fresh => window.rows = Listing(window.dir)

(* A dialog that is open was opened from the table that is there.          *)
DialogOf(window) ==
    /\ window.dialog.here /\ window.dialog.row \in window.rows
    /\ window.dialog.path = IF window.dialog.row.type = "folder" THEN window.dialog.row.path
                            ELSE window.dir

(* What the window of a user who waits is like while its call c is on the  *)
(* way, unless c has failed: the answer will complete the trail, bring the *)
(* rows, or take the row away.                                             *)
AwaitsFolder(window, c) ==
    /\ c.stage \in {"sent", "ok"}
    /\ c.named /\ c.path \in Paths
    /\ (IF c.addBreadCrumb THEN Append(window.crumbs, c.path) ELSE window.crumbs) = Chain(c.path)
    /\ c.stage = "ok" => RowsBelong(c.rows, c.path) /\ (c.fresh => c.rows = Listing(c.path))

AwaitsDeletion(window, c) ==
    /\ TrailEnds(window)
    /\ c.stage \in {"sent", "ok"}
    /\ c.here /\ c.path = window.dir
    /\ c.stage = "sent" => UpToDate(window)
    /\ c.stage = "ok" =>
          (window.fresh => window.rows \ {FileRow(c.name)} = Listing(window.dir))

AwaitsChange(window, c) == TrailEnds(window) /\ (c.stage # "ok" => UpToDate(window))

Awaits(window, c) ==
    c.stage # "failed" =>
       /\ c.op = "folderinfo" => AwaitsFolder(window, c)
       /\ c.op = "deletefile" => AwaitsDeletion(window, c)
       /\ c.op \in {"deletefolder", "newfolder", "upload"} => AwaitsChange(window, c)

(* Two calls that may be on the way at once: those of a file that was      *)
(* dropped, the upload and the listings before and after it.               *)
MayMeet(c, d) ==
    /\ c.op \in {"folderinfo", "upload"} /\ ~c.addBreadCrumb
    /\ d.op \in {"folderinfo", "upload"} /\ ~d.addBreadCrumb
    /\ c.op = "folderinfo" \/ d.op = "folderinfo"

(* A user who waits has no other two calls on the way, none at all while a *)
(* dialog is open, and otherwise a window that is as it should be.         *)
WaitsIn(window, own) ==
    /\ \A c, d \in own : c = d \/ MayMeet(c, d)
    /\ window.dialog # NoDialog => own = {} /\ DialogOf(window)
    /\ own = {} => TrailEnds(window) /\ UpToDate(window)
    /\ \A c \in own : Awaits(window, c)

Waits(w) == ~win[w].failed => WaitsIn(win[w], CallsOf(w))

FileInv == TypeInv /\ \A w \in Patient : Waits(w)

-----------------------------------------------------------------------------
(* Paths and trails. *)

(* A path is a sequence of names, not longer than is allowed ... *)
LEMMA PathIsSequence ==
    ASSUME NEW p \in Paths
    PROVE  /\ p \in Seq(FolderNames) /\ Len(p) \in 0..MaxDepth
           /\ p \in [1..Len(p) -> FolderNames]
  <1>1. PICK k \in 0..MaxDepth : p \in [1..k -> FolderNames]
    BY DEF Paths
  <1>2. k \in Nat
    BY FolderAssumption DEF FolderAssumption
  <1>3. p \in Seq(FolderNames)
    BY <1>1, <1>2, SeqDef
  <1>4. Len(p) = k
    BY <1>1, <1>2, <1>3, LenProperties
  <1> QED
    BY <1>1, <1>3, <1>4

(* ... and every such sequence is one. *)
LEMMA SequenceIsPath ==
    ASSUME NEW p \in Seq(FolderNames), Len(p) <= MaxDepth
    PROVE  p \in Paths
  <1>1. Len(p) \in 0..MaxDepth /\ p \in [1..Len(p) -> FolderNames]
    BY LenProperties, FolderAssumption DEF FolderAssumption
  <1> QED
    BY <1>1 DEF Paths

LEMMA RootIsPath == Root \in Paths
  <1>1. Root \in Seq(FolderNames) /\ Len(Root) = 0
    BY EmptySeq DEF Root
  <1>2. Len(Root) <= MaxDepth
    BY <1>1, FolderAssumption DEF FolderAssumption
  <1> HIDE DEF Root
  <1> QED
    BY <1>1, <1>2, SequenceIsPath, Zenon

(* What lies above a path is one, too.                                     *)
LEMMA PrefixIsPath ==
    ASSUME NEW p \in Paths, NEW k \in 0..Len(p)
    PROVE  /\ SubSeq(p, 1, k) \in Paths /\ Len(SubSeq(p, 1, k)) = k
           /\ \A i \in 1..k : SubSeq(p, 1, k)[i] = p[i]
  <1>1. p \in Seq(FolderNames) /\ Len(p) \in 0..MaxDepth /\ MaxDepth \in Nat
    BY PathIsSequence, FolderAssumption DEF FolderAssumption
  <1>2. \A i \in 1..k : p[i] \in FolderNames
    BY <1>1, ElementOfSeq
  <1>3. /\ SubSeq(p, 1, k) \in Seq(FolderNames)
        /\ Len(SubSeq(p, 1, k)) = IF 1 <= k THEN k - 1 + 1 ELSE 0
        /\ \A i \in 1..(k - 1 + 1) : SubSeq(p, 1, k)[i] = p[1 + i - 1]
    BY <1>1, <1>2, SubSeqProperties
  <1>4. Len(SubSeq(p, 1, k)) = k
    BY <1>1, <1>3
  <1>5. \A i \in 1..k : SubSeq(p, 1, k)[i] = p[i]
    BY <1>1, <1>3
  <1>6. Len(SubSeq(p, 1, k)) <= MaxDepth
    BY <1>1, <1>4
  <1>7. SubSeq(p, 1, k) \in Paths
    BY <1>3, <1>6, SequenceIsPath, Zenon
  <1> QED
    BY <1>4, <1>5, <1>7, Zenon

(* What lies below a path is one, as long as it is not too deep. *)
LEMMA ChildIsPath ==
    ASSUME NEW p \in Paths, Len(p) < MaxDepth, NEW name \in FolderNames
    PROVE  Append(p, name) \in Paths
  <1>1. p \in Seq(FolderNames) /\ Len(p) \in Nat /\ MaxDepth \in Nat
    BY PathIsSequence, FolderAssumption DEF FolderAssumption
  <1>2. Append(p, name) \in Seq(FolderNames) /\ Len(Append(p, name)) = Len(p) + 1
    BY <1>1, AppendProperties
  <1>3. Len(Append(p, name)) <= MaxDepth
    BY <1>1, <1>2
  <1> QED
    BY <1>2, <1>3, SequenceIsPath, Zenon

(* Two paths are equal if their names are. *)
LEMMA SamePath ==
    ASSUME NEW p \in Paths, NEW q \in Paths, Len(p) = Len(q),
           \A i \in 1..Len(p) : p[i] = q[i]
    PROVE  p = q
  BY PathIsSequence, SeqEqual

(* The trail to a path, crumb by crumb.                                    *)
LEMMA ChainIsTrail ==
    ASSUME NEW p \in Paths
    PROVE  /\ Chain(p) \in Seq(Paths) /\ Len(Chain(p)) = Len(p) + 1 /\ Chain(p) # <<>>
           /\ \A i \in 1..(Len(p) + 1) : Chain(p)[i] = SubSeq(p, 1, i - 1)
           /\ CurrentPath(Chain(p)) = p
  <1> DEFINE n == Len(p) + 1
  <1>1. Len(p) \in Nat /\ n \in Nat \ {0}
    BY PathIsSequence, FolderAssumption DEF FolderAssumption
  <1>2. \A i \in 1..n : SubSeq(p, 1, i - 1) \in Paths
    BY <1>1, PrefixIsPath
  <1>3. Chain(p) \in [1..n -> Paths]
    BY <1>2 DEF Chain
  <1>4. Chain(p) \in Seq(Paths)
    BY <1>1, <1>3, SeqDef
  <1>5. Len(Chain(p)) = n
    BY <1>1, <1>3, <1>4, LenProperties
  <1>6. \A i \in 1..n : Chain(p)[i] = SubSeq(p, 1, i - 1)
    BY DEF Chain
  <1>7. Chain(p) # <<>>
    BY <1>1, <1>5
  <1>8. Chain(p)[n] = p
    <2>1. Chain(p)[n] = SubSeq(p, 1, Len(p))
      BY <1>1, <1>6
    <2> QED
      BY <2>1, PathIsSequence, SubSeqFull
  <1> QED
    BY <1>4, <1>5, <1>6, <1>7, <1>8 DEF CurrentPath, Last

(* Two trails are equal if their crumbs are.                               *)
LEMMA TrailIsChain ==
    ASSUME NEW p \in Paths, NEW s \in Seq(Paths), Len(s) = Len(p) + 1,
           \A i \in 1..(Len(p) + 1) : s[i] = SubSeq(p, 1, i - 1)
    PROVE  s = Chain(p)
  BY ChainIsTrail, SeqEqual

(* The first crumb of all, and the crumb of a folder that is opened.       *)
LEMMA ChainOfRoot == Append(<<>>, Root) = Chain(Root)
  <1>1. <<>> \in Seq(Paths) /\ Len(<<>>) = 0 /\ Root \in Paths /\ Len(Root) = 0
    BY EmptySeq, RootIsPath DEF Root
  <1>2. /\ Append(<<>>, Root) \in Seq(Paths) /\ Len(Append(<<>>, Root)) = 1
        /\ Append(<<>>, Root)[1] = Root
    BY <1>1, AppendProperties
  <1>3. SubSeq(Root, 1, 0) = Root
    BY <1>1, PathIsSequence, SubSeqFull
  <1>4. \A i \in 1..(Len(Root) + 1) : Append(<<>>, Root)[i] = SubSeq(Root, 1, i - 1)
    <2>1. \A i \in 1..(Len(Root) + 1) : i = 1 /\ i - 1 = 0
      BY <1>1
    <2> QED
      BY <1>2, <1>3, <2>1
  <1>5. Len(Append(<<>>, Root)) = Len(Root) + 1
    BY <1>1, <1>2
  <1> QED
    BY <1>1, <1>2, <1>4, <1>5, TrailIsChain, Zenon

(* The trail to a folder is the trail to its parent and the folder's       *)
(* crumb.                                                                  *)
LEMMA ChainOfChild ==
    ASSUME NEW p \in Paths, p # Root
    PROVE  /\ Parent(p) \in Paths
           /\ Append(Chain(Parent(p)), p) = Chain(p)
  <1> DEFINE m == Len(p) - 1
             s == Append(Chain(Parent(p)), p)
  <1>1. Len(p) \in Nat \ {0} /\ p \in Seq(FolderNames)
    BY PathIsSequence, EmptySeq DEF Root
  <1>2. /\ m \in 0..Len(p) /\ Parent(p) = SubSeq(p, 1, m)
    BY <1>1 DEF Parent, Front
  <1>3. Parent(p) \in Paths /\ Len(Parent(p)) = m /\ \A i \in 1..m : Parent(p)[i] = p[i]
    BY <1>2, PrefixIsPath
  <1>4. Chain(Parent(p)) \in Seq(Paths) /\ Len(Chain(Parent(p))) = Len(p)
    BY <1>1, <1>3, ChainIsTrail
  <1>5. /\ s \in Seq(Paths) /\ Len(s) = Len(p) + 1
        /\ \A i \in 1..Len(p) : s[i] = Chain(Parent(p))[i]
        /\ s[Len(p) + 1] = p
    BY <1>4, AppendProperties
  <1> HIDE DEF s
  <1>6. \A i \in 1..Len(p) : s[i] = SubSeq(p, 1, i - 1)
    <2> SUFFICES ASSUME NEW i \in 1..Len(p) PROVE s[i] = SubSeq(p, 1, i - 1)
      OBVIOUS
    <2>a. i \in 1..(Len(Parent(p)) + 1)
      BY <1>1, <1>3
    <2>1. s[i] = SubSeq(Parent(p), 1, i - 1)
      BY <1>3, <1>5, <2>a, ChainIsTrail, Zenon
    <2>2. i - 1 \in 0..Len(p) /\ i - 1 \in 0..m
      BY <1>1
    <2>3. /\ SubSeq(Parent(p), 1, i - 1) \in Paths /\ Len(SubSeq(Parent(p), 1, i - 1)) = i - 1
          /\ \A j \in 1..(i - 1) : SubSeq(Parent(p), 1, i - 1)[j] = Parent(p)[j]
      BY <1>3, <2>2, PrefixIsPath
    <2>4. /\ SubSeq(p, 1, i - 1) \in Paths /\ Len(SubSeq(p, 1, i - 1)) = i - 1
          /\ \A j \in 1..(i - 1) : SubSeq(p, 1, i - 1)[j] = p[j]
      BY <2>2, PrefixIsPath
    <2>5. \A j \in 1..(i - 1) : Parent(p)[j] = p[j]
      BY <1>3, <2>2
    <2> QED
      BY <2>1, <2>3, <2>4, <2>5, SamePath
  <1>7. s[Len(p) + 1] = SubSeq(p, 1, Len(p))
    BY <1>1, <1>5, SubSeqFull
  <1>8. \A i \in 1..(Len(p) + 1) : s[i] = SubSeq(p, 1, i - 1)
    <2>1. \A i \in 1..(Len(p) + 1) : i \in 1..Len(p) \/ (i = Len(p) + 1 /\ i - 1 = Len(p))
      BY <1>1
    <2> QED
      BY <1>6, <1>7, <2>1
  <1>9. s = Chain(p)
    BY <1>5, <1>8, TrailIsChain
  <1> QED
    BY <1>3, <1>9 DEF s

(* The last crumb is taken off and put back.                               *)
LEMMA ChainOfSame ==
    ASSUME NEW p \in Paths
    PROVE  Append(Front(Chain(p)), p) = Chain(p)
  <1> DEFINE s == Front(Chain(p))
  <1>1. /\ Len(p) \in Nat /\ p \in Seq(FolderNames)
        /\ Chain(p) \in Seq(Paths) /\ Len(Chain(p)) = Len(p) + 1
        /\ \A i \in 1..(Len(p) + 1) : Chain(p)[i] = SubSeq(p, 1, i - 1)
    BY PathIsSequence, ChainIsTrail
  <1>2. \A i \in 1..Len(p) : Chain(p)[i] \in Paths
    BY <1>1, ElementOfSeq
  <1>3. s = SubSeq(Chain(p), 1, Len(p))
    BY <1>1 DEF Front
  <1>4. s \in Seq(Paths) /\ Len(s) = Len(p) /\ \A i \in 1..Len(p) : s[i] = Chain(p)[i]
    BY <1>1, <1>2, <1>3, SubSeqProperties
  <1> HIDE DEF s
  <1>5. /\ Append(s, p) \in Seq(Paths) /\ Len(Append(s, p)) = Len(p) + 1
        /\ \A i \in 1..Len(p) : Append(s, p)[i] = s[i]
        /\ Append(s, p)[Len(p) + 1] = p
    BY <1>4, AppendProperties
  <1>6. SubSeq(p, 1, Len(p)) = p
    BY <1>1, SubSeqFull
  <1>7. \A i \in 1..(Len(p) + 1) : Append(s, p)[i] = SubSeq(p, 1, i - 1)
    <2>1. \A i \in 1..(Len(p) + 1) : i \in 1..Len(p) \/ (i = Len(p) + 1 /\ i - 1 = Len(p))
      BY <1>1
    <2> QED
      BY <1>1, <1>4, <1>5, <1>6, <2>1
  <1>8. Append(s, p) = Chain(p)
    BY <1>5, <1>7, TrailIsChain
  <1> QED
    BY <1>8 DEF s

(* A crumb that is clicked, and the trail that is left.                    *)
LEMMA ChainOfCrumb ==
    ASSUME NEW p \in Paths, NEW i \in 1..(Len(p) + 1)
    PROVE  /\ Chain(p)[i] \in Paths
           /\ SubSeq(Chain(p), 1, i) = Chain(Chain(p)[i])
  <1> DEFINE q == SubSeq(p, 1, i - 1)
             s == SubSeq(Chain(p), 1, i)
  <1>1. /\ Len(p) \in Nat /\ p \in Seq(FolderNames)
        /\ Chain(p) \in Seq(Paths) /\ Len(Chain(p)) = Len(p) + 1
        /\ \A j \in 1..(Len(p) + 1) : Chain(p)[j] = SubSeq(p, 1, j - 1)
    BY PathIsSequence, ChainIsTrail
  <1>2. i - 1 \in 0..Len(p) /\ i \in Nat \ {0}
    BY <1>1
  <1>3. q \in Paths /\ Len(q) = i - 1 /\ \A j \in 1..(i - 1) : q[j] = p[j]
    BY <1>2, PrefixIsPath
  <1>4. \A j \in 1..i : Chain(p)[j] \in Paths
    BY <1>1, ElementOfSeq
  <1>5. s \in Seq(Paths) /\ Len(s) = i /\ \A j \in 1..i : s[j] = Chain(p)[j]
    BY <1>2, <1>4, SubSeqProperties
  <1>6. Chain(p)[i] = q
    BY <1>1
  <1> HIDE DEF q, s
  <1>7. \A j \in 1..i : s[j] = SubSeq(q, 1, j - 1)
    <2> SUFFICES ASSUME NEW j \in 1..i PROVE s[j] = SubSeq(q, 1, j - 1)
      OBVIOUS
    <2>a. j \in 1..(Len(p) + 1) /\ j - 1 \in 0..Len(p) /\ j - 1 \in 0..Len(q)
      BY <1>1, <1>2, <1>3
    <2>1. s[j] = SubSeq(p, 1, j - 1) /\ j - 1 \in 0..Len(p) /\ j - 1 \in 0..Len(q)
      BY <1>1, <1>5, <2>a, Zenon
    <2>2. /\ SubSeq(p, 1, j - 1) \in Paths /\ Len(SubSeq(p, 1, j - 1)) = j - 1
          /\ \A n \in 1..(j - 1) : SubSeq(p, 1, j - 1)[n] = p[n]
      BY <2>1, PrefixIsPath
    <2>3. /\ SubSeq(q, 1, j - 1) \in Paths /\ Len(SubSeq(q, 1, j - 1)) = j - 1
          /\ \A n \in 1..(j - 1) : SubSeq(q, 1, j - 1)[n] = q[n]
      BY <1>3, <2>1, PrefixIsPath
    <2>4. \A n \in 1..(j - 1) : q[n] = p[n]
      BY <1>2, <1>3
    <2> QED
      BY <2>1, <2>2, <2>3, <2>4, SamePath
  <1>8. s = Chain(q)
    <2>1. Len(s) = Len(q) + 1 /\ 1..(Len(q) + 1) = 1..i
      BY <1>2, <1>3, <1>5
    <2> QED
      BY <1>3, <1>5, <1>7, <2>1, TrailIsChain
  <1> QED
    BY <1>3, <1>6, <1>8 DEF s

-----------------------------------------------------------------------------
(* Calls and windows. *)

(* A path can be asked for. *)
LEMMA UrlPathTypes ==
    /\ Root \in UrlPaths /\ NullPath \in UrlPaths /\ Paths \subseteq UrlPaths
    /\ NullPath # Root
  BY RootIsPath DEF UrlPaths, NullPath, Root

(* A row of a table, and what it is the row of. *)
LEMMA RowTypes ==
    /\ NoRow \in Rows
    /\ \A p \in Paths : FolderRow(p) \in Rows /\ FolderRow(p).type = "folder"
                        /\ FolderRow(p).path = p /\ FolderRow(p).name = "none"
    /\ \A f \in FileNames : FileRow(f) \in Rows /\ FileRow(f).type = "file"
                            /\ FileRow(f).name = f
    /\ \A row \in Rows : /\ row.path \in Paths
                         /\ row.name \in FileNames \cup {"none"}
  <1>1. \A p \in Paths : FolderRow(p) \in Rows /\ FolderRow(p).type = "folder"
                         /\ FolderRow(p).path = p /\ FolderRow(p).name = "none"
    BY DEF Rows, FolderRow
  <1>2. \A f \in FileNames : FileRow(f) \in Rows /\ FileRow(f).type = "file"
                             /\ FileRow(f).name = f /\ FileRow(f).path = Root
    BY DEF Rows, FileRow
  <1>3. NoRow \in Rows /\ NoRow.path = Root /\ NoRow.name = "none"
    BY DEF Rows, NoRow
  <1>4. \A row \in Rows : /\ row.path \in Paths
                          /\ row.name \in FileNames \cup {"none"}
    BY <1>1, <1>2, <1>3, RootIsPath DEF Rows
  <1> QED
    BY <1>1, <1>2, <1>3, <1>4

(* The listing of a folder is rows that belong to it. *)
LEMMA ListingTypes ==
    ASSUME DiskTypeOK, NEW dir
    PROVE  Listing(dir) \subseteq Rows /\ RowsBelong(Listing(dir), dir)
  <1>1. \A p \in ChildFolders(dir) : p \in Paths /\ p # Root /\ Parent(p) = dir
    BY DEF ChildFolders, DiskTypeOK
  <1>2. \A f \in FilesIn(dir) : f.name \in FileNames
    BY DEF FilesIn, DiskTypeOK
  <1>3. ASSUME NEW row \in Listing(dir)
        PROVE  /\ row \in Rows
               /\ \/ row.type = "folder" /\ row.path # Root /\ Parent(row.path) = dir
                  \/ \E f \in FileNames : row = FileRow(f)
    <2>1. CASE \E p \in ChildFolders(dir) : row = FolderRow(p)
      BY <1>1, <2>1, RowTypes
    <2>2. CASE \E f \in FilesIn(dir) : row = FileRow(f.name)
      BY <1>2, <2>2, RowTypes
    <2> QED
      BY <1>3, <2>1, <2>2 DEF Listing
  <1> QED
    BY <1>3 DEF RowsBelong

(* A window that has just been opened. *)
LEMMA LoadingTypes ==
    /\ Loading \in Window /\ Loading.crumbs = <<>> /\ Loading.dialog = NoDialog
    /\ ~Loading.failed
  <1>1. NoDialog \in Dialog
    BY RowTypes, UrlPathTypes DEF Dialog, NoDialog
  <1>2. <<>> \in Seq(UrlPaths)
    BY EmptySeq
  <1> QED
    BY <1>1, <1>2, UrlPathTypes DEF Loading, Window

(* There are only so many calls, so one of so many numbers and one more is *)
(* not taken.                                                              *)
LEMMA FreeNumberIsNumber ==
    ASSUME NEW S, IsFiniteSet(S)
    PROVE  FreeNumber(S) \in Nat
  <1> DEFINE k == Cardinality(S)
             Taken(n) == \E c \in S : c.n = n
             holder == [n \in 1..(k + 1) |-> CHOOSE c \in S : c.n = n]
  <1>1. k \in Nat
    BY FS_CardinalityType
  <1> HIDE DEF k
  <1>2. IsFiniteSet(1..(k + 1)) /\ Cardinality(1..(k + 1)) = k + 1
    BY <1>1, FS_Interval
  <1>3. \E n \in 1..(k + 1) : ~Taken(n)
    <2> SUFFICES ASSUME \A n \in 1..(k + 1) : Taken(n) PROVE FALSE
      OBVIOUS
    <2>1. \A n \in 1..(k + 1) : holder[n] \in S /\ holder[n].n = n
      OBVIOUS
    <2>2. holder \in [1..(k + 1) -> S]
      BY <2>1
    <2> HIDE DEF holder
    <2>3. Cardinality(S) < Cardinality(1..(k + 1))
      BY <1>1, <1>2 DEF k
    <2>4. \E x, y \in 1..(k + 1) : x # y /\ holder[x] = holder[y]
      BY <1>1, <1>2, <2>2, <2>3, FS_PigeonHole
    <2> QED
      BY <2>1, <2>4
  <1>4. FreeNumber(S) \in 1..(k + 1)
    BY <1>3 DEF FreeNumber, k
  <1> QED
    BY <1>1, <1>4

(* A call that nothing has been written to. *)
LEMMA BlankTypes ==
    ASSUME NEW w \in Windows
    PROVE  Blank(w) \in Call
  <1>1. (CHOOSE b \in Bodies : TRUE) \in Bodies
    BY FolderAssumption DEF FolderAssumption
  <1> QED
    BY <1>1, UrlPathTypes DEF Blank, Call, Operations

(* The call of a window that has just been opened. *)
LEMMA FirstCallTypes ==
    ASSUME NEW w \in Windows
    PROVE  /\ CallOK(FirstCall(w)) /\ FirstCall(w).w = w
           /\ Awaits(Loading, FirstCall(w))
  <1>1. Blank(w) \in Call
    BY BlankTypes
  <1>2. /\ FirstCall(w) \in Call /\ FirstCall(w).w = w /\ FirstCall(w).op = "folderinfo"
        /\ FirstCall(w).path = Root /\ FirstCall(w).addBreadCrumb /\ FirstCall(w).named
        /\ FirstCall(w).stage = "sent"
    BY <1>1 DEF FirstCall, Blank, Call
  <1>3. CallOK(FirstCall(w))
    BY <1>2 DEF CallOK
  <1>4. Awaits(Loading, FirstCall(w))
    BY <1>2, RootIsPath, ChainOfRoot, LoadingTypes DEF Awaits, AwaitsFolder
  <1> QED
    BY <1>2, <1>3, <1>4

(* A call that is being made. *)
LEMMA NewCallTypes ==
    ASSUME NEW w \in Windows, IsFiniteSet(CallsOf(w)), NEW op \in Operations,
           NEW path \in UrlPaths
    PROVE  /\ NewCall(w, op, path) \in Call
           /\ NewCall(w, op, path).w = w /\ NewCall(w, op, path).op = op
           /\ NewCall(w, op, path).path = path /\ NewCall(w, op, path).stage = "sent"
           /\ NewCall(w, op, path).named /\ ~NewCall(w, op, path).addBreadCrumb
  <1>1. Blank(w) \in Call /\ FreeNumber(CallsOf(w)) \in Nat
    BY BlankTypes, FreeNumberIsNumber
  <1> QED
    BY <1>1 DEF NewCall, Blank, Call

(* Where the script takes itself to be, when the trail ends at the table.  *)
LEMMA CurrentPathTypes ==
    ASSUME NEW crumbs \in Seq(UrlPaths)
    PROVE  CurrentPath(crumbs) \in UrlPaths
  <1>1. CASE crumbs = <<>>
    BY <1>1, UrlPathTypes DEF CurrentPath
  <1>2. CASE crumbs # <<>>
    <2>1. Len(crumbs) \in 1..Len(crumbs)
      BY <1>2, EmptySeq
    <2>2. crumbs[Len(crumbs)] \in UrlPaths
      BY <2>1, ElementOfSeq
    <2> QED
      BY <1>2, <2>2 DEF CurrentPath, Last
  <1> QED
    BY <1>1, <1>2

(* The call that lists a folder, and the one that lists the current one.   *)
LEMMA UpdateTypes ==
    ASSUME NEW w \in Windows, IsFiniteSet(CallsOf(w)), NEW path \in UrlPaths,
           NEW add \in BOOLEAN
    PROVE  /\ CallOK(Update(w, path, add)) /\ Update(w, path, add).w = w
           /\ Update(w, path, add).op = "folderinfo" /\ Update(w, path, add).path = path
           /\ Update(w, path, add).addBreadCrumb = add /\ Update(w, path, add).named
           /\ Update(w, path, add).stage = "sent"
  <1> DEFINE c == NewCall(w, "folderinfo", path)
  <1>1. /\ c \in Call /\ c.w = w /\ c.op = "folderinfo" /\ c.path = path
        /\ c.stage = "sent" /\ c.named
    BY NewCallTypes DEF Operations
  <1> HIDE DEF c
  <1>2. Update(w, path, add) = [c EXCEPT !.addBreadCrumb = add]
    BY DEF Update, c
  <1>3. [c EXCEPT !.addBreadCrumb = add] \in Call
    BY <1>1 DEF Call
  <1> QED
    BY <1>1, <1>2, <1>3 DEF CallOK, Call

LEMMA UpdateCurrentTypes ==
    ASSUME NEW w \in Windows, IsFiniteSet(CallsOf(w)), win \in [Windows -> Window],
           NEW add \in BOOLEAN
    PROVE  /\ CallOK(UpdateCurrent(w, add)) /\ UpdateCurrent(w, add).w = w
           /\ UpdateCurrent(w, add).op = "folderinfo"
           /\ UpdateCurrent(w, add).path = CurrentPath(win[w].crumbs)
           /\ UpdateCurrent(w, add).addBreadCrumb = add
           /\ UpdateCurrent(w, add).named = (win[w].crumbs # <<>>)
           /\ UpdateCurrent(w, add).stage = "sent"
  <1> DEFINE path == CurrentPath(win[w].crumbs)
             c == Update(w, path, add)
             named == win[w].crumbs # <<>>
  <1>1. path \in UrlPaths
    BY CurrentPathTypes DEF Window
  <1>2. /\ CallOK(c) /\ c.w = w /\ c.op = "folderinfo" /\ c.path = path
        /\ c.addBreadCrumb = add /\ c.stage = "sent"
    BY <1>1, UpdateTypes
  <1>3. UpdateCurrent(w, add) = [c EXCEPT !.named = named]
    BY DEF UpdateCurrent
  <1>4. named \in BOOLEAN
    OBVIOUS
  <1> HIDE DEF c, named
  <1>5. [c EXCEPT !.named = named] \in Call
    BY <1>2, <1>4 DEF CallOK, Call
  <1>6. UpdateCurrent(w, add).named = named
    BY <1>2, <1>3 DEF CallOK, Call
  <1>7. CallOK(UpdateCurrent(w, add))
    BY <1>2, <1>3, <1>5 DEF CallOK, Call
  <1>8. /\ UpdateCurrent(w, add).w = w /\ UpdateCurrent(w, add).op = "folderinfo"
        /\ UpdateCurrent(w, add).path = path /\ UpdateCurrent(w, add).addBreadCrumb = add
        /\ UpdateCurrent(w, add).stage = "sent"
    BY <1>2, <1>3 DEF CallOK, Call
  <1> QED
    BY <1>6, <1>7, <1>8 DEF named

-----------------------------------------------------------------------------
(* A window that waits, when something happens. *)

(* What is made of the members of a finite set is finitely many. *)
LEMMA ImageIsFinite ==
    ASSUME NEW S, IsFiniteSet(S), NEW T, NEW f \in [S -> T], \A y \in T : \E x \in S : f[x] = y
    PROVE  IsFiniteSet(T)
  <1>1. f \in Surjection(S, T)
    BY DEF Surjection
  <1> QED
    BY <1>1, FS_Surjection

(* What it has and awaits, as the rigid window and calls that it has now.  *)
LEMMA WaitsLater ==
    ASSUME NEW w, NEW window, NEW own, win'[w] = window, CallsOf(w)' = own,
           ~window.failed => WaitsIn(window, own)'
    PROVE  Waits(w)'
  <1>1. (~win[w].failed)' => WaitsIn(window, own)'
    OBVIOUS
  <1> QED
    BY <1>1 DEF Waits, WaitsIn, MayMeet, DialogOf, TrailEnds, UpToDate, Awaits, AwaitsFolder,
           AwaitsDeletion, AwaitsChange, Listing, ChildFolders, FilesIn

(* A listing depends on the disk alone. *)
LEMMA ListingUnchanged ==
    ASSUME UNCHANGED disk, NEW dir
    PROVE  Listing(dir)' = Listing(dir)
  BY DEF disk, Listing, ChildFolders, FilesIn

(* Nothing has happened to the window, its calls, or the disk.             *)
LEMMA WaitsUnchanged ==
    ASSUME NEW w, Waits(w), UNCHANGED <<disk, win[w], CallsOf(w)>>
    PROVE  Waits(w)'
  BY DEF Waits, WaitsIn, MayMeet, DialogOf, TrailEnds, UpToDate, Awaits, AwaitsFolder,
         AwaitsDeletion, AwaitsChange, Listing, ChildFolders, FilesIn, disk

(* What a window awaits of a call does not depend on the disk but through  *)
(* listings that are fresh.                                                *)
LEMMA AwaitsUnchanged ==
    ASSUME UNCHANGED disk, NEW window, NEW c, Awaits(window, c)
    PROVE  Awaits(window, c)'
  BY ListingUnchanged DEF Awaits, AwaitsFolder, AwaitsDeletion, AwaitsChange, UpToDate

LEMMA UpToDateUnchanged ==
    ASSUME UNCHANGED disk, NEW window, UpToDate(window)
    PROVE  UpToDate(window)'
  BY ListingUnchanged DEF UpToDate

(* Somebody else has changed the disk.                                     *)
LEMMA WaitsDisturbed ==
    ASSUME NEW window \in Window, NEW own \in SUBSET Call, WaitsIn(window, own),
           NEW window2, window2 = [window EXCEPT !.fresh = FALSE],
           NEW own2, own2 = {[c EXCEPT !.fresh = FALSE] : c \in own}
    PROVE  WaitsIn(window2, own2)'
  <1>1. /\ window2.crumbs = window.crumbs /\ window2.dir = window.dir
        /\ window2.rows = window.rows /\ window2.destination = window.destination
        /\ window2.dialog = window.dialog /\ ~window2.fresh
    BY DEF Window
  <1>2. TrailEnds(window) => TrailEnds(window2)
    BY <1>1 DEF TrailEnds
  <1>3. UpToDate(window2)'
    BY <1>1 DEF UpToDate
  <1>4. DialogOf(window) => DialogOf(window2)
    BY <1>1 DEF DialogOf
  <1>5. ASSUME NEW c \in own, NEW d, d = [c EXCEPT !.fresh = FALSE]
        PROVE  Awaits(window2, d)'
    <2>1. /\ d.op = c.op /\ d.path = c.path /\ d.named = c.named /\ d.name = c.name
          /\ d.addBreadCrumb = c.addBreadCrumb /\ d.here = c.here /\ d.stage = c.stage
          /\ d.rows = c.rows /\ ~d.fresh
      BY <1>5 DEF Call
    <2>2. Awaits(window, c)
      BY DEF WaitsIn
    <2>3. AwaitsFolder(window, c) => AwaitsFolder(window2, d)'
      BY <1>1, <2>1 DEF AwaitsFolder
    <2>4. AwaitsDeletion(window, c) => AwaitsDeletion(window2, d)'
      BY <1>1, <1>2, <1>3, <2>1 DEF AwaitsDeletion
    <2>5. AwaitsChange(window, c) => AwaitsChange(window2, d)'
      BY <1>2, <1>3, <2>1 DEF AwaitsChange
    <2> QED
      BY <2>1, <2>2, <2>3, <2>4, <2>5 DEF Awaits
  <1>6. \A c, d \in own2 : c = d \/ MayMeet(c, d)
    <2> SUFFICES ASSUME NEW c \in own, NEW d \in own, NEW c2, c2 = [c EXCEPT !.fresh = FALSE],
                        NEW d2, d2 = [d EXCEPT !.fresh = FALSE], c2 # d2
                 PROVE  MayMeet(c2, d2)
      BY DEF MayMeet
    <2>1. MayMeet(c, d)
      BY DEF WaitsIn
    <2>2. /\ c2.op = c.op /\ c2.addBreadCrumb = c.addBreadCrumb
          /\ d2.op = d.op /\ d2.addBreadCrumb = d.addBreadCrumb
      BY DEF Call
    <2> QED
      BY <2>1, <2>2 DEF MayMeet
  <1>7. own2 = {} <=> own = {}
    OBVIOUS
  <1>8. window2.dialog # NoDialog => own2 = {} /\ DialogOf(window2)
    BY <1>1, <1>4, <1>7 DEF WaitsIn
  <1>9. own2 = {} => TrailEnds(window2) /\ UpToDate(window2)'
    BY <1>2, <1>3, <1>7 DEF WaitsIn
  <1> QED
    BY <1>5, <1>6, <1>8, <1>9 DEF WaitsIn

(* A call of a window that waits, and what else it waits for.              *)
LEMMA OwnCall ==
    ASSUME FileInv, NEW c \in calls, c.w \in Patient, ~win[c.w].failed
    PROVE  /\ c \in CallsOf(c.w) /\ win[c.w].dialog = NoDialog
           /\ Awaits(win[c.w], c)
           /\ \A d \in CallsOf(c.w) \ {c} : MayMeet(c, d) /\ Awaits(win[c.w], d)
           /\ \A d, e \in CallsOf(c.w) : d = e \/ MayMeet(d, e)
  <1>1. c \in CallsOf(c.w)
    BY DEF CallsOf
  <1>2. WaitsIn(win[c.w], CallsOf(c.w))
    BY DEF FileInv, Waits
  <1> QED
    BY <1>1, <1>2 DEF WaitsIn

(* No call at all, of one that acts.                                       *)
LEMMA NoCall ==
    ASSUME FileInv, NEW w \in Patient, ~win[w].failed, CallsOf(w) = {}
    PROVE  TrailEnds(win[w]) /\ UpToDate(win[w])
  BY DEF FileInv, Waits, WaitsIn

(* After a step: the window has calls, and awaits them; or none.           *)
LEMMA WaitsForSome ==
    ASSUME NEW w, NEW window, NEW own, win'[w] = window, CallsOf(w)' = own,
           ~window.failed =>
              /\ window.dialog = NoDialog
              /\ \A c, d \in own : c = d \/ MayMeet(c, d)
              /\ \A c \in own : Awaits(window, c)'
              /\ own = {} => TrailEnds(window) /\ UpToDate(window)'
    PROVE  Waits(w)'
  <1>1. ~window.failed => WaitsIn(window, own)'
    BY DEF WaitsIn
  <1> QED
    BY <1>1, WaitsLater

LEMMA WaitsForOne ==
    ASSUME NEW w, NEW window, NEW c, win'[w] = window, CallsOf(w)' = {c},
           ~window.failed => window.dialog = NoDialog /\ Awaits(window, c)'
    PROVE  Waits(w)'
  <1>1. ~window.failed => WaitsIn(window, {c})'
    BY DEF WaitsIn
  <1> QED
    BY <1>1, WaitsLater

LEMMA WaitsForNone ==
    ASSUME NEW w, NEW window, win'[w] = window, CallsOf(w)' = {},
           ~window.failed => /\ TrailEnds(window) /\ UpToDate(window)'
                             /\ window.dialog # NoDialog => DialogOf(window)
    PROVE  Waits(w)'
  <1>1. ~window.failed => WaitsIn(window, {})'
    BY DEF WaitsIn
  <1> QED
    BY <1>1, WaitsLater

-----------------------------------------------------------------------------
(* The server at work. *)

(* A call on the way is that of a window, or of none any more. *)
LEMMA CallsTypes ==
    ASSUME TypeInv, NEW c \in calls
    PROVE  /\ c \in Call /\ CallOK(c) /\ c.w \in Windows \cup {"left"}
           /\ c.w \in Patient => c.w \in Windows
           /\ c.w \in Windows => c.w # "left"
           /\ c \in CallsOf(c.w)
  BY FileManagerAssumption DEF TypeInv, CallOK, Call, CallsOf, FileManagerAssumption

(* A call takes the place of another of the same window.                   *)
LEMMA CallReplaced ==
    ASSUME TypeInv, NEW c \in calls, NEW d, CallOK(d), d.w = c.w, Follow(c, d)
    PROVE  /\ \A x \in calls' : CallOK(x)
           /\ \A w \in Windows : IsFiniteSet(CallsOf(w)')
           /\ \A w \in Windows \ {c.w} : CallsOf(w)' = CallsOf(w)
           /\ CallsOf(c.w)' = (CallsOf(c.w) \ {c}) \cup {d}
  <1>1. \A x \in calls' : CallOK(x)
    BY DEF Follow, TypeInv
  <1>2. \A w \in Windows \ {c.w} : CallsOf(w)' = CallsOf(w)
    BY DEF Follow, CallsOf
  <1>3. CallsOf(c.w)' = (CallsOf(c.w) \ {c}) \cup {d}
    BY DEF Follow, CallsOf
  <1>4. \A w \in Windows : IsFiniteSet(CallsOf(w)')
    <2> SUFFICES ASSUME NEW w \in Windows PROVE IsFiniteSet(CallsOf(w)')
      OBVIOUS
    <2>1. IsFiniteSet(CallsOf(w))
      BY DEF TypeInv
    <2>2. CASE w # c.w
      BY <1>2, <2>1, <2>2
    <2>3. CASE w = c.w
      <3>1. IsFiniteSet(CallsOf(w) \ {c})
        BY <2>1, FS_RemoveElement
      <3>2. IsFiniteSet((CallsOf(w) \ {c}) \cup {d})
        BY <3>1, FS_AddElement
      <3> QED
        BY <1>3, <2>3, <3>2
    <2> QED
      BY <2>2, <2>3
  <1> QED
    BY <1>1, <1>2, <1>3, <1>4

(* The call goes on, and nothing else changes.                             *)
LEMMA Answered ==
    ASSUME FileInv, NEW c \in calls, NEW d, CallOK(d), d.w = c.w, Follow(c, d),
           d.op = c.op, d.addBreadCrumb = c.addBreadCrumb,
           UNCHANGED <<disk, win, acts>>,
           c.w \in Patient /\ Awaits(win[c.w], c) => Awaits(win[c.w], d)
    PROVE  FileInv'
  <1>1. TypeInv
    BY DEF FileInv
  <1>2. /\ \A x \in calls' : CallOK(x)
        /\ \A w \in Windows : IsFiniteSet(CallsOf(w)')
        /\ \A w \in Windows \ {c.w} : CallsOf(w)' = CallsOf(w)
        /\ CallsOf(c.w)' = (CallsOf(c.w) \ {c}) \cup {d}
    BY <1>1, CallReplaced
  <1>3. TypeInv'
    BY <1>1, <1>2 DEF TypeInv, DiskTypeOK, disk
  <1>4. ASSUME NEW w \in Patient PROVE Waits(w)'
    <2>1. Waits(w) /\ w \in Windows
      BY FileManagerAssumption DEF FileInv, FileManagerAssumption
    <2>2. CASE w # c.w
      <3>1. CallsOf(w)' = CallsOf(w)
        BY <1>2, <2>1, <2>2
      <3> QED
        BY <2>1, <3>1, WaitsUnchanged
    <2>3. CASE w = c.w
      <3>1. PICK window : window = win[w]
        OBVIOUS
      <3>2. CASE window.failed
        BY <3>1, <3>2, WaitsLater
      <3>3. CASE ~window.failed
        <4>1. /\ window.dialog = NoDialog /\ Awaits(window, c)
              /\ \A e \in CallsOf(w) \ {c} : MayMeet(c, e) /\ Awaits(window, e)
              /\ \A e, x \in CallsOf(w) : e = x \/ MayMeet(e, x)
          BY <2>3, <3>1, <3>3, OwnCall
        <4>2. Awaits(window, d)
          BY <2>3, <3>1, <4>1
        <4>3. PICK own : own = (CallsOf(w) \ {c}) \cup {d}
          OBVIOUS
        <4>4. CallsOf(w)' = own /\ win'[w] = window
          BY <1>2, <2>3, <3>1, <4>3
        <4>5. \A e \in own : Awaits(window, e)'
          BY <4>1, <4>2, <4>3, AwaitsUnchanged
        <4>6. \A e, x \in own : e = x \/ MayMeet(e, x)
          BY <4>1, <4>3 DEF MayMeet
        <4>7. own # {}
          BY <4>3
        <4> QED
          BY <4>1, <4>4, <4>5, <4>6, <4>7, WaitsForSome
      <3> QED
        BY <3>2, <3>3
    <2> QED
      BY <2>2, <2>3
  <1> QED
    BY <1>3, <1>4 DEF FileInv

(* The call changes the disk: no other window, and none of their calls, is *)
(* fresh after that.                                                       *)
LEMMA Changed ==
    ASSUME FileInv, NEW c \in calls, c.op # "folderinfo",
           NEW d, d = [c EXCEPT !.fresh = FALSE, !.stage = "ok"], Change(c), CallOK(d),
           DiskTypeOK', UNCHANGED acts,
           NEW window, window = win[c.w], Awaits(window, c) => Awaits(window, d)'
    PROVE  FileInv'
  <1> DEFINE f == [x \in calls |-> [x EXCEPT !.fresh = FALSE,
                                             !.stage = IF x = c THEN "ok" ELSE @]]
  <1>1. TypeInv /\ c \in Call
    BY CallsTypes DEF FileInv
  <1>2. \A x \in calls : x \in Call
    BY <1>1, CallsTypes
  <1>3. f[c] = d
    OBVIOUS
  <1>4. \A x \in calls : x # c => f[x] = [x EXCEPT !.fresh = FALSE]
    BY <1>2 DEF Call
  <1>5. \A x \in calls : x # c =>
           /\ CallOK(f[x]) /\ f[x].w = x.w
    <2> SUFFICES ASSUME NEW x \in calls, x # c PROVE CallOK(f[x]) /\ f[x].w = x.w
      OBVIOUS
    <2>1. x \in Call /\ CallOK(x)
      BY <1>1, CallsTypes
    <2>2. f[x] = [x EXCEPT !.fresh = FALSE]
      BY <1>4
    <2> HIDE DEF f
    <2>4. /\ f[x] \in Call /\ f[x].w = x.w /\ f[x].op = x.op /\ f[x].path = x.path
          /\ f[x].name = x.name /\ f[x].stage = x.stage
      BY <2>1, <2>2 DEF Call
    <2> QED
      BY <2>1, <2>4 DEF CallOK
  <1>6. calls' = {f[x] : x \in calls}
    BY DEF Change
  <1>7. d.w = c.w
    BY <1>1 DEF Call
  <1>8. \A x \in calls : CallOK(f[x]) /\ f[x].w = x.w
    BY <1>3, <1>5, <1>7
  <1>w. \A w \in Windows : win'[w] = IF w = c.w THEN win[w] ELSE [win[w] EXCEPT !.fresh = FALSE]
    BY DEF Change
  <1>d. DOMAIN f = calls
    OBVIOUS
  <1> HIDE DEF f
  <1>9. \A w : CallsOf(w)' = {f[x] : x \in CallsOf(w)}
    BY <1>6, <1>8 DEF CallsOf
  <1>10. TypeInv'
    <2>1. \A w \in Windows : IsFiniteSet(CallsOf(w)')
      <3> SUFFICES ASSUME NEW w \in Windows PROVE IsFiniteSet(CallsOf(w)')
        OBVIOUS
      <3>1. IsFiniteSet(CallsOf(w)) /\ CallsOf(w) \subseteq calls
        BY <1>1 DEF TypeInv, CallsOf
      <3>2. PICK S, T : S = CallsOf(w) /\ T = CallsOf(w)'
        OBVIOUS
      <3>3. PICK g : g = [x \in S |-> f[x]]
        OBVIOUS
      <3>4. T = {f[x] : x \in S}
        BY <1>9, <3>2
      <3>5. g \in [S -> T] /\ \A y \in T : \E x \in S : g[x] = y
        BY <3>3, <3>4
      <3> QED
        BY <3>1, <3>2, <3>5, ImageIsFinite
    <2>2. \A x \in calls' : CallOK(x)
      BY <1>6, <1>8
    <2>3. win' \in [Windows -> Window]
      <3>1. win \in [Windows -> Window]
        BY <1>1 DEF TypeInv
      <3>2. \A w \in Windows : [win[w] EXCEPT !.fresh = FALSE] \in Window
        BY <3>1 DEF Window
      <3> QED
        BY <3>1, <3>2 DEF Change
    <2> QED
      BY <1>1, <2>1, <2>2, <2>3 DEF TypeInv
  <1>11. ASSUME NEW w \in Patient PROVE Waits(w)'
    <2>1. Waits(w) /\ w \in Windows /\ win[w] \in Window
      BY FileManagerAssumption, <1>1 DEF FileInv, FileManagerAssumption, TypeInv
    <2>3. CASE w # c.w
      <3>0. PICK before : before = win[w]
        OBVIOUS
      <3>1. PICK own : own = CallsOf(w)
        OBVIOUS
      <3>2. PICK after : after = [before EXCEPT !.fresh = FALSE]
        OBVIOUS
      <3>3. PICK own2 : own2 = {[x EXCEPT !.fresh = FALSE] : x \in own}
        OBVIOUS
      <3>4. own \in SUBSET Call /\ before \in Window
        BY <1>2, <2>1, <3>0, <3>1 DEF CallsOf
      <3>5. ~before.failed => WaitsIn(before, own)
        BY <2>1, <3>0, <3>1 DEF Waits
      <3>6. after.failed = before.failed
        BY <3>2, <3>4 DEF Window
      <3>7. ~after.failed => WaitsIn(after, own2)'
        BY <3>2, <3>3, <3>4, <3>5, <3>6, WaitsDisturbed
      <3>8. win'[w] = after
        BY <1>w, <2>1, <3>0, <2>3, <3>2
      <3>9. CallsOf(w)' = own2
        <4>1. \A x \in own : f[x] = [x EXCEPT !.fresh = FALSE]
          BY <1>4, <2>3, <3>1 DEF CallsOf
        <4>2. CallsOf(w)' = {f[x] : x \in own}
          BY <1>9, <3>1
        <4>3. own2 = {f[x] : x \in own}
          <5>1. ASSUME NEW y \in own2 PROVE y \in {f[x] : x \in own}
            <6>1. PICK x \in own : y = [x EXCEPT !.fresh = FALSE]
              BY <3>3
            <6>2. y = f[x]
              BY <4>1, <6>1
            <6> QED
              BY <6>2
          <5>2. ASSUME NEW x \in own PROVE f[x] \in own2
            <6>1. f[x] = [x EXCEPT !.fresh = FALSE]
              BY <4>1
            <6> QED
              BY <3>3, <6>1
          <5> QED
            BY <5>1, <5>2
        <4> QED
          BY <4>2, <4>3
      <3> QED
        BY <3>7, <3>8, <3>9, WaitsLater
    <2>4. CASE w = c.w
      <3>1. win'[w] = window
        BY <1>w, <2>1, <2>4
      <3>2. CASE window.failed
        BY <3>1, <3>2, WaitsLater
      <3>3. CASE ~window.failed
        <4>1. /\ c \in CallsOf(w) /\ window.dialog = NoDialog /\ Awaits(window, c)
              /\ \A x \in CallsOf(w) \ {c} : MayMeet(c, x) /\ Awaits(window, x)
              /\ \A x, y \in CallsOf(w) : x = y \/ MayMeet(x, y)
          BY <2>4, <3>3, OwnCall
        <4>2. ASSUME NEW x \in CallsOf(w), x # c, NEW y, y = f[x] PROVE Awaits(window, y)'
          <5>1. x \in calls /\ x \in Call /\ y = [x EXCEPT !.fresh = FALSE]
            BY <1>2, <1>4, <4>2 DEF CallsOf
          <5>3. /\ y.op = x.op /\ y.path = x.path /\ y.named = x.named /\ y.stage = x.stage
                /\ y.addBreadCrumb = x.addBreadCrumb /\ y.rows = x.rows /\ ~y.fresh
            BY <5>1 DEF Call
          <5>4. x.op = "folderinfo" /\ Awaits(window, x)
            BY <4>1, <4>2 DEF MayMeet
          <5> QED
            BY <5>3, <5>4 DEF Awaits, AwaitsFolder
        <4>3. PICK own : own = {f[x] : x \in CallsOf(w)}
          OBVIOUS
        <4>4. CallsOf(w)' = own /\ own # {}
          BY <1>9, <4>1, <4>3
        <4>5. ASSUME NEW y \in own PROVE Awaits(window, y)'
          <5>1. PICK x \in CallsOf(w) : y = f[x]
            BY <4>3
          <5>2. CASE x = c
            BY <1>3, <4>1, <5>1, <5>2
          <5>3. CASE x # c
            BY <4>2, <5>1, <5>3
          <5> QED
            BY <5>2, <5>3
        <4>6. \A x \in CallsOf(w) : f[x].op = x.op /\ f[x].addBreadCrumb = x.addBreadCrumb
          <5> SUFFICES ASSUME NEW x \in CallsOf(w)
                       PROVE  f[x].op = x.op /\ f[x].addBreadCrumb = x.addBreadCrumb
            OBVIOUS
          <5>1. x \in calls /\ x \in Call
            BY <1>2 DEF CallsOf
          <5>2. CASE x = c
            <6>1. d.op = c.op /\ d.addBreadCrumb = c.addBreadCrumb
              BY <1>1 DEF Call
            <6> QED
              BY <1>3, <5>2, <6>1
          <5>3. CASE x # c
            <6>1. PICK y : y = f[x]
              OBVIOUS
            <6>2. y = [x EXCEPT !.fresh = FALSE]
              BY <1>4, <5>1, <5>3, <6>1
            <6>3. y.op = x.op /\ y.addBreadCrumb = x.addBreadCrumb
              BY <5>1, <6>2 DEF Call
            <6> QED
              BY <6>1, <6>3
          <5> QED
            BY <5>2, <5>3
        <4>7. \A x, y \in own : x = y \/ MayMeet(x, y)
          BY <4>1, <4>3, <4>6 DEF MayMeet
        <4> QED
          BY <3>1, <4>1, <4>4, <4>5, <4>7, WaitsForSome
      <3> QED
        BY <3>2, <3>3
    <2> QED
      BY <2>3, <2>4
  <1> QED
    BY <1>10, <1>11 DEF FileInv

(* A call that has come further carries what it carried. *)
LEMMA Staged ==
    ASSUME NEW c \in Call, NEW stage \in {"sent", "checked", "ok", "error", "failed"},
           NEW d, d = [c EXCEPT !.stage = stage]
    PROVE  /\ d \in Call /\ d.stage = stage
           /\ d.w = c.w /\ d.op = c.op /\ d.path = c.path /\ d.named = c.named
           /\ d.name = c.name /\ d.addBreadCrumb = c.addBreadCrumb /\ d.here = c.here
           /\ d.rows = c.rows /\ d.fresh = c.fresh
  BY DEF Call

(* A call that is refused, or that has passed its check.                   *)
LEMMA Refused ==
    ASSUME FileInv, NEW c \in calls, NEW stage, Refuse(c, stage), UNCHANGED acts,
           \/ stage = "failed"
           \/ /\ c.op \in {"deletefolder", "newfolder", "upload"}
              /\ c.stage \in {"sent", "checked"}
              /\ stage \in {"checked", "error"}
              /\ c.op = "newfolder" /\ stage = "checked" => c.path \in Paths
    PROVE  FileInv'
  <1>1. TypeInv /\ c \in Call /\ CallOK(c)
    BY CallsTypes DEF FileInv
  <1>2. PICK d : d = [c EXCEPT !.stage = stage]
    OBVIOUS
  <1>3. /\ d \in Call /\ d.stage = stage
        /\ d.w = c.w /\ d.op = c.op /\ d.path = c.path /\ d.named = c.named
        /\ d.name = c.name /\ d.addBreadCrumb = c.addBreadCrumb /\ d.here = c.here
        /\ d.rows = c.rows /\ d.fresh = c.fresh
    BY <1>1, <1>2, Staged
  <1>4. CallOK(d)
    BY <1>1, <1>3 DEF CallOK
  <1>5. Follow(c, d) /\ UNCHANGED <<disk, win, acts>>
    BY <1>2 DEF Refuse, Answer
  <1>6. ASSUME Awaits(win[c.w], c) PROVE Awaits(win[c.w], d)
    <2>1. CASE stage = "failed"
      BY <1>3, <2>1 DEF Awaits
    <2>2. CASE stage # "failed"
      BY <1>3, <1>6, <2>2 DEF Awaits, AwaitsChange
    <2> QED
      BY <2>1, <2>2
  <1> QED
    BY <1>3, <1>4, <1>5, <1>6, Answered

(* The listing of a folder, or its failure. *)
LEMMA FolderInfoKept ==
    ASSUME FileInv, NEW c \in calls, FolderInfo(c)
    PROVE  FileInv'
  <1>1. TypeInv /\ DiskTypeOK /\ c \in Call /\ CallOK(c)
    BY CallsTypes DEF FileInv, TypeInv
  <1>2. CASE IsAttachmentPathValid(c.path) /\ (c.named \/ FilesIn(Root) = {})
    <2>1. PICK path, rows : /\ path = (IF c.named THEN c.path ELSE NullPath)
                            /\ rows = Listing(c.path)
      OBVIOUS
    <2>2. PICK d : d = [c EXCEPT !.stage = "ok", !.rows = rows, !.fresh = TRUE, !.path = path]
      OBVIOUS
    <2>3. Follow(c, d) /\ UNCHANGED <<disk, win, acts>>
      BY <1>2, <2>1, <2>2 DEF FolderInfo
    <2>4. path \in UrlPaths /\ rows \subseteq Rows /\ RowsBelong(rows, c.path)
      BY <1>1, <2>1, UrlPathTypes, ListingTypes DEF Call
    <2>5. /\ d \in Call /\ d.stage = "ok" /\ d.rows = rows /\ d.fresh /\ d.path = path
          /\ d.w = c.w /\ d.op = c.op /\ d.named = c.named
          /\ d.addBreadCrumb = c.addBreadCrumb
      BY <1>1, <2>2, <2>4 DEF Call
    <2>6. c.op = "folderinfo" /\ c.stage = "sent"
      BY DEF FolderInfo
    <2>7. CallOK(d)
      BY <1>1, <2>5, <2>6 DEF CallOK
    <2>8. ASSUME NEW window, Awaits(window, c) PROVE Awaits(window, d)
      <3>1. AwaitsFolder(window, c) /\ c.named
        BY <2>6, <2>8 DEF Awaits, AwaitsFolder
      <3>2. d.path = c.path /\ d.rows = Listing(c.path)
        BY <2>1, <2>5, <3>1
      <3> QED
        BY <2>4, <2>5, <2>6, <2>1, <3>1, <3>2 DEF Awaits, AwaitsFolder
    <2>9. Awaits(win[c.w], c) => Awaits(win[c.w], d)
      BY <2>8
    <2> QED
      BY <2>3, <2>5, <2>7, <2>9, Answered
  <1>3. CASE ~(IsAttachmentPathValid(c.path) /\ (c.named \/ FilesIn(Root) = {}))
    <2>1. Refuse(c, "failed") /\ UNCHANGED acts
      BY <1>3 DEF FolderInfo, Refuse, disk
    <2> QED
      BY <2>1, Refused
  <1> QED
    BY <1>2, <1>3

(* The listing of a folder without one file.                               *)
LEMMA ListingWithout ==
    ASSUME DiskTypeOK, NEW dir, NEW name, DeleteFile(dir, name)
    PROVE  Listing(dir)' = Listing(dir) \ {FileRow(name)}
  <1>1. /\ ChildFolders(dir)' = ChildFolders(dir)
        /\ FilesIn(dir)' = {f \in FilesIn(dir) : f.name # name}
    BY DEF DeleteFile, ChildFolders, FilesIn
  <1>2. \A p : FolderRow(p) # FileRow(name)
    BY DEF FolderRow, FileRow
  <1>3. \A f : FileRow(f) = FileRow(name) <=> f = name
    BY DEF FileRow
  <1> QED
    BY <1>1, <1>2, <1>3 DEF Listing

(* A file is deleted: the window's table has one row too many until the    *)
(* answer comes.                                                           *)
LEMMA DeleteFileCallKept ==
    ASSUME FileInv, NEW c \in calls, DeleteFileCall(c)
    PROVE  FileInv'
  <1>1. TypeInv /\ DiskTypeOK /\ c \in Call /\ CallOK(c)
    BY CallsTypes DEF FileInv, TypeInv
  <1>2. c.op = "deletefile" /\ c.stage = "sent" /\ UNCHANGED acts
    BY DEF DeleteFileCall
  <1>3. CASE IsAttachmentPathValid(c.path)
    <2>1. DeleteFile(c.path, c.name) /\ Change(c)
      BY <1>3 DEF DeleteFileCall
    <2>2. PICK d : d = [c EXCEPT !.fresh = FALSE, !.stage = "ok"]
      OBVIOUS
    <2>3. /\ d \in Call /\ d.stage = "ok" /\ d.w = c.w /\ d.op = c.op /\ d.path = c.path
          /\ d.name = c.name /\ d.here = c.here /\ CallOK(d)
      <3>1. /\ d \in Call /\ d.stage = "ok" /\ d.w = c.w /\ d.op = c.op /\ d.path = c.path
            /\ d.name = c.name /\ d.here = c.here
        BY <1>1, <2>2 DEF Call
      <3> QED
        BY <1>2, <3>1 DEF CallOK
    <2>4. DiskTypeOK'
      BY <1>1, <2>1 DEF DiskTypeOK, DeleteFile
    <2>6. PICK window : window = win[c.w]
      OBVIOUS
    <2>7. ASSUME Awaits(window, c) PROVE Awaits(window, d)'
      <3>1. AwaitsDeletion(window, c)
        BY <1>2, <2>7 DEF Awaits
      <3>2. c.path = window.dir /\ UpToDate(window)
        BY <1>2, <3>1 DEF AwaitsDeletion
      <3>3. Listing(c.path)' = Listing(c.path) \ {FileRow(c.name)}
        BY <1>1, <2>1, ListingWithout
      <3>4. (window.fresh => window.rows \ {FileRow(d.name)} = Listing(window.dir))'
        BY <2>3, <3>2, <3>3 DEF UpToDate
      <3>5. AwaitsDeletion(window, d)'
        BY <2>3, <3>1, <3>4 DEF AwaitsDeletion
      <3> QED
        BY <1>2, <2>3, <3>5 DEF Awaits
    <2> QED
      BY <1>2, <2>1, <2>2, <2>3, <2>4, <2>6, <2>7, Changed
  <1>4. CASE ~IsAttachmentPathValid(c.path)
    <2>1. Refuse(c, "failed")
      BY <1>4 DEF DeleteFileCall
    <2> QED
      BY <1>2, <2>1, Refused
  <1> QED
    BY <1>3, <1>4

(* A folder is created or removed, or a file saved: the listing that is to *)
(* follow will tell.                                                       *)
LEMMA Carried ==
    ASSUME FileInv, NEW c \in calls, c.op \in {"deletefolder", "newfolder", "upload"},
           c.stage = "checked", Change(c), DiskTypeOK', UNCHANGED acts
    PROVE  FileInv'
  <1>1. TypeInv /\ c \in Call /\ CallOK(c)
    BY CallsTypes DEF FileInv
  <1>2. PICK d : d = [c EXCEPT !.fresh = FALSE, !.stage = "ok"]
    OBVIOUS
  <1>3. /\ d \in Call /\ d.stage = "ok" /\ d.w = c.w /\ d.op = c.op /\ d.path = c.path
        /\ d.name = c.name
    BY <1>1, <1>2 DEF Call
  <1>4. CallOK(d)
    BY <1>1, <1>3 DEF CallOK
  <1>5. PICK window : window = win[c.w]
    OBVIOUS
  <1>6. ASSUME Awaits(window, c) PROVE Awaits(window, d)'
    <2>1. TrailEnds(window)
      BY <1>6 DEF Awaits, AwaitsChange
    <2> QED
      BY <1>3, <2>1 DEF Awaits, AwaitsChange
  <1> QED
    BY <1>2, <1>4, <1>5, <1>6, Changed

(* A folder is checked and removed. *)
LEMMA DeleteFolderKept ==
    ASSUME FileInv, NEW c \in calls, DeleteFolderCheck(c) \/ DeleteFolderRemove(c)
    PROVE  FileInv'
  <1>1. DiskTypeOK
    BY DEF FileInv, TypeInv
  <1>2. CASE DeleteFolderCheck(c)
    <2>1. PICK stage \in {"checked", "error"} : Refuse(c, stage)
      BY <1>2 DEF DeleteFolderCheck
    <2> QED
      BY <1>2, <2>1, Refused DEF DeleteFolderCheck
  <1>3. CASE DeleteFolderRemove(c)
    <2>1. CASE c.path \in folders /\ IsEmpty(c.path)
      <3>1. RemoveFolder(c.path) /\ Change(c)
        BY <1>3, <2>1 DEF DeleteFolderRemove
      <3>2. DiskTypeOK'
        BY <1>1, <3>1 DEF DiskTypeOK, RemoveFolder
      <3> QED
        BY <1>3, <3>1, <3>2, Carried DEF DeleteFolderRemove
    <2>2. CASE ~(c.path \in folders /\ IsEmpty(c.path))
      <3>1. Refuse(c, "failed") /\ UNCHANGED acts
        BY <1>3, <2>2 DEF DeleteFolderRemove
      <3> QED
        BY <3>1, Refused
    <2> QED
      BY <2>1, <2>2
  <1> QED
    BY <1>2, <1>3

(* A folder is checked and created. *)
LEMMA NewFolderKept ==
    ASSUME FileInv, NEW c \in calls, NewFolderCheck(c) \/ NewFolderCreate(c)
    PROVE  FileInv'
  <1>1. DiskTypeOK /\ CallOK(c) /\ c \in Call
    BY CallsTypes DEF FileInv, TypeInv
  <1>2. CASE NewFolderCheck(c)
    <2>1. CASE ~IsAttachmentPathValid(c.path)
      <3>1. Refuse(c, "failed") /\ UNCHANGED acts
        BY <1>2, <2>1 DEF NewFolderCheck
      <3> QED
        BY <3>1, Refused
    <2>2. CASE IsAttachmentPathValid(c.path)
      <3>1. c.path \in Paths
        BY <1>1, <2>2 DEF IsAttachmentPathValid, DiskTypeOK
      <3>2. PICK stage \in {"checked", "error"} : Refuse(c, stage)
        BY <1>2, <2>2 DEF NewFolderCheck
      <3> QED
        BY <1>2, <3>1, <3>2, Refused DEF NewFolderCheck
    <2> QED
      BY <2>1, <2>2
  <1>3. CASE NewFolderCreate(c)
    <2> DEFINE path == Append(c.path, c.name)
    <2>1. c.path \in Paths /\ Len(c.path) < MaxDepth /\ c.name \in FolderNames
      BY <1>1, <1>3 DEF NewFolderCreate, CallOK
    <2>2. path \in Paths
      BY <2>1, ChildIsPath
    <2>3. folders' = folders \cup {SubSeq(path, 1, k) : k \in 0..Len(path)} /\ files' = files
      BY <1>3 DEF NewFolderCreate, CreateDirectory
    <2> HIDE DEF path
    <2>4. \A k \in 0..Len(path) : SubSeq(path, 1, k) \in Paths
      BY <2>2, PrefixIsPath
    <2>5. DiskTypeOK'
      BY <1>1, <2>3, <2>4 DEF DiskTypeOK
    <2> QED
      BY <1>3, <2>5, Carried DEF NewFolderCreate
  <1> QED
    BY <1>2, <1>3

(* A file is checked and saved. *)
LEMMA UploadKept ==
    ASSUME FileInv, NEW c \in calls, UploadCheck(c) \/ UploadSave(c)
    PROVE  FileInv'
  <1>1. DiskTypeOK /\ CallOK(c) /\ c \in Call
    BY CallsTypes DEF FileInv, TypeInv
  <1>2. CASE UploadCheck(c)
    <2>1. PICK stage \in {"checked", "error", "failed"} : Refuse(c, stage)
      BY <1>2 DEF UploadCheck
    <2> QED
      BY <1>2, <2>1, Refused DEF UploadCheck
  <1>3. CASE UploadSave(c)
    <2>1. CASE c.path \in folders
      <3>1. SaveAs(c.path, c.name, c.body) /\ Change(c)
        BY <1>3, <2>1 DEF UploadSave
      <3>2. c.path \in Paths /\ c.name \in FileNames /\ c.body \in Bodies
        BY <1>1, <1>3, <2>1 DEF UploadSave, CallOK, Call, DiskTypeOK
      <3>3. DiskTypeOK'
        BY <1>1, <3>1, <3>2 DEF DiskTypeOK, SaveAs
      <3> QED
        BY <1>3, <3>1, <3>3, Carried DEF UploadSave
    <2>2. CASE c.path \notin folders
      <3>1. Refuse(c, "error") /\ UNCHANGED acts
        BY <1>3, <2>2 DEF UploadSave
      <3> QED
        BY <1>3, <3>1, Refused DEF UploadSave
    <2> QED
      BY <2>1, <2>2
  <1> QED
    BY <1>2, <1>3

(* Whatever the server does. *)
LEMMA ServerKept ==
    ASSUME FileInv, NEW c \in calls, Server(c)
    PROVE  FileInv'
  <1>1. CASE FolderInfo(c)
    BY <1>1, FolderInfoKept
  <1>2. CASE DeleteFileCall(c)
    BY <1>2, DeleteFileCallKept
  <1>3. CASE DeleteFolderCheck(c) \/ DeleteFolderRemove(c)
    BY <1>3, DeleteFolderKept
  <1>4. CASE NewFolderCheck(c) \/ NewFolderCreate(c)
    BY <1>4, NewFolderKept
  <1>5. CASE UploadCheck(c) \/ UploadSave(c)
    BY <1>5, UploadKept
  <1>6. CASE Lose(c)
    BY <1>6, Refused DEF Lose
  <1> QED
    BY <1>1, <1>2, <1>3, <1>4, <1>5, <1>6 DEF Server

-----------------------------------------------------------------------------
(* The handlers of the answers. *)

(* A window is left as it is by what happens in another.                   *)
LEMMA OtherWindow ==
    ASSUME FileInv, NEW v, NEW w \in Patient, w # v, NEW window, win' = [win EXCEPT ![v] = window],
           CallsOf(w)' = CallsOf(w), UNCHANGED disk
    PROVE  Waits(w)'
  <1>1. Waits(w) /\ w \in Windows /\ win \in [Windows -> Window]
    BY FileManagerAssumption DEF FileInv, TypeInv, FileManagerAssumption
  <1>2. win'[w] = win[w]
    BY <1>1
  <1> QED
    BY <1>1, <1>2, WaitsUnchanged

LEMMA WindowReplaced ==
    ASSUME TypeInv, NEW v \in Windows, NEW window \in Window, win' = [win EXCEPT ![v] = window]
    PROVE  win' \in [Windows -> Window] /\ win'[v] = window
  BY DEF TypeInv

(* The handler sends another call.                                         *)
LEMMA FollowedUp ==
    ASSUME FileInv, NEW c \in calls, c.w \in Windows, NEW d, CallOK(d), d.w = c.w, Follow(c, d),
           NEW before, before = win[c.w], NEW window \in Window,
           win' = [win EXCEPT ![c.w] = window], UNCHANGED <<disk, acts>>,
           window.failed = before.failed,
           before.dialog = NoDialog /\ Awaits(before, c) =>
              window.dialog = NoDialog /\ Awaits(window, d),
           c.op = "upload" => window = before /\ d.op = "folderinfo" /\ ~d.addBreadCrumb,
           c.op # "folderinfo"
    PROVE  FileInv'
  <1>1. TypeInv
    BY DEF FileInv
  <1>2. /\ \A x \in calls' : CallOK(x)
        /\ \A w \in Windows : IsFiniteSet(CallsOf(w)')
        /\ \A w \in Windows \ {c.w} : CallsOf(w)' = CallsOf(w)
        /\ CallsOf(c.w)' = (CallsOf(c.w) \ {c}) \cup {d}
    BY <1>1, CallReplaced
  <1>3. win' \in [Windows -> Window] /\ win'[c.w] = window
    BY <1>1, WindowReplaced
  <1>4. TypeInv'
    BY <1>1, <1>2, <1>3 DEF TypeInv, DiskTypeOK, disk
  <1>5. ASSUME NEW w \in Patient PROVE Waits(w)'
    <2>1. w \in Windows
      BY FileManagerAssumption DEF FileManagerAssumption
    <2>2. CASE w # c.w
      <3>1. CallsOf(w)' = CallsOf(w)
        BY <1>2, <2>1, <2>2
      <3> QED
        BY <2>2, <3>1, OtherWindow
    <2>3. CASE w = c.w /\ window.failed
      BY <1>3, <2>3, WaitsLater
    <2>4. CASE w = c.w /\ ~window.failed
      <3>1. /\ before.dialog = NoDialog /\ Awaits(before, c)
            /\ \A e \in CallsOf(w) \ {c} : MayMeet(c, e) /\ Awaits(before, e)
            /\ \A e, x \in CallsOf(w) : e = x \/ MayMeet(e, x)
        BY <2>4, OwnCall
      <3>2. PICK own : own = (CallsOf(w) \ {c}) \cup {d}
        OBVIOUS
      <3>3. \A e \in CallsOf(w) \ {c} : c.op = "upload"
        BY <3>1 DEF MayMeet
      <3>4. \A e \in own : Awaits(window, e)'
        BY <3>1, <3>2, <3>3, AwaitsUnchanged
      <3>5. \A e, x \in own : e = x \/ MayMeet(e, x)
        BY <3>1, <3>2, <3>3 DEF MayMeet
      <3>6. own # {} /\ CallsOf(w)' = own
        BY <1>2, <2>4, <3>2
      <3> QED
        BY <1>3, <2>4, <3>1, <3>4, <3>5, <3>6, WaitsForSome
    <2> QED
      BY <2>2, <2>3, <2>4
  <1> QED
    BY <1>4, <1>5 DEF FileInv

(* The calls that are left when one has been handled.                      *)
LEMMA CallForgotten ==
    ASSUME TypeInv, NEW c \in calls, Forget(c)
    PROVE  /\ \A x \in calls' : CallOK(x)
           /\ \A w \in Windows : IsFiniteSet(CallsOf(w)')
           /\ \A w \in Windows \ {c.w} : CallsOf(w)' = CallsOf(w)
           /\ CallsOf(c.w)' = CallsOf(c.w) \ {c}
  <1>1. \A w : CallsOf(w)' = CallsOf(w) \ {c}
    BY DEF Forget, CallsOf
  <1>2. \A w \in Windows : IsFiniteSet(CallsOf(w))
    BY DEF TypeInv
  <1>3. \A w \in Windows : IsFiniteSet(CallsOf(w)')
    BY <1>1, <1>2, FS_RemoveElement
  <1>4. \A w \in Windows \ {c.w} : c \notin CallsOf(w)
    BY DEF CallsOf
  <1> QED
    BY <1>1, <1>3, <1>4 DEF Forget, TypeInv

(* The handler does not.                                                   *)
LEMMA Forgotten ==
    ASSUME FileInv, NEW c \in calls, c.w \in Windows, Forget(c),
           NEW before, before = win[c.w], NEW window \in Window,
           win' = [win EXCEPT ![c.w] = window], UNCHANGED <<disk, acts>>,
           ~window.failed /\ ~before.failed /\ before.dialog = NoDialog /\ Awaits(before, c) =>
              TrailEnds(window) /\ UpToDate(window) /\ window.dialog = NoDialog,
           ~window.failed => ~before.failed,
           c.op # "deletefile" => \A x : Awaits(before, x) => Awaits(window, x)
    PROVE  FileInv'
  <1>1. TypeInv
    BY DEF FileInv
  <1>2. /\ \A x \in calls' : CallOK(x)
        /\ \A w \in Windows : IsFiniteSet(CallsOf(w)')
        /\ \A w \in Windows \ {c.w} : CallsOf(w)' = CallsOf(w)
        /\ CallsOf(c.w)' = CallsOf(c.w) \ {c}
    BY <1>1, CallForgotten
  <1>3. win' \in [Windows -> Window] /\ win'[c.w] = window
    BY <1>1, WindowReplaced
  <1>4. TypeInv'
    BY <1>1, <1>2, <1>3 DEF TypeInv, DiskTypeOK, disk
  <1>5. ASSUME NEW w \in Patient PROVE Waits(w)'
    <2>1. w \in Windows
      BY FileManagerAssumption DEF FileManagerAssumption
    <2>2. CASE w # c.w
      <3>1. CallsOf(w)' = CallsOf(w)
        BY <1>2, <2>1, <2>2
      <3> QED
        BY <2>2, <3>1, OtherWindow
    <2>3. CASE w = c.w /\ window.failed
      BY <1>3, <2>3, WaitsLater
    <2>4. CASE w = c.w /\ ~window.failed
      <3>1. /\ before.dialog = NoDialog /\ Awaits(before, c)
            /\ \A e \in CallsOf(w) \ {c} : MayMeet(c, e) /\ Awaits(before, e)
            /\ \A e, x \in CallsOf(w) : e = x \/ MayMeet(e, x)
        BY <2>4, OwnCall
      <3>2. TrailEnds(window) /\ UpToDate(window) /\ window.dialog = NoDialog
        BY <2>4, <3>1
      <3>3. UpToDate(window)'
        BY <3>2, UpToDateUnchanged
      <3>4. PICK own : own = CallsOf(w) \ {c}
        OBVIOUS
      <3>5. \A e \in own : Awaits(window, e)'
        BY <3>1, <3>4, AwaitsUnchanged DEF MayMeet
      <3>6. \A e, x \in own : e = x \/ MayMeet(e, x)
        BY <3>1, <3>4
      <3>7. CallsOf(w)' = own
        BY <1>2, <2>4, <3>4
      <3> QED
        BY <1>3, <2>4, <3>2, <3>3, <3>5, <3>6, <3>7, WaitsForSome
    <2> QED
      BY <2>2, <2>3, <2>4
  <1> QED
    BY <1>4, <1>5 DEF FileInv

(* The table and the trail after a listing.                                *)
LEMMA RenderedTypes ==
    ASSUME NEW window \in Window, NEW c \in Call
    PROVE  /\ Rendered(window, c) \in Window
           /\ Rendered(window, c).crumbs =
                 IF c.addBreadCrumb THEN Append(window.crumbs, c.path) ELSE window.crumbs
           /\ Rendered(window, c).destination = CurrentPath(Rendered(window, c).crumbs)
           /\ Rendered(window, c).dir = c.path /\ Rendered(window, c).rows = c.rows
           /\ Rendered(window, c).fresh = c.fresh /\ Rendered(window, c).failed = window.failed
           /\ window.dialog = NoDialog => Rendered(window, c).dialog = NoDialog
  <1>1. PICK trail : trail = IF c.addBreadCrumb THEN Append(window.crumbs, c.path)
                             ELSE window.crumbs
    OBVIOUS
  <1>2. window.crumbs \in Seq(UrlPaths) /\ c.path \in UrlPaths
    BY DEF Window, Call
  <1>3. trail \in Seq(UrlPaths)
    BY <1>1, <1>2, AppendProperties
  <1>4. CurrentPath(trail) \in UrlPaths
    BY <1>3, CurrentPathTypes
  <1>5. PICK dest : dest = CurrentPath(trail)
    OBVIOUS
  <1>6. PICK dialog : dialog = [window.dialog EXCEPT !.here = FALSE]
    OBVIOUS
  <1>7. dialog \in Dialog /\ (window.dialog = NoDialog => dialog = NoDialog)
    <2>1. PICK old : old = window.dialog
      OBVIOUS
    <2>2. old \in Dialog /\ dialog = [old EXCEPT !.here = FALSE]
      BY <1>6, <2>1 DEF Window
    <2>3. dialog \in Dialog
      BY <2>2 DEF Dialog
    <2>4. old = NoDialog => dialog = NoDialog
      <3>1. ~old.here => dialog = old
        BY <2>2 DEF Dialog
      <3> QED
        BY <3>1 DEF NoDialog
    <2> QED
      BY <2>1, <2>3, <2>4
  <1>8. Rendered(window, c) =
           [window EXCEPT !.crumbs = trail, !.destination = dest, !.table = TRUE,
                          !.dir = c.path, !.rows = c.rows, !.fresh = c.fresh,
                          !.dialog = dialog]
    BY <1>1, <1>5, <1>6 DEF Rendered, Window
  <1>9. PICK r : r = Rendered(window, c)
    OBVIOUS
  <1>10. /\ r \in Window /\ r.crumbs = trail /\ r.destination = dest /\ r.dir = c.path
         /\ r.rows = c.rows /\ r.fresh = c.fresh /\ r.failed = window.failed
         /\ r.dialog = dialog
    BY <1>3, <1>4, <1>5, <1>7, <1>8, <1>9 DEF Window, Call
  <1> QED
    BY <1>1, <1>5, <1>7, <1>9, <1>10

(* What a window that waits was waiting for.                               *)
LEMMA ListingShown ==
    ASSUME NEW window \in Window, NEW c \in Call, c.op = "folderinfo", c.stage = "ok",
           Awaits(window, c)
    PROVE  TrailEnds(Rendered(window, c)) /\ UpToDate(Rendered(window, c))
  <1>1. AwaitsFolder(window, c)
    BY DEF Awaits
  <1>2. PICK after : after = Rendered(window, c)
    OBVIOUS
  <1>3. /\ after.crumbs = IF c.addBreadCrumb THEN Append(window.crumbs, c.path)
                          ELSE window.crumbs
        /\ after.destination = CurrentPath(after.crumbs)
        /\ after.dir = c.path /\ after.rows = c.rows /\ after.fresh = c.fresh
    BY <1>2, RenderedTypes
  <1>4. after.crumbs = Chain(c.path) /\ c.path \in Paths
    BY <1>1, <1>3 DEF AwaitsFolder
  <1>5. after.destination = c.path
    BY <1>3, <1>4, ChainIsTrail
  <1>6. TrailEnds(after)
    BY <1>1, <1>3, <1>4, <1>5 DEF TrailEnds, AwaitsFolder
  <1>7. UpToDate(after)
    BY <1>1, <1>3 DEF UpToDate, AwaitsFolder
  <1> QED
    BY <1>2, <1>6, <1>7

(* The listing is shown. *)
LEMMA OnFolderInfoKept ==
    ASSUME FileInv, NEW c \in calls, OnFolderInfo(c), UNCHANGED <<disk, acts>>
    PROVE  FileInv'
  <1> DEFINE rest == calls \ {c}
             f == [d \in rest |-> [d EXCEPT !.here = @ /\ d.w # c.w]]
  <1>1. TypeInv /\ c \in Call /\ CallOK(c)
    BY CallsTypes DEF FileInv
  <1>2. c.op = "folderinfo" /\ c.stage = "ok" /\ c.w \in Windows
    BY <1>1 DEF OnFolderInfo, CallOK
  <1>3. PICK before : before = win[c.w]
    OBVIOUS
  <1>4. PICK window : window = Rendered(before, c)
    OBVIOUS
  <1>5. before \in Window
    BY <1>1, <1>2, <1>3 DEF TypeInv
  <1>6. /\ window \in Window /\ window.failed = before.failed
        /\ before.dialog = NoDialog => window.dialog = NoDialog
    BY <1>1, <1>4, <1>5, RenderedTypes
  <1>7. win' = [win EXCEPT ![c.w] = window]
    BY <1>3, <1>4 DEF OnFolderInfo, Become
  <1>8. win' \in [Windows -> Window] /\ win'[c.w] = window
    BY <1>1, <1>2, <1>6, <1>7, WindowReplaced
  <1>9. calls' = {f[d] : d \in rest}
    BY DEF OnFolderInfo
  <1>10. \A d \in rest : CallOK(f[d]) /\ f[d].w = d.w /\ (d.w # c.w => f[d] = d)
    <2> SUFFICES ASSUME NEW d \in rest
                 PROVE  CallOK(f[d]) /\ f[d].w = d.w /\ (d.w # c.w => f[d] = d)
      OBVIOUS
    <2>1. d \in Call /\ CallOK(d)
      BY <1>1, CallsTypes
    <2>2. PICK here : here = (d.here /\ d.w # c.w)
      OBVIOUS
    <2>3. PICK e : e = [d EXCEPT !.here = here]
      OBVIOUS
    <2>4. here \in BOOLEAN /\ (d.w # c.w => here = d.here)
      BY <2>1, <2>2 DEF Call
    <2>5. /\ e \in Call /\ e.w = d.w /\ e.op = d.op /\ e.path = d.path /\ e.name = d.name
          /\ e.stage = d.stage
      BY <2>1, <2>3, <2>4 DEF Call
    <2>6. d.w # c.w => e = d
      BY <2>1, <2>3, <2>4 DEF Call
    <2>7. CallOK(e)
      BY <2>1, <2>5 DEF CallOK
    <2>8. f[d] = e
      BY <2>2, <2>3
    <2> QED
      BY <2>5, <2>6, <2>7, <2>8
  <1>16. \A d \in rest :
            /\ f[d].op = d.op /\ f[d].path = d.path /\ f[d].named = d.named
            /\ f[d].stage = d.stage /\ f[d].addBreadCrumb = d.addBreadCrumb
            /\ f[d].rows = d.rows /\ f[d].fresh = d.fresh
    <2> SUFFICES ASSUME NEW d \in rest, NEW here, here = (d.here /\ d.w # c.w),
                        NEW e, e = [d EXCEPT !.here = here]
                 PROVE  /\ e.op = d.op /\ e.path = d.path /\ e.named = d.named
                        /\ e.stage = d.stage /\ e.addBreadCrumb = d.addBreadCrumb
                        /\ e.rows = d.rows /\ e.fresh = d.fresh
      OBVIOUS
    <2>1. d \in Call
      BY <1>1, CallsTypes
    <2> QED
      BY <2>1 DEF Call
  <1> HIDE DEF f
  <1>11. \A w : CallsOf(w)' = {f[d] : d \in CallsOf(w) \ {c}}
    BY <1>9, <1>10 DEF CallsOf
  <1>12. \A w : w # c.w => CallsOf(w)' = CallsOf(w)
    <2> SUFFICES ASSUME NEW w, w # c.w PROVE CallsOf(w)' = CallsOf(w)
      OBVIOUS
    <2>1. \A d \in CallsOf(w) : d \in rest /\ d # c /\ f[d] = d
      BY <1>10 DEF CallsOf
    <2> QED
      BY <1>11, <2>1
  <1>13. \A w \in Windows : IsFiniteSet(CallsOf(w)')
    <2> SUFFICES ASSUME NEW w \in Windows PROVE IsFiniteSet(CallsOf(w)')
      OBVIOUS
    <2>1. PICK S, T : S = CallsOf(w) \ {c} /\ T = CallsOf(w)'
      OBVIOUS
    <2>2. IsFiniteSet(S)
      BY <1>1, <2>1, FS_RemoveElement DEF TypeInv
    <2>3. PICK g : g = [d \in S |-> f[d]]
      OBVIOUS
    <2>4. T = {f[d] : d \in S}
      BY <1>11, <2>1
    <2>5. g \in [S -> T] /\ \A y \in T : \E x \in S : g[x] = y
      BY <2>3, <2>4
    <2> QED
      BY <2>1, <2>2, <2>5, ImageIsFinite
  <1>14. TypeInv'
    <2>1. \A d \in calls' : CallOK(d)
      BY <1>9, <1>10
    <2> QED
      BY <1>1, <1>8, <1>13, <2>1 DEF TypeInv, DiskTypeOK, disk
  <1>15. ASSUME NEW w \in Patient PROVE Waits(w)'
    <2>1. CASE w # c.w
      BY <1>7, <1>12, <2>1, OtherWindow
    <2>2. CASE w = c.w /\ window.failed
      BY <1>8, <2>2, WaitsLater
    <2>3. CASE w = c.w /\ ~window.failed
      <3>1. /\ before.dialog = NoDialog /\ Awaits(before, c)
            /\ \A d \in CallsOf(w) \ {c} : MayMeet(c, d) /\ Awaits(before, d)
            /\ \A d, e \in CallsOf(w) : d = e \/ MayMeet(d, e)
        BY <1>3, <1>6, <2>3, OwnCall
      <3>2. TrailEnds(window) /\ UpToDate(window)
        BY <1>1, <1>2, <1>4, <1>5, <3>1, ListingShown
      <3>3. UpToDate(window)'
        BY <3>2, UpToDateUnchanged
      <3>4. PICK own : own = {f[d] : d \in CallsOf(w) \ {c}}
        OBVIOUS
      <3>5. ASSUME NEW d \in CallsOf(w), d # c
            PROVE  /\ f[d].op = d.op /\ f[d].addBreadCrumb = d.addBreadCrumb
                   /\ Awaits(window, f[d])
        <4>1. PICK e : e = f[d]
          OBVIOUS
        <4>2. /\ e.op = d.op /\ e.path = d.path /\ e.named = d.named /\ e.stage = d.stage
              /\ e.addBreadCrumb = d.addBreadCrumb /\ e.rows = d.rows /\ e.fresh = d.fresh
          BY <1>16, <3>5, <4>1 DEF CallsOf
        <4>3. MayMeet(c, d) /\ Awaits(before, d)
          BY <3>1, <3>5
        <4>4. window.crumbs = before.crumbs
          BY <1>1, <1>4, <1>5, <4>3, RenderedTypes DEF MayMeet
        <4>5. CASE d.op = "folderinfo"
          <5>1. d.stage # "failed" => AwaitsFolder(window, e)
            BY <4>2, <4>3, <4>4, <4>5 DEF MayMeet, Awaits, AwaitsFolder
          <5> QED
            BY <4>1, <4>2, <4>5, <5>1 DEF Awaits
        <4>6. CASE d.op = "upload"
          BY <3>2, <4>1, <4>2, <4>6 DEF Awaits, AwaitsChange
        <4> QED
          BY <4>1, <4>2, <4>3, <4>5, <4>6 DEF MayMeet
      <3>6. CallsOf(w)' = own
        BY <1>11, <2>3, <3>4
      <3>7. \A d \in own : Awaits(window, d)'
        BY <3>4, <3>5, AwaitsUnchanged
      <3>8. \A d, e \in own : d = e \/ MayMeet(d, e)
        BY <3>1, <3>4, <3>5 DEF MayMeet
      <3> QED
        BY <1>6, <1>8, <2>3, <3>1, <3>2, <3>3, <3>6, <3>7, <3>8, WaitsForSome
    <2> QED
      BY <2>1, <2>2, <2>3
  <1> QED
    BY <1>14, <1>15 DEF FileInv

(* The row of the file is taken away. *)
LEMMA OnFileDeletedKept ==
    ASSUME FileInv, NEW c \in calls, OnFileDeleted(c), UNCHANGED <<disk, acts>>
    PROVE  FileInv'
  <1>1. TypeInv /\ c \in Call
    BY CallsTypes DEF FileInv
  <1>2. c.op = "deletefile" /\ c.stage = "ok" /\ c.w \in Windows /\ Forget(c)
    BY DEF OnFileDeleted
  <1>3. PICK before : before = win[c.w]
    OBVIOUS
  <1>4. before \in Window
    BY <1>1, <1>2, <1>3 DEF TypeInv
  <1>5. PICK rows : rows = IF c.here THEN before.rows \ {FileRow(c.name)} ELSE before.rows
    OBVIOUS
  <1>6. PICK window : window = [before EXCEPT !.rows = rows]
    OBVIOUS
  <1>7. win' = [win EXCEPT ![c.w] = window]
    BY <1>3, <1>5, <1>6 DEF OnFileDeleted, Become
  <1>8. rows \subseteq before.rows
    BY <1>5
  <1>9. /\ window \in Window /\ window.failed = before.failed /\ window.rows = rows
        /\ window.dialog = before.dialog /\ window.crumbs = before.crumbs
        /\ window.dir = before.dir /\ window.destination = before.destination
        /\ window.fresh = before.fresh
    BY <1>4, <1>6, <1>8 DEF Window
  <1>10. ASSUME Awaits(before, c) PROVE TrailEnds(window) /\ UpToDate(window)
    <2>1. AwaitsDeletion(before, c)
      BY <1>2, <1>10 DEF Awaits
    <2>2. TrailEnds(window)
      BY <1>8, <1>9, <2>1 DEF AwaitsDeletion, TrailEnds, RowsBelong
    <2>3. UpToDate(window)
      BY <1>2, <1>5, <1>9, <2>1 DEF AwaitsDeletion, UpToDate
    <2> QED
      BY <2>2, <2>3
  <1> QED
    BY <1>2, <1>3, <1>7, <1>9, <1>10, Forgotten

(* A folder is listed again, or for the first time with what is new in it. *)
LEMMA ListedAgain ==
    ASSUME FileInv, NEW c \in calls, c.w \in Windows, c.stage = "ok",
           c.op \in {"deletefolder", "newfolder", "upload"},
           NEW d, NEW add \in BOOLEAN, d = UpdateCurrent(c.w, add), Follow(c, d),
           NEW before, before = win[c.w], NEW window \in Window,
           win' = [win EXCEPT ![c.w] = window], UNCHANGED <<disk, acts>>,
           window.failed = before.failed, window.dialog = before.dialog,
           before.crumbs # <<>> =>
              (window.crumbs = IF add THEN Front(before.crumbs) ELSE before.crumbs),
           c.op = "upload" => window = before /\ ~add
    PROVE  FileInv'
  <1>1. TypeInv /\ win \in [Windows -> Window] /\ IsFiniteSet(CallsOf(c.w))
    BY DEF FileInv, TypeInv
  <1>2. /\ CallOK(d) /\ d.w = c.w /\ d.op = "folderinfo" /\ d.path = CurrentPath(before.crumbs)
        /\ d.addBreadCrumb = add /\ d.named = (before.crumbs # <<>>) /\ d.stage = "sent"
    BY <1>1, UpdateCurrentTypes
  <1>3. ASSUME Awaits(before, c) PROVE Awaits(window, d)
    <2>1. before.crumbs = Chain(before.dir) /\ before.dir \in Paths
      BY <1>3 DEF Awaits, AwaitsChange, TrailEnds
    <2>2. before.crumbs # <<>> /\ CurrentPath(before.crumbs) = before.dir
      BY <2>1, ChainIsTrail
    <2>3. Append(Front(before.crumbs), before.dir) = Chain(before.dir)
      BY <2>1, ChainOfSame
    <2>4. d.path = before.dir /\ d.named
      BY <1>2, <2>2
    <2>5. (IF d.addBreadCrumb THEN Append(window.crumbs, d.path) ELSE window.crumbs)
             = Chain(d.path)
      BY <1>2, <2>1, <2>2, <2>3, <2>4
    <2> QED
      BY <1>2, <2>1, <2>4, <2>5 DEF Awaits, AwaitsFolder
  <1>4. /\ before.dialog = NoDialog /\ Awaits(before, c) =>
              window.dialog = NoDialog /\ Awaits(window, d)
        /\ CallOK(d) /\ d.w = c.w
        /\ c.op # "folderinfo"
        /\ c.op = "upload" => window = before /\ d.op = "folderinfo" /\ ~d.addBreadCrumb
    BY <1>2, <1>3
  <1> QED
    BY <1>4, FollowedUp, Zenon

(* The folder is listed again, on the trail as it is. *)
LEMMA OnFolderDeletedOrUploadedKept ==
    ASSUME FileInv, NEW c \in calls, OnFolderDeleted(c) \/ OnUploaded(c), UNCHANGED <<disk, acts>>
    PROVE  FileInv'
  <1>1. /\ c.w \in Windows /\ c.stage = "ok" /\ c.op \in {"deletefolder", "upload"}
        /\ Follow(c, UpdateCurrent(c.w, FALSE)) /\ win' = win
    BY DEF OnFolderDeleted, OnUploaded
  <1>2. PICK window, d : window = win[c.w] /\ d = UpdateCurrent(c.w, FALSE)
    OBVIOUS
  <1>3. window \in Window /\ win' = [win EXCEPT ![c.w] = window]
    BY <1>1, <1>2 DEF FileInv, TypeInv
  <1>4. /\ window.crumbs # <<>> =>
              (window.crumbs = IF FALSE THEN Front(window.crumbs) ELSE window.crumbs)
        /\ FALSE \in BOOLEAN /\ c.op \in {"deletefolder", "newfolder", "upload"} /\ Follow(c, d)
        /\ ~FALSE
    BY <1>1, <1>2
  <1> QED
    BY <1>1, <1>2, <1>3, <1>4, ListedAgain, Zenon

(* The folder is listed again, for the crumb that is taken off. *)
LEMMA OnFolderCreatedKept ==
    ASSUME FileInv, NEW c \in calls, OnFolderCreated(c), UNCHANGED <<disk, acts>>
    PROVE  FileInv'
  <1>1. PICK before, d : before = win[c.w] /\ d = UpdateCurrent(c.w, TRUE)
    OBVIOUS
  <1>2. PICK crumbs : crumbs = IF before.crumbs = <<>> THEN before.crumbs ELSE Front(before.crumbs)
    OBVIOUS
  <1>3. PICK window : window = [before EXCEPT !.crumbs = crumbs]
    OBVIOUS
  <1>4. /\ c.op = "newfolder" /\ c.stage = "ok" /\ c.w \in Windows /\ Follow(c, d)
        /\ win' = [win EXCEPT ![c.w] = window]
    BY <1>1, <1>2, <1>3 DEF OnFolderCreated, Become
  <1>5. before \in Window /\ before.crumbs \in Seq(UrlPaths)
    BY <1>1, <1>4 DEF FileInv, TypeInv, Window
  <1>6. crumbs \in Seq(UrlPaths)
    <2>1. CASE before.crumbs = <<>>
      BY <1>2, <1>5, <2>1
    <2>2. CASE before.crumbs # <<>>
      <3>1. PICK n : n = Len(before.crumbs) - 1
        OBVIOUS
      <3>2. n \in Int /\ \A i \in 1..n : i \in 1..Len(before.crumbs)
        BY <1>5, <3>1, LenProperties
      <3>3. \A i \in 1..n : before.crumbs[i] \in UrlPaths
        BY <1>5, <3>2, ElementOfSeq
      <3>4. SubSeq(before.crumbs, 1, n) \in Seq(UrlPaths)
        BY <3>2, <3>3, SubSeqProperties
      <3> QED
        BY <1>2, <2>2, <3>1, <3>4 DEF Front
    <2> QED
      BY <2>1, <2>2
  <1>7. /\ window \in Window /\ window.failed = before.failed /\ window.dialog = before.dialog
        /\ window.crumbs = crumbs
    BY <1>3, <1>5, <1>6 DEF Window
  <1>8. /\ before.crumbs # <<>> =>
              (window.crumbs = IF TRUE THEN Front(before.crumbs) ELSE before.crumbs)
        /\ TRUE \in BOOLEAN /\ c.op \in {"deletefolder", "newfolder", "upload"}
        /\ c.op # "upload"
    BY <1>2, <1>4, <1>7
  <1> QED
    BY <1>1, <1>4, <1>7, <1>8, ListedAgain, Zenon

(* What failed is told, or only remembered. *)
LEMMA OnErrorKept ==
    ASSUME FileInv, NEW c \in calls, OnError(c), UNCHANGED <<disk, acts>>
    PROVE  FileInv'
  <1>1. TypeInv /\ c \in Call
    BY CallsTypes DEF FileInv
  <1>2. c.stage \in {"error", "failed"} /\ c.w \in Windows /\ Forget(c)
    BY DEF OnError
  <1>3. PICK before : before = win[c.w]
    OBVIOUS
  <1>4. before \in Window
    BY <1>1, <1>2, <1>3 DEF TypeInv
  <1>5. PICK failed : failed = (before.failed \/ c.stage = "failed")
    OBVIOUS
  <1>6. PICK window : window = [before EXCEPT !.failed = failed]
    OBVIOUS
  <1>7. win' = [win EXCEPT ![c.w] = window]
    BY <1>3, <1>5, <1>6 DEF OnError, Become
  <1>8. /\ window \in Window /\ window.failed = failed
    BY <1>4, <1>5, <1>6 DEF Window
  <1>9. /\ window.rows = before.rows /\ window.dialog = before.dialog
        /\ window.crumbs = before.crumbs /\ window.dir = before.dir
        /\ window.destination = before.destination /\ window.fresh = before.fresh
    BY <1>4, <1>6 DEF Window
  <1>10. ASSUME ~window.failed, Awaits(before, c) PROVE TrailEnds(window) /\ UpToDate(window)
    <2>1. c.stage = "error"
      BY <1>2, <1>5, <1>8, <1>10
    <2>2. AwaitsChange(before, c)
      BY <1>1, <1>10, <2>1 DEF Awaits, AwaitsFolder, AwaitsDeletion, Call, Operations
    <2>3. TrailEnds(before) /\ UpToDate(before)
      BY <2>1, <2>2 DEF AwaitsChange
    <2> QED
      BY <1>9, <2>3 DEF TrailEnds, UpToDate
  <1>11. ~window.failed => ~before.failed
    BY <1>5, <1>8
  <1>12. \A x : Awaits(before, x) => Awaits(window, x)
    BY <1>9 DEF Awaits, AwaitsFolder, AwaitsDeletion, AwaitsChange, TrailEnds, UpToDate
  <1> QED
    BY <1>2, <1>3, <1>7, <1>8, <1>9, <1>10, <1>11, <1>12, Forgotten

(* The window of the call has left the page. *)
LEMMA OnNobodyKept ==
    ASSUME FileInv, NEW c \in calls, OnNobody(c), UNCHANGED <<disk, acts>>
    PROVE  FileInv'
  <1>1. TypeInv /\ c.w \notin Windows /\ Forget(c) /\ win' = win
    BY DEF FileInv, OnNobody
  <1>2. /\ \A x \in calls' : CallOK(x)
        /\ \A w \in Windows : IsFiniteSet(CallsOf(w)')
        /\ \A w \in Windows \ {c.w} : CallsOf(w)' = CallsOf(w)
    BY <1>1, CallForgotten
  <1>3. TypeInv'
    BY <1>1, <1>2 DEF TypeInv, DiskTypeOK, disk
  <1>4. ASSUME NEW w \in Patient PROVE Waits(w)'
    <2>1. Waits(w) /\ CallsOf(w)' = CallsOf(w)
      BY <1>1, <1>2, FileManagerAssumption DEF FileInv, FileManagerAssumption
    <2> QED
      BY <1>1, <2>1, WaitsUnchanged
  <1> QED
    BY <1>3, <1>4 DEF FileInv

(* Whatever answer is handled. *)
LEMMA HandleKept ==
    ASSUME FileInv, NEW c \in calls, Handle(c)
    PROVE  FileInv'
  <1>1. UNCHANGED <<disk, acts>>
    BY DEF Handle
  <1>2. CASE OnFolderInfo(c)
    BY <1>1, <1>2, OnFolderInfoKept
  <1>3. CASE OnFileDeleted(c)
    BY <1>1, <1>3, OnFileDeletedKept
  <1>4. CASE OnFolderDeleted(c) \/ OnUploaded(c)
    BY <1>1, <1>4, OnFolderDeletedOrUploadedKept
  <1>5. CASE OnFolderCreated(c)
    BY <1>1, <1>5, OnFolderCreatedKept
  <1>6. CASE OnError(c)
    BY <1>1, <1>6, OnErrorKept
  <1>7. CASE OnNobody(c)
    BY <1>1, <1>7, OnNobodyKept
  <1> QED
    BY <1>2, <1>3, <1>4, <1>5, <1>6, <1>7 DEF Handle

-----------------------------------------------------------------------------
(* The user. *)

(* The user has caused one more call. *)
LEMMA CausedTypes ==
    ASSUME TypeInv, NEW w \in Windows, Causes(w)
    PROVE  acts' \in [Windows -> Nat]
  BY DEF TypeInv, Causes

(* A call is sent, of a window that has none if it is one that waits.      *)
LEMMA Sent ==
    ASSUME FileInv, NEW w \in Windows, NEW d, CallOK(d), d.w = w, Send(d), Causes(w),
           NEW window \in Window, win' = [win EXCEPT ![w] = window], UNCHANGED disk,
           w \in Patient /\ ~window.failed =>
              CallsOf(w) = {} /\ window.dialog = NoDialog /\ Awaits(window, d)
    PROVE  FileInv'
  <1>1. TypeInv /\ acts' \in [Windows -> Nat]
    BY CausedTypes DEF FileInv
  <1>2. win' \in [Windows -> Window] /\ win'[w] = window
    BY <1>1, WindowReplaced
  <1>3. /\ CallsOf(w)' = CallsOf(w) \cup {d}
        /\ \A u : u # w => CallsOf(u)' = CallsOf(u)
    BY DEF Send, CallsOf
  <1>4. \A u \in Windows : IsFiniteSet(CallsOf(u)')
    <2>1. \A u \in Windows : IsFiniteSet(CallsOf(u))
      BY <1>1 DEF TypeInv
    <2>2. IsFiniteSet(CallsOf(w) \cup {d})
      BY <2>1, FS_AddElement
    <2> QED
      BY <1>3, <2>1, <2>2
  <1>5. TypeInv'
    BY <1>1, <1>2, <1>4 DEF TypeInv, DiskTypeOK, disk, Send
  <1>6. ASSUME NEW u \in Patient PROVE Waits(u)'
    <2>1. CASE u # w
      BY <1>3, <2>1, OtherWindow
    <2>2. CASE u = w /\ window.failed
      BY <1>2, <2>2, WaitsLater
    <2>3. CASE u = w /\ ~window.failed
      <3>1. window.dialog = NoDialog /\ Awaits(window, d) /\ CallsOf(w)' = {d}
        BY <1>3, <2>3
      <3>2. Awaits(window, d)'
        BY <3>1, AwaitsUnchanged
      <3> QED
        BY <1>2, <2>3, <3>1, <3>2, WaitsForOne
    <2> QED
      BY <2>1, <2>2, <2>3
  <1> QED
    BY <1>5, <1>6 DEF FileInv

(* Nothing is sent.                                                        *)
LEMMA Quiet ==
    ASSUME FileInv, NEW w \in Windows, Quietly,
           NEW window \in Window, win' = [win EXCEPT ![w] = window], UNCHANGED disk,
           w \in Patient /\ ~window.failed =>
              /\ CallsOf(w) = {} /\ TrailEnds(window) /\ UpToDate(window)
              /\ window.dialog # NoDialog => DialogOf(window)
    PROVE  FileInv'
  <1>1. TypeInv
    BY DEF FileInv
  <1>2. win' \in [Windows -> Window] /\ win'[w] = window
    BY <1>1, WindowReplaced
  <1>3. \A u : CallsOf(u)' = CallsOf(u)
    BY DEF Quietly, CallsOf
  <1>4. TypeInv'
    BY <1>1, <1>2, <1>3 DEF TypeInv, DiskTypeOK, disk, Quietly
  <1>5. ASSUME NEW u \in Patient PROVE Waits(u)'
    <2>1. CASE u # w
      BY <1>3, <2>1, OtherWindow
    <2>2. CASE u = w /\ window.failed
      BY <1>2, <2>2, WaitsLater
    <2>3. CASE u = w /\ ~window.failed
      <3>1. UpToDate(window)'
        BY <2>3, UpToDateUnchanged
      <3> QED
        BY <1>2, <1>3, <2>3, <3>1, WaitsForNone
    <2> QED
      BY <2>1, <2>2, <2>3
  <1> QED
    BY <1>4, <1>5 DEF FileInv

(* Who may act has no dialog open, and one who waits has a trail and a     *)
(* table that are as they should be.                                       *)
LEMMA ActingWindow ==
    ASSUME FileInv, NEW w \in Windows, MayAct(w), NEW before, before = win[w]
    PROVE  /\ before \in Window /\ before.dialog = NoDialog /\ UNCHANGED disk
           /\ IsFiniteSet(CallsOf(w)) /\ win \in [Windows -> Window]
           /\ w \in Patient /\ ~before.failed =>
                 CallsOf(w) = {} /\ TrailEnds(before) /\ UpToDate(before)
  BY NoCall DEF MayAct, FileInv, TypeInv

(* The user opens a folder of the table. *)
LEMMA OpenFolderKept ==
    ASSUME FileInv, NEW w \in Windows, OpenFolder(w)
    PROVE  FileInv'
  <1>1. PICK row \in win[w].rows : row.type = "folder" /\ Send(Update(w, row.path, TRUE))
    BY DEF OpenFolder
  <1>2. PICK before, d : before = win[w] /\ d = Update(w, row.path, TRUE)
    OBVIOUS
  <1>3. /\ before \in Window /\ before.dialog = NoDialog /\ UNCHANGED disk
        /\ IsFiniteSet(CallsOf(w)) /\ win \in [Windows -> Window]
        /\ w \in Patient /\ ~before.failed =>
              CallsOf(w) = {} /\ TrailEnds(before) /\ UpToDate(before)
    BY <1>2, ActingWindow DEF OpenFolder
  <1>4. row \in Rows /\ row.path \in Paths
    BY <1>1, <1>2, <1>3, RowTypes DEF Window
  <1>5. /\ CallOK(d) /\ d.w = w /\ d.op = "folderinfo" /\ d.path = row.path
        /\ d.addBreadCrumb = TRUE /\ d.named /\ d.stage = "sent"
    <2>1. PICK add : add = TRUE
      OBVIOUS
    <2>2. row.path \in UrlPaths /\ IsFiniteSet(CallsOf(w)) /\ add \in BOOLEAN
      BY <1>3, <1>4, UrlPathTypes, <2>1
    <2>3. /\ CallOK(Update(w, row.path, add)) /\ Update(w, row.path, add).w = w
          /\ Update(w, row.path, add).op = "folderinfo" /\ Update(w, row.path, add).path = row.path
          /\ Update(w, row.path, add).addBreadCrumb = add
          /\ Update(w, row.path, add).named /\ Update(w, row.path, add).stage = "sent"
      BY <2>2, UpdateTypes
    <2>4. d = Update(w, row.path, add)
      BY <1>2, <2>1
    <2> QED
      BY <2>1, <2>3, <2>4
  <1>6. ASSUME TrailEnds(before) PROVE Awaits(before, d)
    <2>1. row.path # Root /\ Parent(row.path) = before.dir
      BY <1>1, <1>2, <1>6, RowTypes DEF TrailEnds, RowsBelong
    <2>2. Append(before.crumbs, row.path) = Chain(row.path)
      BY <1>4, <1>6, <2>1, ChainOfChild DEF TrailEnds
    <2> QED
      BY <1>4, <1>5, <2>2 DEF Awaits, AwaitsFolder
  <1>7. Send(d) /\ Causes(w) /\ win' = [win EXCEPT ![w] = before]
    BY <1>1, <1>2, <1>3 DEF OpenFolder
  <1>8. w \in Patient /\ ~before.failed =>
           CallsOf(w) = {} /\ before.dialog = NoDialog /\ Awaits(before, d)
    BY <1>3, <1>6
  <1> QED
    BY <1>3, <1>5, <1>7, <1>8, Sent

(* The user goes back along the trail. *)
LEMMA ClickCrumbKept ==
    ASSUME FileInv, NEW w \in Windows, ClickCrumb(w)
    PROVE  FileInv'
  <1>1. PICK i \in DOMAIN win[w].crumbs :
           /\ Become(w, [win[w] EXCEPT !.crumbs = SubSeq(@, 1, i)])
           /\ Send(Update(w, win[w].crumbs[i], FALSE))
    BY DEF ClickCrumb
  <1>2. PICK before, path : before = win[w] /\ path = before.crumbs[i]
    OBVIOUS
  <1>3. /\ before \in Window /\ before.dialog = NoDialog /\ UNCHANGED disk
        /\ IsFiniteSet(CallsOf(w)) /\ win \in [Windows -> Window]
        /\ w \in Patient /\ ~before.failed =>
              CallsOf(w) = {} /\ TrailEnds(before) /\ UpToDate(before)
    BY <1>2, ActingWindow DEF ClickCrumb
  <1>4. PICK d : d = Update(w, path, FALSE)
    OBVIOUS
  <1>5. PICK crumbs : crumbs = SubSeq(before.crumbs, 1, i)
    OBVIOUS
  <1>6. PICK window : window = [before EXCEPT !.crumbs = crumbs]
    OBVIOUS
  <1>7. before.crumbs \in Seq(UrlPaths) /\ i \in 1..Len(before.crumbs) /\ i \in Nat
    BY <1>1, <1>2, <1>3, LenProperties DEF Window
  <1>8. path \in UrlPaths /\ \A j \in 1..i : before.crumbs[j] \in UrlPaths
    BY <1>2, <1>7, ElementOfSeq
  <1>9. crumbs \in Seq(UrlPaths)
    BY <1>5, <1>7, <1>8, SubSeqProperties
  <1>10. /\ window \in Window /\ window.failed = before.failed /\ window.crumbs = crumbs
         /\ window.dialog = before.dialog
    BY <1>3, <1>6, <1>9 DEF Window
  <1>11. /\ CallOK(d) /\ d.w = w /\ d.op = "folderinfo" /\ d.path = path
         /\ d.addBreadCrumb = FALSE /\ d.named /\ d.stage = "sent"
    <2>1. PICK add : add = FALSE
      OBVIOUS
    <2>2. path \in UrlPaths /\ IsFiniteSet(CallsOf(w)) /\ add \in BOOLEAN
      BY <1>3, <1>8, <2>1
    <2>3. /\ CallOK(Update(w, path, add)) /\ Update(w, path, add).w = w
          /\ Update(w, path, add).op = "folderinfo" /\ Update(w, path, add).path = path
          /\ Update(w, path, add).addBreadCrumb = add
          /\ Update(w, path, add).named /\ Update(w, path, add).stage = "sent"
      BY <2>2, UpdateTypes
    <2>4. d = Update(w, path, add)
      BY <1>4, <2>1
    <2> QED
      BY <2>1, <2>3, <2>4
  <1>12. ASSUME TrailEnds(before) PROVE Awaits(window, d)
    <2>1. before.dir \in Paths /\ before.crumbs = Chain(before.dir)
      BY <1>12 DEF TrailEnds
    <2>2. i \in 1..(Len(before.dir) + 1)
      BY <1>7, <2>1, ChainIsTrail
    <2>3. path \in Paths /\ crumbs = Chain(path)
      BY <1>2, <1>5, <2>1, <2>2, ChainOfCrumb
    <2> QED
      BY <1>10, <1>11, <2>3 DEF Awaits, AwaitsFolder
  <1>13. Send(d) /\ Causes(w) /\ win' = [win EXCEPT ![w] = window]
    BY <1>1, <1>2, <1>4, <1>5, <1>6 DEF ClickCrumb, Become
  <1>14. w \in Patient /\ ~window.failed =>
            CallsOf(w) = {} /\ window.dialog = NoDialog /\ Awaits(window, d)
    BY <1>3, <1>10, <1>12
  <1> QED
    BY <1>3, <1>10, <1>11, <1>13, <1>14, Sent

(* The user names a new folder. *)
LEMMA AddNewFolderKept ==
    ASSUME FileInv, NEW w \in Windows, AddNewFolder(w)
    PROVE  FileInv'
  <1>1. PICK before, path : before = win[w] /\ path = CurrentPath(before.crumbs)
    OBVIOUS
  <1>2. /\ before \in Window /\ before.dialog = NoDialog /\ UNCHANGED disk
        /\ IsFiniteSet(CallsOf(w)) /\ win \in [Windows -> Window]
        /\ w \in Patient /\ ~before.failed =>
              CallsOf(w) = {} /\ TrailEnds(before) /\ UpToDate(before)
    BY <1>1, ActingWindow DEF AddNewFolder
  <1>3. PICK name \in FolderNames : Send([NewCall(w, "newfolder", path) EXCEPT !.name = name])
    BY <1>1 DEF AddNewFolder
  <1>4. PICK c, d : c = NewCall(w, "newfolder", path) /\ d = [c EXCEPT !.name = name]
    OBVIOUS
  <1>5. path \in UrlPaths /\ Len(path) < MaxDepth
    BY <1>1, <1>2, CurrentPathTypes DEF AddNewFolder, Window
  <1>6. c \in Call /\ c.w = w /\ c.op = "newfolder" /\ c.path = path /\ c.stage = "sent"
    BY <1>2, <1>4, <1>5, NewCallTypes DEF Operations
  <1>7. /\ d \in Call /\ d.w = w /\ d.op = "newfolder" /\ d.path = path /\ d.stage = "sent"
        /\ d.name = name
    BY <1>4, <1>6 DEF Call
  <1>8. CallOK(d)
    BY <1>5, <1>7 DEF CallOK
  <1>9. TrailEnds(before) /\ UpToDate(before) => Awaits(before, d)
    BY <1>7 DEF Awaits, AwaitsChange
  <1>10. Send(d) /\ Causes(w) /\ win' = [win EXCEPT ![w] = before]
    BY <1>1, <1>2, <1>3, <1>4 DEF AddNewFolder
  <1>11. w \in Patient /\ ~before.failed =>
            CallsOf(w) = {} /\ before.dialog = NoDialog /\ Awaits(before, d)
    BY <1>2, <1>9
  <1> QED
    BY <1>2, <1>7, <1>8, <1>10, <1>11, Sent

(* The user picks a row, for which the dialog is opened. *)
LEMMA AskToDeleteKept ==
    ASSUME FileInv, NEW w \in Windows, AskToDelete(w)
    PROVE  FileInv'
  <1>1. PICK before : before = win[w]
    OBVIOUS
  <1>2. /\ before \in Window /\ before.dialog = NoDialog /\ UNCHANGED disk
        /\ IsFiniteSet(CallsOf(w)) /\ win \in [Windows -> Window]
        /\ w \in Patient /\ ~before.failed =>
              CallsOf(w) = {} /\ TrailEnds(before) /\ UpToDate(before)
    BY <1>1, ActingWindow DEF AskToDelete
  <1>3. PICK row \in before.rows :
           Become(w, [win[w] EXCEPT !.dialog =
                        [row |-> row, here |-> TRUE,
                         path |-> IF row.type = "folder" THEN row.path
                                  ELSE CurrentPath(win[w].crumbs)]])
    BY <1>1 DEF AskToDelete
  <1>4. PICK path : path = IF row.type = "folder" THEN row.path ELSE CurrentPath(before.crumbs)
    OBVIOUS
  <1>5. PICK dialog : dialog = [row |-> row, here |-> TRUE, path |-> path]
    OBVIOUS
  <1>6. PICK window : window = [before EXCEPT !.dialog = dialog]
    OBVIOUS
  <1>7. row \in Rows /\ path \in UrlPaths
    BY <1>2, <1>4, RowTypes, UrlPathTypes, CurrentPathTypes DEF Window
  <1>8. dialog \in Dialog /\ dialog.here /\ dialog.row = row /\ dialog.path = path
    BY <1>5, <1>7 DEF Dialog
  <1>9. /\ window \in Window /\ window.failed = before.failed /\ window.dialog = dialog
        /\ window.rows = before.rows /\ window.crumbs = before.crumbs /\ window.dir = before.dir
        /\ window.destination = before.destination /\ window.fresh = before.fresh
    BY <1>2, <1>6, <1>8 DEF Window
  <1>10. ASSUME TrailEnds(before), UpToDate(before)
         PROVE  TrailEnds(window) /\ UpToDate(window) /\ DialogOf(window)
    <2>1. CurrentPath(before.crumbs) = before.dir
      BY <1>10, ChainIsTrail DEF TrailEnds
    <2>2. DialogOf(window)
      BY <1>3, <1>4, <1>8, <1>9, <2>1 DEF DialogOf
    <2> QED
      BY <1>9, <1>10, <2>2 DEF TrailEnds, UpToDate
  <1>11. win' = [win EXCEPT ![w] = window] /\ Quietly
    BY <1>1, <1>3, <1>4, <1>5, <1>6 DEF Become, AskToDelete
  <1>12. w \in Patient /\ ~window.failed =>
            /\ CallsOf(w) = {} /\ TrailEnds(window) /\ UpToDate(window)
            /\ window.dialog # NoDialog => DialogOf(window)
    BY <1>2, <1>9, <1>10
  <1> QED
    BY <1>2, <1>9, <1>11, <1>12, Quiet

(* The dialog is closed, whatever the answer.                              *)
LEMMA ClosedWindow ==
    ASSUME FileInv, NEW w \in Windows, win[w].dialog # NoDialog, CloseDialog(w),
           NEW before, before = win[w], NEW window, window = [before EXCEPT !.dialog = NoDialog]
    PROVE  /\ before \in Window /\ window \in Window /\ win' = [win EXCEPT ![w] = window]
           /\ IsFiniteSet(CallsOf(w))
           /\ window.failed = before.failed /\ window.dialog = NoDialog
           /\ w \in Patient /\ ~window.failed =>
                 /\ CallsOf(w) = {} /\ TrailEnds(window) /\ UpToDate(window)
                 /\ DialogOf(before) /\ before.dir = window.dir
  <1>1. before \in Window /\ IsFiniteSet(CallsOf(w))
    BY DEF FileInv, TypeInv
  <1>2. NoDialog \in Dialog
    BY RowTypes, UrlPathTypes DEF Dialog, NoDialog
  <1>3. /\ window \in Window /\ window.failed = before.failed /\ window.dialog = NoDialog
        /\ window.rows = before.rows /\ window.crumbs = before.crumbs /\ window.dir = before.dir
        /\ window.destination = before.destination /\ window.fresh = before.fresh
    BY <1>1, <1>2 DEF Window
  <1>4. ASSUME w \in Patient, ~window.failed
        PROVE  /\ CallsOf(w) = {} /\ TrailEnds(window) /\ UpToDate(window)
               /\ DialogOf(before)
    <2>1. WaitsIn(before, CallsOf(w))
      BY <1>3, <1>4 DEF FileInv, Waits
    <2>2. CallsOf(w) = {} /\ DialogOf(before) /\ TrailEnds(before) /\ UpToDate(before)
      BY <2>1 DEF WaitsIn
    <2> QED
      BY <1>3, <2>2 DEF TrailEnds, UpToDate
  <1>5. win' = [win EXCEPT ![w] = window]
    BY DEF CloseDialog, Become
  <1> QED
    BY <1>1, <1>3, <1>4, <1>5

(* The user thinks better of it. *)
LEMMA DismissDialogKept ==
    ASSUME FileInv, NEW w \in Windows, DismissDialog(w)
    PROVE  FileInv'
  <1>1. PICK before, window : before = win[w] /\ window = [before EXCEPT !.dialog = NoDialog]
    OBVIOUS
  <1>2. /\ window \in Window /\ win' = [win EXCEPT ![w] = window] /\ window.dialog = NoDialog
        /\ w \in Patient /\ ~window.failed =>
              CallsOf(w) = {} /\ TrailEnds(window) /\ UpToDate(window)
    BY <1>1, ClosedWindow DEF DismissDialog
  <1> QED
    BY <1>2, Quiet DEF DismissDialog

(* The user confirms, and the call to delete is sent. *)
LEMMA ConfirmDeleteKept ==
    ASSUME FileInv, NEW w \in Windows, ConfirmDelete(w)
    PROVE  FileInv'
  <1>1. PICK before, window : before = win[w] /\ window = [before EXCEPT !.dialog = NoDialog]
    OBVIOUS
  <1>2. /\ before \in Window /\ window \in Window /\ win' = [win EXCEPT ![w] = window]
        /\ IsFiniteSet(CallsOf(w)) /\ window.dialog = NoDialog
        /\ w \in Patient /\ ~window.failed =>
              /\ CallsOf(w) = {} /\ TrailEnds(window) /\ UpToDate(window)
              /\ DialogOf(before) /\ before.dir = window.dir
    BY <1>1, ClosedWindow DEF ConfirmDelete
  <1>3. PICK dialog, op : /\ dialog = before.dialog
                          /\ op = IF dialog.row.type = "folder" THEN "deletefolder" ELSE "deletefile"
    OBVIOUS
  <1>4. dialog \in Dialog /\ op \in Operations /\ op \in {"deletefolder", "deletefile"}
    BY <1>2, <1>3 DEF Window, Operations
  <1>5. PICK c, d : /\ c = NewCall(w, op, dialog.path)
                    /\ d = [c EXCEPT !.name = dialog.row.name, !.here = dialog.here]
    OBVIOUS
  <1>6. /\ dialog.path \in UrlPaths /\ dialog.here \in BOOLEAN /\ dialog.row \in Rows
        /\ dialog.row.name \in FolderNames \cup FileNames \cup {"none"}
    BY <1>4, RowTypes DEF Dialog
  <1>7. c \in Call /\ c.w = w /\ c.op = op /\ c.path = dialog.path /\ c.stage = "sent"
    BY <1>2, <1>4, <1>5, <1>6, NewCallTypes
  <1>8. /\ d \in Call /\ d.w = w /\ d.op = op /\ d.path = dialog.path /\ d.stage = "sent"
        /\ d.here = dialog.here
    BY <1>5, <1>6, <1>7 DEF Call
  <1>9. CallOK(d)
    BY <1>4, <1>8 DEF CallOK
  <1>10. ASSUME TrailEnds(window), UpToDate(window), DialogOf(before), before.dir = window.dir
         PROVE  Awaits(window, d)
    <2>1. CASE op = "deletefolder"
      BY <1>8, <1>10, <2>1 DEF Awaits, AwaitsChange
    <2>2. CASE op = "deletefile"
      <3>1. dialog.path = window.dir /\ dialog.here
        BY <1>3, <1>10, <2>2 DEF DialogOf
      <3> QED
        BY <1>8, <1>10, <2>2, <3>1 DEF Awaits, AwaitsDeletion
    <2> QED
      BY <1>4, <2>1, <2>2
  <1>11. Send(d) /\ Causes(w) /\ UNCHANGED disk
    BY <1>1, <1>3, <1>5 DEF ConfirmDelete
  <1>12. w \in Patient /\ ~window.failed =>
            CallsOf(w) = {} /\ window.dialog = NoDialog /\ Awaits(window, d)
    BY <1>2, <1>10
  <1> QED
    BY <1>2, <1>8, <1>9, <1>11, <1>12, Sent

(* The call that carries a file. *)
LEMMA UploadCallTypes ==
    ASSUME NEW w \in Windows, IsFiniteSet(CallsOf(w)), win \in [Windows -> Window],
           NEW d \in UploadCalls(w)
    PROVE  CallOK(d) /\ d.w = w /\ d.op = "upload" /\ d.stage = "sent" /\ ~d.addBreadCrumb
  <1>1. PICK name \in FileNames, body \in Bodies : d = UploadCall(w, name, body)
    BY DEF UploadCalls
  <1>2. PICK c : c = NewCall(w, "upload", win[w].destination)
    OBVIOUS
  <1>3. c \in Call /\ c.w = w /\ c.op = "upload" /\ c.stage = "sent" /\ ~c.addBreadCrumb
    BY <1>2, NewCallTypes DEF Operations, Window
  <1>4. /\ d \in Call /\ d.w = w /\ d.op = "upload" /\ d.stage = "sent" /\ d.name = name
        /\ ~d.addBreadCrumb
    <2>1. d = [c EXCEPT !.name = name, !.body = body]
      BY <1>1, <1>2 DEF UploadCall
    <2> QED
      BY <1>3, <2>1 DEF Call
  <1> QED
    BY <1>4 DEF CallOK

(* The user sends a file to the folder of the hidden field. *)
LEMMA UploadFileKept ==
    ASSUME FileInv, NEW w \in Windows, UploadFile(w)
    PROVE  FileInv'
  <1>1. PICK before : before = win[w]
    OBVIOUS
  <1>2. /\ before \in Window /\ before.dialog = NoDialog /\ UNCHANGED disk
        /\ IsFiniteSet(CallsOf(w)) /\ win \in [Windows -> Window]
        /\ w \in Patient /\ ~before.failed =>
              CallsOf(w) = {} /\ TrailEnds(before) /\ UpToDate(before)
    BY <1>1, ActingWindow DEF UploadFile
  <1>3. PICK d \in UploadCalls(w) : Send(d)
    BY DEF UploadFile
  <1>4. CallOK(d) /\ d.w = w /\ d.op = "upload" /\ d.stage = "sent"
    BY <1>2, UploadCallTypes
  <1>5. Causes(w) /\ win' = [win EXCEPT ![w] = before]
    BY <1>1, <1>2 DEF UploadFile
  <1>6. w \in Patient /\ ~before.failed =>
           CallsOf(w) = {} /\ before.dialog = NoDialog /\ Awaits(before, d)
    BY <1>2, <1>4 DEF Awaits, AwaitsChange
  <1> QED
    BY <1>2, <1>3, <1>4, <1>5, <1>6, Sent

(* The window lists its folder, and sends a file to it, at once.           *)
LEMMA DropFileKept ==
    ASSUME FileInv, NEW w \in Windows, DropFile(w)
    PROVE  FileInv'
  <1>1. /\ TypeInv /\ MayAct(w) /\ win' = win /\ UNCHANGED disk
        /\ acts' \in [Windows -> Nat]
    BY CausedTypes DEF FileInv, DropFile, MayAct
  <1>2. IsFiniteSet(CallsOf(w)) /\ win \in [Windows -> Window]
    BY <1>1 DEF TypeInv
  <1>3. PICK c \in UploadCalls(w) :
           calls' = calls \cup {UpdateCurrent(w, FALSE),
                                [c EXCEPT !.n = FreeNumber(CallsOf(w) \cup
                                                           {UpdateCurrent(w, FALSE)})]}
    BY DEF DropFile
  <1>4. PICK listing : listing = UpdateCurrent(w, FALSE)
    OBVIOUS
  <1>5. PICK n : n = FreeNumber(CallsOf(w) \cup {listing})
    OBVIOUS
  <1>6. PICK d : d = [c EXCEPT !.n = n]
    OBVIOUS
  <1>7. calls' = calls \cup {listing, d}
    BY <1>3, <1>4, <1>5, <1>6
  <1>8. /\ CallOK(listing) /\ listing.w = w /\ listing.op = "folderinfo"
        /\ listing.path = CurrentPath(win[w].crumbs) /\ ~listing.addBreadCrumb
        /\ listing.named = (win[w].crumbs # <<>>) /\ listing.stage = "sent"
    BY <1>2, <1>4, UpdateCurrentTypes
  <1>9. n \in Nat
    <2>1. IsFiniteSet(CallsOf(w) \cup {listing})
      BY <1>2, FS_AddElement
    <2> QED
      BY <1>5, <2>1, FreeNumberIsNumber
  <1>10. CallOK(d) /\ d.w = w /\ d.op = "upload" /\ d.stage = "sent" /\ ~d.addBreadCrumb
    <2>1. /\ CallOK(c) /\ c \in Call /\ c.w = w
          /\ c.op = "upload" /\ c.stage = "sent" /\ ~c.addBreadCrumb
      BY <1>2, UploadCallTypes DEF CallOK
    <2>2. /\ d \in Call /\ d.w = w /\ d.op = c.op /\ d.path = c.path /\ d.name = c.name
          /\ d.stage = c.stage /\ d.addBreadCrumb = c.addBreadCrumb
      BY <1>6, <1>9, <2>1 DEF Call
    <2> QED
      BY <2>1, <2>2 DEF CallOK
  <1>11. /\ CallsOf(w)' = (CallsOf(w) \cup {listing}) \cup {d}
         /\ \A u : u # w => CallsOf(u)' = CallsOf(u)
    BY <1>7, <1>8, <1>10 DEF CallsOf
  <1>12. \A u \in Windows : IsFiniteSet(CallsOf(u)')
    <2>1. IsFiniteSet((CallsOf(w) \cup {listing}) \cup {d})
      <3>1. IsFiniteSet(CallsOf(w) \cup {listing})
        BY <1>2, FS_AddElement
      <3> QED
        BY <3>1, FS_AddElement
    <2> QED
      BY <1>1, <1>11, <2>1 DEF TypeInv
  <1>13. TypeInv'
    BY <1>1, <1>7, <1>8, <1>10, <1>12 DEF TypeInv, DiskTypeOK, disk
  <1>14. ASSUME NEW u \in Patient PROVE Waits(u)'
    <2>1. CASE u # w
      <3>1. Waits(u) /\ CallsOf(u)' = CallsOf(u)
        BY <1>11, <2>1 DEF FileInv
      <3> QED
        BY <1>1, <3>1, WaitsUnchanged
    <2>2. CASE u = w
      <3>1. PICK window, own : window = win[w] /\ own = {listing, d}
        OBVIOUS
      <3>2. CASE window.failed
        BY <1>1, <2>2, <3>1, <3>2, WaitsLater
      <3>3. CASE ~window.failed
        <4>1. /\ window.dialog = NoDialog /\ CallsOf(w) = {}
              /\ TrailEnds(window) /\ UpToDate(window)
          BY <1>1, <2>2, <3>1, <3>3, ActingWindow
        <4>2. CallsOf(w)' = own /\ own # {} /\ win'[w] = window
          BY <1>1, <1>11, <3>1, <4>1
        <4>3. \A x, y \in own : x = y \/ MayMeet(x, y)
          BY <1>8, <1>10, <3>1 DEF MayMeet
        <4>4. CurrentPath(window.crumbs) = window.dir /\ window.crumbs # <<>>
          BY <4>1, ChainIsTrail DEF TrailEnds
        <4>5. Awaits(window, listing)
          BY <1>8, <3>1, <4>1, <4>4 DEF Awaits, AwaitsFolder, TrailEnds
        <4>6. Awaits(window, d)
          BY <1>10, <4>1 DEF Awaits, AwaitsChange
        <4>7. Awaits(window, listing)' /\ Awaits(window, d)'
          BY <1>1, <4>5, <4>6, AwaitsUnchanged
        <4>8. \A x \in own : Awaits(window, x)'
          BY <3>1, <4>7
        <4> QED
          BY <2>2, <4>1, <4>2, <4>3, <4>8, WaitsForSome
      <3> QED
        BY <3>2, <3>3
    <2> QED
      BY <2>1, <2>2
  <1> QED
    BY <1>13, <1>14 DEF FileInv

(* A window starts anew.                                                   *)
LEMMA ReloadKept ==
    ASSUME FileInv, NEW w \in Windows, Reload(w)
    PROVE  FileInv'
  <1> DEFINE left == {c \in CallsOf(w) : c.op # "folderinfo"}
             gone == {[c EXCEPT !.w = "left"] : c \in left}
  <1>1. /\ TypeInv /\ UNCHANGED disk /\ acts' \in [Windows -> Nat]
        /\ win' = [win EXCEPT ![w] = Loading]
    BY CausedTypes DEF FileInv, Reload, Become
  <1>2. calls' = (calls \ CallsOf(w)) \cup gone \cup {FirstCall(w)}
    BY DEF Reload
  <1>3. \A d \in gone : CallOK(d) /\ d.w = "left"
    <2> SUFFICES ASSUME NEW c \in left, NEW d, d = [c EXCEPT !.w = "left"]
                 PROVE  CallOK(d) /\ d.w = "left"
      OBVIOUS
    <2>1. c \in Call /\ CallOK(c) /\ c.op # "folderinfo"
      BY <1>1, CallsTypes DEF CallsOf
    <2>2. /\ d \in Call /\ d.w = "left" /\ d.op = c.op /\ d.path = c.path /\ d.name = c.name
          /\ d.stage = c.stage
      BY <2>1 DEF Call
    <2> QED
      BY <2>1, <2>2 DEF CallOK
  <1>4. CallOK(FirstCall(w)) /\ FirstCall(w).w = w /\ Awaits(Loading, FirstCall(w))
    BY FirstCallTypes
  <1>5. PICK d : d = FirstCall(w)
    OBVIOUS
  <1> HIDE DEF gone
  <1>6. "left" \notin Windows
    BY FileManagerAssumption DEF FileManagerAssumption
  <1>7. /\ CallsOf(w)' = {d}
        /\ \A u \in Windows : u # w => CallsOf(u)' = CallsOf(u)
    BY <1>2, <1>3, <1>4, <1>5, <1>6 DEF CallsOf
  <1>8. Loading \in Window /\ Loading.dialog = NoDialog
    BY LoadingTypes
  <1>9. win' \in [Windows -> Window] /\ win'[w] = Loading
    BY <1>1, <1>8, WindowReplaced
  <1>10. TypeInv'
    <2>1. IsFiniteSet({d})
      BY FS_Singleton
    <2>2. \A u \in Windows : IsFiniteSet(CallsOf(u)')
      BY <1>1, <1>7, <2>1 DEF TypeInv
    <2>3. \A c \in calls' : CallOK(c)
      BY <1>1, <1>2, <1>3, <1>4 DEF TypeInv
    <2> QED
      BY <1>1, <1>9, <2>2, <2>3 DEF TypeInv, DiskTypeOK, disk
  <1>11. ASSUME NEW u \in Patient PROVE Waits(u)'
    <2>1. u \in Windows
      BY FileManagerAssumption DEF FileManagerAssumption
    <2>2. CASE u # w
      BY <1>1, <1>7, <2>1, <2>2, OtherWindow
    <2>3. CASE u = w
      <3>1. PICK window : window = Loading
        OBVIOUS
      <3>2. Awaits(window, d) /\ window.dialog = NoDialog
        BY <1>4, <1>5, <1>8, <3>1
      <3>3. Awaits(window, d)'
        BY <1>1, <3>2, AwaitsUnchanged
      <3> QED
        BY <1>7, <1>9, <2>3, <3>1, <3>2, <3>3, WaitsForOne
    <2> QED
      BY <2>2, <2>3
  <1> QED
    BY <1>10, <1>11 DEF FileInv

(* Whatever the user does. *)
LEMMA UserKept ==
    ASSUME FileInv, NEW w \in Windows, User(w)
    PROVE  FileInv'
  BY OpenFolderKept, ClickCrumbKept, AddNewFolderKept, AskToDeleteKept, ConfirmDeleteKept,
     DismissDialogKept, UploadFileKept, DropFileKept, ReloadKept DEF User

(* The invariant holds at first, and in every step. *)
LEMMA FileInvInit ==
    ASSUME Init
    PROVE  FileInv
  <1>1. DiskTypeOK
    BY FolderAssumption, RootIsPath DEF Init, DiskInit, DiskTypeOK, FolderAssumption
  <1>2. win \in [Windows -> Window] /\ acts \in [Windows -> Nat]
    BY LoadingTypes DEF Init
  <1>3. \A w \in Windows : CallsOf(w) = {FirstCall(w)} /\ win[w] = Loading
    BY FirstCallTypes DEF Init, CallsOf
  <1>4. \A w \in Windows : IsFiniteSet(CallsOf(w))
    BY <1>3, FS_Singleton
  <1>5. \A c \in calls : CallOK(c)
    BY FirstCallTypes DEF Init
  <1>6. TypeInv
    BY <1>1, <1>2, <1>4, <1>5 DEF TypeInv
  <1>7. ASSUME NEW w \in Patient PROVE Waits(w)
    <2>1. w \in Windows
      BY FileManagerAssumption DEF FileManagerAssumption
    <2>2. /\ CallsOf(w) = {FirstCall(w)} /\ win[w] = Loading /\ Loading.dialog = NoDialog
          /\ Awaits(Loading, FirstCall(w))
      BY <1>3, <2>1, FirstCallTypes, LoadingTypes
    <2> QED
      BY <2>2 DEF Waits, WaitsIn
  <1> QED
    BY <1>6, <1>7 DEF FileInv

LEMMA FileInvNext ==
    ASSUME FileInv, [Next]_vars
    PROVE  FileInv'
  <1>1. ASSUME NEW c \in calls, Server(c) PROVE FileInv'
    BY <1>1, ServerKept
  <1>2. ASSUME NEW c \in calls, Handle(c) PROVE FileInv'
    BY <1>2, HandleKept
  <1>3. ASSUME NEW w \in Windows, User(w) PROVE FileInv'
    BY <1>3, UserKept
  <1>4. CASE UNCHANGED vars
    <2>1. UNCHANGED <<disk, win, calls, acts>>
      BY <1>4 DEF vars
    <2>2. \A w : CallsOf(w)' = CallsOf(w)
      BY <2>1 DEF CallsOf
    <2>3. TypeInv'
      BY <2>1, <2>2 DEF FileInv, TypeInv, DiskTypeOK, disk
    <2>4. ASSUME NEW w \in Patient PROVE Waits(w)'
      <3>1. Waits(w)
        BY DEF FileInv
      <3> QED
        BY <2>1, <2>2, <3>1, WaitsUnchanged
    <2> QED
      BY <2>3, <2>4 DEF FileInv
  <1> QED
    BY <1>1, <1>2, <1>3, <1>4 DEF Next, Finished


-----------------------------------------------------------------------------
(* What the invariant gives. *)

(* In every state the types are right, and the window of a user who waits  *)
(* is as it should be: what is missing is brought by a call on its way, of *)
(* which there is one at a time, and up to three when a file was dropped.  *)
THEOREM FileManagerInvariant == Spec => []FileInv
  BY FileInvInit, FileInvNext, PTL DEF Spec

(* The disk, the windows and the calls have their types in every state,    *)
(* however many windows there are and whichever answers are lost.          *)
THEOREM FileTypes == Spec => []TypeOK
  <1>1. FileInv => TypeOK
    BY DEF FileInv, TypeInv, TypeOK, CallOK
  <1> QED
    BY <1>1, FileManagerInvariant, PTL

(* A window that waits for nothing. *)
LEMMA AtRestInOrder ==
    ASSUME FileInv, NEW w \in Patient, AtRest(w)
    PROVE  TrailEnds(win[w]) /\ UpToDate(win[w])
  BY DEF FileInv, Waits, WaitsIn, AtRest

(* A user who waits for the answers, none of which failed, finds the trail *)
(* leading to the folder that the table shows and that uploads go to,      *)
(* whatever other windows do to the disk (TableEvents.update, and the      *)
(* crumb that folderCreated takes off and the answer puts back).           *)
THEOREM TrailsLeadToTables == Spec => []TrailLeadsToTable
  <1>1. FileInv => TrailLeadsToTable
    BY AtRestInOrder DEF TrailLeadsToTable, TrailEnds
  <1> QED
    BY <1>1, FileManagerInvariant, PTL

(* The table of such a user shows what is in its folder, unless another    *)
(* window has changed the disk since the folder was read, or the listing   *)
(* from before a dropped file was saved was shown after the one from after *)
(* it.                                                                     *)
THEOREM TablesAreCurrent == Spec => []TableIsCurrent
  <1>1. FileInv => TableIsCurrent
    BY AtRestInOrder DEF TableIsCurrent, UpToDate
  <1> QED
    BY <1>1, FileManagerInvariant, PTL

-----------------------------------------------------------------------------
(* The files. *)

(* What a step may do to the files: see FilesAreDeletedByName. *)
KeptOrDeleted(f) ==
    \/ \E g \in files' : g.dir = f.dir /\ g.name = f.name
    \/ \E c \in calls : DeleteFileCall(c) /\ c.path = f.dir /\ c.name = f.name

(* Where the files stay as they are, none disappears. *)
LEMMA FilesUnchanged ==
    ASSUME UNCHANGED files
    PROVE  \A f \in files : KeptOrDeleted(f)
  BY DEF KeptOrDeleted

(* SaveAs leaves a file of every name there was in a folder. *)
LEMMA SaveAsKeepsNames ==
    ASSUME NEW dir, NEW name, NEW body, SaveAs(dir, name, body), NEW f \in files
    PROVE  \E g \in files' : g.dir = f.dir /\ g.name = f.name
  <1> DEFINE saved == [dir |-> dir, name |-> name, body |-> body]
  <1>1. CASE f.dir = dir /\ f.name = name
    <2>1. saved \in files' /\ saved.dir = dir /\ saved.name = name
      BY DEF SaveAs
    <2> QED
      BY <1>1, <2>1
  <1>2. CASE f.dir # dir \/ f.name # name
    BY <1>2 DEF SaveAs
  <1> QED
    BY <1>1, <1>2

(* Only deleting a file and saving one change the files. *)
LEMMA ServerKeepsFiles ==
    ASSUME NEW c \in calls, Server(c)
    PROVE  \A f \in files : KeptOrDeleted(f)
  <1>1. CASE FolderInfo(c)
    BY <1>1, FilesUnchanged DEF FolderInfo, disk
  <1>2. CASE DeleteFileCall(c)
    <2>1. CASE IsAttachmentPathValid(c.path)
      <3>1. files' = {f \in files : f.dir # c.path \/ f.name # c.name}
        BY <1>2, <2>1 DEF DeleteFileCall, DeleteFile
      <3> QED
        BY <1>2, <3>1 DEF KeptOrDeleted
    <2>2. CASE ~IsAttachmentPathValid(c.path)
      BY <1>2, <2>2, FilesUnchanged DEF DeleteFileCall, Refuse, disk
    <2> QED
      BY <2>1, <2>2
  <1>3. CASE DeleteFolderCheck(c)
    BY <1>3, FilesUnchanged DEF DeleteFolderCheck, Refuse, disk
  <1>4. CASE DeleteFolderRemove(c)
    BY <1>4, FilesUnchanged DEF DeleteFolderRemove, RemoveFolder, Refuse, disk
  <1>5. CASE NewFolderCheck(c)
    BY <1>5, FilesUnchanged DEF NewFolderCheck, Refuse, disk
  <1>6. CASE NewFolderCreate(c)
    BY <1>6, FilesUnchanged DEF NewFolderCreate, CreateDirectory
  <1>7. CASE UploadCheck(c)
    BY <1>7, FilesUnchanged DEF UploadCheck, Refuse, disk
  <1>8. CASE UploadSave(c)
    <2>1. CASE c.path \in folders
      <3>1. SaveAs(c.path, c.name, c.body)
        BY <1>8, <2>1 DEF UploadSave
      <3> QED
        BY <3>1, SaveAsKeepsNames DEF KeptOrDeleted
    <2>2. CASE c.path \notin folders
      BY <1>8, <2>2, FilesUnchanged DEF UploadSave, Refuse, disk
    <2> QED
      BY <2>1, <2>2
  <1>9. CASE Lose(c)
    BY <1>9, FilesUnchanged DEF Lose, Refuse, disk
  <1> QED
    BY <1>1, <1>2, <1>3, <1>4, <1>5, <1>6, <1>7, <1>8, <1>9 DEF Server

(* A window touches no file by itself. *)
LEMMA UserKeepsFiles ==
    ASSUME NEW w \in Windows, User(w)
    PROVE  \A f \in files : KeptOrDeleted(f)
  <1>1. UNCHANGED files
    BY DEF User, OpenFolder, ClickCrumb, AddNewFolder, AskToDelete, ConfirmDelete,
           DismissDialog, UploadFile, DropFile, Reload, MayAct, disk
  <1> QED
    BY <1>1, FilesUnchanged

(* No file disappears but by a call to delete a file of that name in that  *)
(* folder, whatever the answers overtake and however many windows upload   *)
(* to the folders that others delete (DeleteFolder checks that a folder is *)
(* empty in one call and deletes it in another).                           *)
THEOREM FilesKept == Spec => FilesAreDeletedByName
  <1>1. ASSUME NEW c \in calls, Server(c)
        PROVE  \A f \in files : KeptOrDeleted(f)
    BY <1>1, ServerKeepsFiles
  <1>2. ASSUME NEW c \in calls, Handle(c)
        PROVE  \A f \in files : KeptOrDeleted(f)
    BY <1>2, FilesUnchanged DEF Handle, disk
  <1>3. ASSUME NEW w \in Windows, User(w)
        PROVE  \A f \in files : KeptOrDeleted(f)
    BY <1>3, UserKeepsFiles
  <1>4. ASSUME Finished
        PROVE  \A f \in files : KeptOrDeleted(f)
    BY <1>4, FilesUnchanged DEF Finished, vars, disk
  <1>5. [Next]_vars =>
          [\A f \in files :
             \/ \E g \in files' : g.dir = f.dir /\ g.name = f.name
             \/ \E c \in calls : /\ DeleteFileCall(c)
                                 /\ c.path = f.dir /\ c.name = f.name]_vars
    BY <1>1, <1>2, <1>3, <1>4 DEF Next, KeptOrDeleted
  <1> QED
    BY <1>5, PTL DEF Spec, FilesAreDeletedByName

=============================================================================
