------------------------------ MODULE FileTree ------------------------------
(***************************************************************************)
(* The directories of a mounted torrent: the table stores the torrent's    *)
(* files as a list, and readdir and getattr of StreamarrFsService answer   *)
(* from it and from the tree buildTree makes of it; and the bytes read     *)
(* copies once the torrent is in the client                                *)
(* (server/src/streamarrfs/streamarrfs.service.ts).                        *)
(*                                                                         *)
(* A path is a sequence of names; the first one is "healthcheck" or an     *)
(* infohash, the rest is a path in that torrent.  Names that objects       *)
(* inherit from Object.prototype are left out.                             *)
(*                                                                         *)
(* The operators named Bug... are defects, as in TorrentClient.            *)
(***************************************************************************)
EXTENDS Integers, FiniteSets, SequencesExt

CONSTANTS
    InfoHash,
    Name,      \* names of files and directories in torrents
    MaxDepth,  \* names in a path, and
    MaxFiles,  \* files in a torrent: bounds of the model
    Length,    \* lengths of files
    PieceLength, \* of every torrent
    ReadLength   \* how much FUSE asks for at once

\* A leaf of the tree keeps the file's length under the key "length".
ASSUME ReadAssumption ==
    /\ MaxDepth \in Nat /\ MaxFiles \in Nat /\ Length \subseteq Nat
    /\ PieceLength \in Nat \ {0} /\ ReadLength \subseteq Nat \ {0}
ASSUME NameAssumption == InfoHash \cap (Name \cup {"length", "healthcheck"}) = {}

VARIABLES
    files,   \* the files of each infohash, which they are a digest of
    state,   \* what the rows say of it: none, hidden or visible
    listing  \* the last answer of readdir, and the path it was about

vars == <<files, state, listing>>

PathInTorrent == SeqOf(Name, MaxDepth) \ {<<>>}
File == [path : PathInTorrent, length : Length]

\* Torrents whose files could be on a disk: no name is a file and a directory
\* at once, and none occurs twice.
FileList ==
    {list \in SeqOf(File, MaxFiles) \ {<<>>} :
        \A i, j \in DOMAIN list : i # j => ~IsPrefix(list[i].path, list[j].path)}

TypeOK ==
    /\ files \in [InfoHash -> FileList]
    /\ state \in [InfoHash -> {"none", "hidden", "visible"}]
    /\ listing.names \subseteq Name \cup InfoHash \cup {"healthcheck"}

Init ==
    /\ files \in [InfoHash -> FileList]
    /\ state = [h \in InfoHash |-> "none"]
    /\ listing = [path |-> <<>>, names |-> {}]

-----------------------------------------------------------------------------
(* buildTree *)

\* A tree maps the path of every key to its value: a number, or an object.
Object == -1
Put(tree, path, value) ==
    [p \in DOMAIN tree \cup {path} |-> IF p = path THEN value ELSE tree[p]]

\* A key that is there is set all the same.
BugPart(tree, file, i) ==
    LET path == SubSeq(file.path, 1, i)
        below == [p \in {q \in DOMAIN tree : ~IsPrefix(path, q)} |-> tree[p]] IN
    IF i = Len(file.path)
    THEN Put(Put(below, path, Object), Append(path, "length"), file.length)
    ELSE Put(below, path, Object)

\* The step for the i-th name of a path: a falsy value, which is none or the
\* number 0, is set to a leaf at the last name and to {} before.
Part(tree, file, i) ==
    LET path == SubSeq(file.path, 1, i)
        new == Put(tree, path, Object) IN
    IF path \in DOMAIN tree /\ tree[path] # 0 THEN tree
    ELSE IF i = Len(file.path) THEN Put(new, Append(path, "length"), file.length)
    ELSE new

AddFile(tree, file) ==
    FoldLeft(LAMBDA t, i : Part(t, file, i), tree, [i \in DOMAIN file.path |-> i])

buildTree(list) == FoldLeft(AddFile, [p \in {<<>>} |-> Object], list)

\* The loop stops one name too early, or begins one too late.
BugLastName(tree, path) == path = <<>> \/ Front(path) \in DOMAIN tree
BugFirstName(tree, path) == path = <<>> \/ Tail(path) \in DOMAIN tree

\* getDirFromFileTree finds something truthy.
FoundInTree(tree, path) == path \in DOMAIN tree /\ tree[path] # 0

\* The entries a file system adds itself are added.
BugDots(tree, path) ==
    {".", ".."} \cup {Last(p) : p \in {q \in DOMAIN tree \ {<<>>} : Front(q) = path}}

\* Object.keys
Keys(tree, path) == {Last(p) : p \in {q \in DOMAIN tree \ {<<>>} : Front(q) = path}}

-----------------------------------------------------------------------------
(* readdir and getattr *)

VisibleHashes == {h \in InfoHash : state[h] = "visible"}

Names(names) == [error |-> "none", names |-> names]
Error(e) == [error |-> e, names |-> {}]

\* Without a row, reading its files throws.  A row that is hidden is listed.
readdir(path) ==
    IF path = <<>> THEN Names(VisibleHashes \cup {"healthcheck"})
    ELSE IF path = <<"healthcheck">> THEN Names({})
    ELSE IF state[Head(path)] = "none" THEN Error("EIO")
    ELSE LET tree == buildTree(files[Head(path)]) IN
         Names(IF FoundInTree(tree, Tail(path)) THEN Keys(tree, Tail(path)) ELSE {})

Stat(mode, size) == [error |-> "none", mode |-> mode, size |-> size]
NoStat == [error |-> "ENOENT", mode |-> "none", size |-> 0]

\* A hidden torrent is not found, nor what is in it.
getattr(path) ==
    IF path = <<>> THEN Stat("dir", Cardinality(VisibleHashes))
    ELSE IF path = <<"healthcheck">> THEN Stat("dir", 1)
    ELSE IF Head(path) \notin VisibleHashes THEN NoStat
    ELSE LET list == files[Head(path)]
             tree == buildTree(list)
             found == {i \in DOMAIN list : list[i].path = Tail(path)} IN
         IF found # {} THEN Stat("file", list[CHOOSE i \in found : TRUE].length)
         ELSE IF FoundInTree(tree, Tail(path))
              THEN Stat("dir", Cardinality(Keys(tree, Tail(path))))
              ELSE NoStat

-----------------------------------------------------------------------------
(* read: the i-th byte of a file is the number i.                          *)

\* Where a torrent that concatenates these files has the i-th.
Offset(list, i) ==
    FoldLeft(LAMBDA n, file : n + file.length, 0, SubSeq(list, 1, i - 1))

Bytes(from, to) == [k \in 1..(to - from + 1) |-> from + k - 1]

\* What file[Symbol.asyncIterator]({start, end}) yields: the bytes from start
\* to end, end included, cut off at the end of the file and into pieces.
Chunks(offset, length, start, end) ==
    LET last == Min({end, length - 1})
        startPiece == (offset + start) \div PieceLength
        endPiece == (offset + last) \div PieceLength IN
    [k \in 1..(endPiece - startPiece + 1) |->
        LET pieceStart == (startPiece + k - 1) * PieceLength - offset IN
        Bytes(Max({start, pieceStart}), Min({last, pieceStart + PieceLength - 1}))]

\* What was fetched is counted.
BugFetchedCounted(len, got, data) ==
    LET copylen == Min({Len(data), len - Len(got.buf)}) IN
    [buf |-> got.buf \o SubSeq(data, 1, copylen), total |-> got.total + Len(data)]

\* data.copy copies what the buffer of len bytes has room for.
Copy(len, got, data) ==
    LET copylen == Min({Len(data), len - Len(got.buf)}) IN
    [buf |-> got.buf \o SubSeq(data, 1, copylen), total |-> got.total + copylen]

read(path, pos, len) ==
    LET list == files[Head(path)]
        found == {i \in DOMAIN list : list[i].path = Tail(path)}
        i == CHOOSE j \in found : TRUE
        nothing == [buf |-> <<>>, total |-> 0] IN
    IF pos >= list[i].length THEN nothing
    ELSE FoldLeft(LAMBDA got, data : Copy(len, got, data), nothing,
                  Chunks(Offset(list, i), list[i].length, pos, pos + len))

-----------------------------------------------------------------------------
(* A FUSE client's walk: the kernel goes on below directories only.        *)

PathsIn(h) == {<<h>> \o p : p \in SeqOf(Name, MaxDepth)}

ReadDir(path) ==
    /\ getattr(path).mode = "dir"
    /\ listing' = [path |-> path, names |-> readdir(path).names]
    /\ UNCHANGED <<files, state>>

\* The indexer stores a torrent, the stop button hides and shows it, the REST
\* controller deletes it.
SetState(h, from, to) ==
    /\ state[h] \in from
    /\ state' = [state EXCEPT ![h] = to]
    /\ UNCHANGED <<files, listing>>

StoreTorrent(h) == SetState(h, {"none"}, "visible")
HideTorrent(h) == SetState(h, {"visible"}, "hidden")
ShowTorrent(h) == SetState(h, {"hidden"}, "visible")
RemoveTorrent(h) == SetState(h, {"hidden", "visible"}, "none")

Next ==
    \/ ReadDir(<<>>) \/ ReadDir(<<"healthcheck">>)
    \/ \E h \in InfoHash : \E path \in PathsIn(h) : ReadDir(path)
    \/ \E h \in InfoHash :
          StoreTorrent(h) \/ ShowTorrent(h) \/ HideTorrent(h) \/ RemoveTorrent(h)

Spec == Init /\ [][Next]_vars

-----------------------------------------------------------------------------
(* What a directory has to be, said of the files and not of a tree. *)

\* The names in directory dir of a torrent with these files.
Children(list, dir) ==
    {list[i].path[Len(dir) + 1] : i \in {j \in DOMAIN list : IsStrictPrefix(dir, list[j].path)}}

IsFile(list, p) == \E i \in DOMAIN list : list[i].path = p

\* readdir lists each directory of a torrent exactly, whatever the order of
\* its files and also when a file or a directory is called "length", which is
\* what buildTree calls the length of a leaf.
ListingsAreExact ==
    \A h \in VisibleHashes : \A path \in PathsIn(h) :
        ~IsFile(files[h], Tail(path)) =>
            readdir(path).names = Children(files[h], Tail(path))

\* getattr, of any path whose parent is a directory, tells files, directories
\* and what does not exist apart, with the length of the file or the number
\* of names in the directory.
AttributesAreExact ==
    \A h \in VisibleHashes : \A path \in PathsIn(h) :
        LET names == Children(files[h], Tail(path)) IN
        CASE IsFile(files[h], Tail(path)) ->
                \E i \in DOMAIN files[h] :
                    /\ files[h][i].path = Tail(path)
                    /\ getattr(path) = Stat("file", files[h][i].length)
          [] names # {} \/ Tail(path) = <<>> ->
                getattr(path) = Stat("dir", Cardinality(names))
          [] OTHER ->
                IsFile(files[h], Front(Tail(path))) \/ getattr(path) = NoStat

\* read answers with the number of bytes asked for, or with what the file that
\* getattr describes has left, and has put exactly those into the buffer,
\* wherever the file's pieces begin and end and although it fetches a byte
\* more than was asked for.
ReadsAreExact ==
    \A h \in VisibleHashes : \A path \in PathsIn(h) :
        IsFile(files[h], Tail(path)) =>
            LET size == getattr(path).size IN
            \A pos \in 0..(size + 1), len \in ReadLength :
                LET got == read(path, pos, len) IN
                /\ got.buf = Bytes(pos, Min({pos + len, size}) - 1)
                /\ got.total = Len(got.buf)

\* What readdir has listed getattr knows, when the client comes to ask, unless
\* the torrent was hidden or deleted meanwhile.
ListedIsKnown ==
    \A n \in listing.names :
        LET path == Append(listing.path, n) IN
        path = <<"healthcheck">> \/ Head(path) \in VisibleHashes
            => getattr(path).error = "none"
=============================================================================
