--------------------------- MODULE FileTreeProofs ---------------------------
(***************************************************************************)
(* Proofs about the directories of a mounted torrent and the bytes read    *)
(* copies, for every list of files, every name, every depth, every length  *)
(* of files and pieces, and every read.                                    *)
(*                                                                         *)
(* buildTree, Offset and read are folds over sequences of any length.      *)
(* What a fold computes is shown in two steps: the function on sets of     *)
(* indices that FoldLeft chooses exists, so that it has the property it is *)
(* chosen by; and its values for the first 0, 1, ... n indices are a row,  *)
(* along which an invariant of the loop is carried by induction.           *)
(***************************************************************************)
EXTENDS FileTree, WellFoundedInduction, SequenceTheorems, TLAPS

-----------------------------------------------------------------------------
(* Induction, and the folds of the community modules *)

\* Induction over the numbers, said of a set: the least number that is not in S
\* has a predecessor that is.
LEMMA SetInduction ==
    ASSUME NEW S, 0 \in S, \A n \in Nat : n \in S => n + 1 \in S
    PROVE  Nat \subseteq S
<1> DEFINE Less == OpToRel(<, Nat)
           T == Nat \ S
<1> SUFFICES ASSUME T # {} PROVE FALSE
  OBVIOUS
<1>1. PICK x \in T : \A y \in T : <<y, x>> \notin Less
  <2>1. T \subseteq Nat
    OBVIOUS
  <2>2. IsWellFoundedOn(Less, Nat)
    BY NatLessThanWellFounded DEF Less
  <2> HIDE DEF T, Less
  <2> QED BY <2>1, <2>2, WFMin
<1>2. x \in Nat /\ x # 0
  OBVIOUS
<1>3. x - 1 \in T
  BY <1>2
<1>4. <<x - 1, x>> \in Less
  BY <1>2 DEF OpToRel
<1>5. QED
  BY <1>1, <1>3, <1>4

\* The greatest of the first n numbers, and of some of them.
LEMMA MaxOfInterval ==
    ASSUME NEW n \in Nat \ {0}
    PROVE  Max(1..n) = n
  BY DEF Max

LEMMA MaxOfSome ==
    ASSUME NEW n \in Nat, NEW s \in SUBSET (1..n), s # {}
    PROVE  /\ Max(s) \in s
           /\ \A y \in s : Max(s) >= y
<1> DEFINE HasMax(t) == t # {} => \E x \in t : \A y \in t : x >= y
           Good == {m \in Nat : \A t \in SUBSET (1..m) : HasMax(t)}
<1>1. 0 \in Good
  <2>1. 1..0 = {}
    OBVIOUS
  <2>2. \A t \in SUBSET (1..0) : HasMax(t)
    BY <2>1
  <2>3. QED
    BY <2>2
<1>2. ASSUME NEW m \in Nat, m \in Good PROVE m + 1 \in Good
  <2>1. ASSUME NEW t \in SUBSET (1..(m + 1)), m + 1 \in t PROVE HasMax(t)
    BY <2>1
  <2>2. ASSUME NEW t \in SUBSET (1..(m + 1)), m + 1 \notin t PROVE HasMax(t)
    <3>1. t \in SUBSET (1..m)
      BY <2>2
    <3>2. QED
      BY <3>1, <1>2
  <2>3. QED
    BY <2>1, <2>2
<1>3. n \in Good
  <2> HIDE DEF Good
  <2> QED BY <1>1, <1>2, SetInduction
<1>4. \E x \in s : \A y \in s : x >= y
  BY <1>3
<1>5. QED
  BY <1>4 DEF Max

\* What FoldLeft is built from exists: a function on the sets of indices, the
\* value of a set being a step from that without the greatest index.
IsFold(iter, T, base, n, step) ==
    /\ iter \in [SUBSET (1..n) -> T]
    /\ \A s \in SUBSET (1..n) :
          iter[s] = IF s = {} THEN base ELSE step[<<iter[s \ {Max(s)}], Max(s)>>]

LEMMA FoldExists ==
    ASSUME NEW T, NEW base \in T, NEW n \in Nat,
           NEW step \in [T \X (1..n) -> T]
    PROVE  \E iter : IsFold(iter, T, base, n, step)
<1> DEFINE Folds(iter, s) ==
              iter[s] = IF s = {} THEN base ELSE step[<<iter[s \ {Max(s)}], Max(s)>>]
           Exists(m) ==
              \E iter \in [SUBSET (1..m) -> T] : \A s \in SUBSET (1..m) : Folds(iter, s)
           Good == {m \in Nat : m <= n => Exists(m)}
<1>1. 0 \in Good
  <2> DEFINE iter == [s \in SUBSET (1..0) |-> base]
  <2>1. 1..0 = {}
    OBVIOUS
  <2>2. iter \in [SUBSET (1..0) -> T]
    OBVIOUS
  <2>3. \A s \in SUBSET (1..0) : Folds(iter, s)
    BY <2>1
  <2> HIDE DEF iter
  <2>4. Exists(0)
    BY <2>2, <2>3
  <2> HIDE DEF Exists
  <2>5. QED
    BY <2>4
<1>2. ASSUME NEW m \in Nat, m \in Good PROVE m + 1 \in Good
  <2> SUFFICES ASSUME m + 1 <= n PROVE Exists(m + 1)
    <3> HIDE DEF Exists
    <3> QED OBVIOUS
  <2>0. Exists(m)
    <3> HIDE DEF Exists
    <3> QED BY <1>2
  <2>1. PICK old \in [SUBSET (1..m) -> T] : \A s \in SUBSET (1..m) : Folds(old, s)
    BY <2>0
  <2> DEFINE iter == [s \in SUBSET (1..(m + 1)) |->
                        IF m + 1 \in s THEN step[<<old[s \ {m + 1}], m + 1>>] ELSE old[s]]
  <2>2. ASSUME NEW s \in SUBSET (1..(m + 1)), m + 1 \in s
        PROVE  Max(s) = m + 1 /\ s \ {m + 1} \in SUBSET (1..m)
    <3>1. m + 1 \in Nat
      OBVIOUS
    <3>2. Max(s) \in s /\ Max(s) >= m + 1
      BY <2>2, <3>1, MaxOfSome
    <3>3. Max(s) \in 1..(m + 1)
      BY <3>2
    <3>4. Max(s) = m + 1
      BY <3>2, <3>3
    <3>5. QED
      BY <2>2, <3>4
  <2>3. ASSUME NEW s \in SUBSET (1..(m + 1)), m + 1 \notin s
        PROVE  s \in SUBSET (1..m)
    BY <2>3
  <2>4. iter \in [SUBSET (1..(m + 1)) -> T]
    <3>1. m + 1 \in 1..n
      OBVIOUS
    <3>2. QED
      BY <2>2, <2>3, <3>1
  <2>5. ASSUME NEW s \in SUBSET (1..(m + 1)) PROVE Folds(iter, s)
    <3>1. CASE m + 1 \in s
      <4>1. Max(s) = m + 1 /\ s \ {m + 1} \in SUBSET (1..m) /\ s \ {m + 1} \in SUBSET (1..(m + 1))
        BY <2>2, <3>1
      <4>2. iter[s \ {m + 1}] = old[s \ {m + 1}]
        BY <4>1
      <4>3. iter[s] = step[<<old[s \ {m + 1}], m + 1>>]
        BY <3>1
      <4>4. QED
        BY <3>1, <4>1, <4>2, <4>3
    <3>2. CASE m + 1 \notin s /\ s # {}
      <4>1. s \in SUBSET (1..m)
        BY <3>2, <2>3
      <4>2. s \ {Max(s)} \in SUBSET (1..m) /\ s \ {Max(s)} \in SUBSET (1..(m + 1))
        BY <4>1
      <4>3. iter[s \ {Max(s)}] = old[s \ {Max(s)}] /\ iter[s] = old[s]
        BY <4>2, <3>2
      <4>4. QED
        BY <2>1, <3>2, <4>1, <4>3
    <3>3. CASE s = {}
      <4>1. iter[s] = old[s]
        BY <3>3
      <4>2. old[s] = base
        BY <2>1, <3>3
      <4>3. QED
        BY <3>3, <4>1, <4>2
    <3>4. QED
      BY <3>1, <3>2, <3>3
  <2> HIDE DEF iter, Folds
  <2>6. QED
    BY <2>4, <2>5
<1>3. n \in Good
  <2> HIDE DEF Good
  <2> QED BY <1>1, <1>2, SetInduction
<1>4. Exists(n)
  <2> HIDE DEF Exists
  <2> QED BY <1>3
<1>5. QED
  BY <1>4 DEF IsFold

\* The same up to n.
LEMMA RangeInduction ==
    ASSUME NEW n \in Nat, NEW S, 0 \in S, \A k \in 1..n : k - 1 \in S => k \in S
    PROVE  0..n \subseteq S
<1> DEFINE Good == {k \in Nat : k <= n => k \in S}
<1>1. 0 \in Good
  OBVIOUS
<1>2. ASSUME NEW k \in Nat, k \in Good PROVE k + 1 \in Good
  <2>1. k + 1 <= n => k + 1 \in 1..n /\ (k + 1) - 1 \in S
    BY <1>2
  <2>2. QED
    BY <2>1
<1>3. Nat \subseteq Good
  <2> HIDE DEF Good
  <2> QED BY <1>1, <1>2, SetInduction
<1>4. QED
  BY <1>3

\* The first k numbers, without the greatest of them.
LEMMA Intervals ==
    ASSUME NEW n \in Nat
    PROVE  /\ 1..0 = {}
           /\ \A k \in 1..n : /\ 1..k \in SUBSET (1..n) /\ 1..k # {}
                              /\ (1..k) \ {k} = 1..(k - 1) /\ Max(1..k) = k
<1>1. ASSUME NEW k \in 1..n
      PROVE  1..k \in SUBSET (1..n) /\ 1..k # {} /\ (1..k) \ {k} = 1..(k - 1)
  OBVIOUS
<1>2. \A k \in 1..n : Max(1..k) = k
  BY MaxOfInterval
<1>3. QED
  BY <1>1, <1>2

\* What comes out of the loop, when the steps are those of a function.
IsRun(t, T, base, n, step) ==
    /\ t \in [0..n -> T]
    /\ t[0] = base
    /\ \A i \in 1..n : t[i] = step[<<t[i - 1], i>>]

Follows(c, T, base, n, step) ==
    /\ n \in Nat /\ base \in T /\ step \in [T \X (1..n) -> T]
    /\ c[{}] = base
    /\ \A s \in SUBSET (1..n) :
          s # {} /\ c[s \ {Max(s)}] \in T => c[s] = step[<<c[s \ {Max(s)}], Max(s)>>]

\* The value of a fold is the last of a row that begins with the base and in
\* which each value is a step from the one before.
LEMMA FoldRuns ==
    ASSUME NEW T, NEW base, NEW n, NEW step, NEW c, Follows(c, T, base, n, step)
    PROVE  \E t : IsRun(t, T, base, n, step) /\ t[n] = c[1..n]
<1> DEFINE t == [i \in 0..n |-> c[1..i]]
           Good == {i \in 0..n : c[1..i] \in T}
<1>0. n \in Nat /\ base \in T /\ step \in [T \X (1..n) -> T]
  BY DEF Follows
<1>1. ASSUME NEW i \in 1..n, c[1..(i - 1)] \in T
      PROVE  c[1..i] = step[<<c[1..(i - 1)], i>>] /\ c[1..i] \in T
  <2>1. /\ 1..i \in SUBSET (1..n) /\ 1..i # {}
        /\ (1..i) \ {i} = 1..(i - 1) /\ Max(1..i) = i
    BY <1>0, Intervals
  <2>2. QED
    BY <1>0, <1>1, <2>1 DEF Follows
<1>2. 0..n \subseteq Good
  <2>1. 0 \in Good
    BY <1>0, Intervals DEF Follows
  <2>2. ASSUME NEW i \in 1..n, i - 1 \in Good PROVE i \in Good
    <3>1. c[1..(i - 1)] \in T
      BY <2>2
    <3>2. c[1..i] \in T
      BY <1>1, <3>1
    <3>3. QED
      BY <3>2
  <2> HIDE DEF Good
  <2>3. QED
    BY <1>0, <2>1, <2>2, RangeInduction
<1>3. t \in [0..n -> T] /\ t[0] = base /\ t[n] = c[1..n]
  BY <1>0, <1>2, Intervals DEF Follows
<1>4. ASSUME NEW i \in 1..n PROVE t[i] = step[<<t[i - 1], i>>]
  <2>1. i - 1 \in 0..n /\ i \in 0..n
    BY <1>0
  <2>2. c[1..(i - 1)] \in T
    BY <1>2, <2>1
  <2>3. QED
    BY <1>1, <2>1, <2>2
<1>5. QED
  <2> HIDE DEF t
  <2> QED BY <1>0, <1>3, <1>4 DEF IsRun

-----------------------------------------------------------------------------
(* Paths, files and trees *)

\* The paths of keys, and the trees that can be built.
KeyPath == Seq(Name \cup {"length"})
Tree == UNION {[S -> Int] : S \in SUBSET KeyPath}

\* The sequences of the model are sequences.
LEMMA BoundedSeqs ==
    ASSUME NEW S, NEW n \in Nat, NEW s \in SeqOf(S, n)
    PROVE  s \in Seq(S) /\ Len(s) \in 0..n /\ DOMAIN s = 1..Len(s)
<1>1. PICK m \in 0..n : s \in [1..m -> S]
  BY DEF SeqOf
<1>2. s \in Seq(S)
  BY <1>1, SeqDef
<1>3. Len(s) = m
  BY <1>1, <1>2, LenProperties
<1>4. QED
  BY <1>1, <1>2, <1>3

\* The path of a file names at least the file.
LEMMA PathTyping ==
    ASSUME NEW file \in File
    PROVE  /\ file.path \in Seq(Name) /\ Len(file.path) \in Nat \ {0}
           /\ file.path \in KeyPath
           /\ DOMAIN file.path = 1..Len(file.path)
           /\ file.length \in Nat
<1>1. file.path \in SeqOf(Name, MaxDepth) /\ file.path # <<>> /\ file.length \in Length
  BY DEF File, PathInTorrent
<1>2. file.path \in Seq(Name) /\ DOMAIN file.path = 1..Len(file.path)
  BY <1>1, BoundedSeqs, ReadAssumption
<1>3. Len(file.path) \in Nat \ {0}
  BY <1>1, <1>2, EmptySeq
<1>4. file.path \in KeyPath
  BY <1>2, SeqMonotonic DEF KeyPath
<1>5. QED
  BY <1>1, <1>2, <1>3, <1>4, ReadAssumption

\* A list holds files, of which none is inside another.
LEMMA ListTyping ==
    ASSUME NEW list \in FileList
    PROVE  /\ list \in Seq(File) /\ Len(list) \in Nat /\ DOMAIN list = 1..Len(list)
           /\ \A i \in 1..Len(list) : list[i] \in File
           /\ \A i, j \in 1..Len(list) : i # j => ~IsPrefix(list[i].path, list[j].path)
<1>1. list \in SeqOf(File, MaxFiles)
  BY DEF FileList
<1>2. list \in Seq(File) /\ Len(list) \in Nat /\ DOMAIN list = 1..Len(list)
  BY <1>1, BoundedSeqs, ReadAssumption
<1>3. QED
  BY <1>2, ElementOfSeq DEF FileList

\* s is a prefix of t.
LEMMA PrefixIs ==
    ASSUME NEW S, NEW s \in Seq(S), NEW t \in Seq(S)
    PROVE  IsPrefix(s, t) <=> Len(s) <= Len(t) /\ \A k \in 1..Len(s) : s[k] = t[k]
<1>1. Len(s) \in Nat /\ Len(t) \in Nat
  OBVIOUS
<1>2. SubSeq(s, 1, Len(s)) = s
  BY SubSeqFull
<1>3. ASSUME Len(s) <= Len(t)
      PROVE  SubSeq(t, 1, Len(s)) \in Seq(S) /\ Len(SubSeq(t, 1, Len(s))) = Len(s)
             /\ \A k \in 1..Len(s) : SubSeq(t, 1, Len(s))[k] = t[k]
  <2>1. \A k \in 1..Len(s) : t[k] \in S
    BY <1>1, <1>3, ElementOfSeq
  <2>2. QED
    BY <1>1, <2>1, SubSeqProperties
<1>4. Len(s) <= Len(t) => (s = SubSeq(t, 1, Len(s)) <=> \A k \in 1..Len(s) : s[k] = t[k])
  BY <1>3, SeqEqual
<1>5. QED
  BY <1>2, <1>4 DEF IsPrefix

\* A key and its value leave a tree a tree.
LEMMA PutTyping ==
    ASSUME NEW tree \in Tree, NEW p \in KeyPath, NEW v \in Int
    PROVE  Put(tree, p, v) \in Tree
<1>1. PICK S \in SUBSET KeyPath : tree \in [S -> Int]
  BY DEF Tree
<1>2. Put(tree, p, v) \in [S \cup {p} -> Int]
  BY <1>1 DEF Put
<1>3. S \cup {p} \in SUBSET KeyPath
  BY <1>1
<1>4. QED
  BY <1>2, <1>3 DEF Tree

\* The path of the i-th name, and of the leaf.
Upto(file, i) == SubSeq(file.path, 1, i)
Leaf(file) == Append(file.path, "length")

\* The first i names of a path, one by one.
LEMMA UptoIs ==
    ASSUME NEW file \in File, NEW i \in 0..Len(file.path)
    PROVE  /\ Upto(file, i) \in Seq(Name) /\ Upto(file, i) \in KeyPath
           /\ Len(Upto(file, i)) = i
           /\ \A k \in 1..i : Upto(file, i)[k] = file.path[k]
<1>1. \A k \in 1..i : file.path[k] \in Name
  BY PathTyping, ElementOfSeq
<1>2. Upto(file, i) \in Seq(Name) /\ Len(Upto(file, i)) = i
      /\ \A k \in 1..i : Upto(file, i)[k] = file.path[k]
  BY <1>1, PathTyping, SubSeqProperties DEF Upto
<1>3. Upto(file, i) \in KeyPath
  BY <1>2, SeqMonotonic DEF KeyPath
<1>4. QED
  BY <1>2, <1>3

\* The names of the path of a leaf.
LEMMA LeafIs ==
    ASSUME NEW file \in File
    PROVE  /\ Leaf(file) \in KeyPath
           /\ Len(Leaf(file)) = Len(file.path) + 1
           /\ \A k \in 1..Len(file.path) : Leaf(file)[k] = file.path[k]
           /\ Leaf(file)[Len(file.path) + 1] = "length"
  BY PathTyping, AppendProperties DEF Leaf, KeyPath

\* So does a step of buildTree.
LEMMA PartTyping ==
    ASSUME NEW tree \in Tree, NEW file \in File, NEW i \in 1..Len(file.path)
    PROVE  Part(tree, file, i) \in Tree
<1>1. Upto(file, i) \in KeyPath /\ Leaf(file) \in KeyPath
  BY UptoIs, LeafIs
<1>2. file.length \in Int /\ Object \in Int
  BY PathTyping DEF Object
<1>3. Put(tree, Upto(file, i), Object) \in Tree
  BY <1>1, <1>2, PutTyping
<1>4. Put(Put(tree, Upto(file, i), Object), Leaf(file), file.length) \in Tree
  BY <1>1, <1>2, <1>3, PutTyping
<1>5. i = Len(file.path) => Append(Upto(file, i), "length") = Leaf(file)
  BY PathTyping, SubSeqFull DEF Upto, Leaf
<1>6. QED
  BY <1>3, <1>4, <1>5 DEF Part, Upto

-----------------------------------------------------------------------------
(* buildTree *)

\* AddFile is the last of a row of trees, one for each name of the path.
LEMMA AddFileSteps ==
    ASSUME NEW tree \in Tree, NEW file \in File
    PROVE  \E t \in [0..Len(file.path) -> Tree] :
              /\ t[0] = tree
              /\ \A i \in 1..Len(file.path) : t[i] = Part(t[i - 1], file, i)
              /\ AddFile(tree, file) = t[Len(file.path)]
<1> DEFINE n == Len(file.path)
           seq == [i \in DOMAIN file.path |-> i]
           step == [x \in Tree \X (1..n) |-> Part(x[1], file, seq[x[2]])]
           Rec(iter) == [s \in SUBSET DOMAIN seq |->
                           IF s = {} THEN tree ELSE Part(iter[s \ {Max(s)}], file, seq[Max(s)])]
           c == CHOOSE iter : iter = Rec(iter)
<1>1. n \in Nat /\ DOMAIN seq = 1..n /\ \A i \in 1..n : seq[i] = i
  BY PathTyping
<1>2. step \in [Tree \X (1..n) -> Tree]
  BY <1>1, PartTyping
<1>3. AddFile(tree, file) = c[DOMAIN seq]
  BY DEF AddFile, FoldLeft, MapThenFoldSet
<1> HIDE DEF n, seq
<1>4. \A s \in SUBSET (1..n) : s # {} => Max(s) \in 1..n /\ s \ {Max(s)} \in SUBSET (1..n)
  BY <1>1, MaxOfSome
<1>5. c = Rec(c)
  <2>1. PICK iter : IsFold(iter, Tree, tree, n, step)
    <3> HIDE DEF step
    <3> QED BY <1>1, <1>2, FoldExists
  <2>2. iter = Rec(iter)
    BY <1>1, <1>4, <2>1 DEF IsFold
  <2>3. QED
    <3> HIDE DEF Rec
    <3> QED BY <2>2
<1> HIDE DEF c
<1>6. Follows(c, Tree, tree, n, step)
  <2>1. \A i \in 1..n, x \in Tree : step[<<x, i>>] = Part(x, file, i)
    BY <1>1
  <2> HIDE DEF step
  <2>2. \A s \in SUBSET (1..n) :
           c[s] = IF s = {} THEN tree ELSE Part(c[s \ {Max(s)}], file, seq[Max(s)])
    BY <1>1, <1>5
  <2>3. c[{}] = tree
    BY <2>2
  <2>4. ASSUME NEW s \in SUBSET (1..n), s # {}, c[s \ {Max(s)}] \in Tree
        PROVE  c[s] = step[<<c[s \ {Max(s)}], Max(s)>>]
    BY <1>1, <1>4, <2>1, <2>2, <2>4
  <2>5. QED
    BY <1>1, <1>2, <2>3, <2>4 DEF Follows
<1>7. PICK t : IsRun(t, Tree, tree, n, step) /\ t[n] = c[1..n]
  <2> HIDE DEF step
  <2> QED BY <1>6, FoldRuns
<1>8. ASSUME NEW i \in 1..n PROVE t[i] = Part(t[i - 1], file, i)
  <2>1. <<t[i - 1], i>> \in Tree \X (1..n)
    BY <1>1, <1>7 DEF IsRun
  <2>2. QED
    BY <1>1, <1>7, <2>1 DEF IsRun
<1>9. QED
  BY <1>1, <1>3, <1>7, <1>8 DEF IsRun, n

Root == [p \in {<<>>} |-> Object]

\* The tree that buildTree starts with.
LEMMA RootTyping == Root \in Tree
<1>1. <<>> \in KeyPath
  BY EmptySeq DEF KeyPath
<1>2. {<<>>} \in SUBSET KeyPath /\ Root \in [{<<>>} -> Int]
  BY <1>1 DEF Root, Object
<1>3. QED
  BY <1>2 DEF Tree

\* buildTree is the last of a row of trees, one for each file.
LEMMA BuildTreeSteps ==
    ASSUME NEW list \in FileList
    PROVE  \E t \in [0..Len(list) -> Tree] :
              /\ t[0] = Root
              /\ \A i \in 1..Len(list) : t[i] = AddFile(t[i - 1], list[i])
              /\ buildTree(list) = t[Len(list)]
<1> DEFINE n == Len(list)
           step == [x \in Tree \X (1..n) |-> AddFile(x[1], list[x[2]])]
           Rec(iter) == [s \in SUBSET DOMAIN list |->
                           IF s = {} THEN Root ELSE AddFile(iter[s \ {Max(s)}], list[Max(s)])]
           c == CHOOSE iter : iter = Rec(iter)
<1>1. n \in Nat /\ DOMAIN list = 1..n /\ \A i \in 1..n : list[i] \in File
  BY ListTyping
<1>2. step \in [Tree \X (1..n) -> Tree]
  <2>1. ASSUME NEW tree \in Tree, NEW i \in 1..n PROVE AddFile(tree, list[i]) \in Tree
    <3>1. PICK t \in [0..Len(list[i].path) -> Tree] : AddFile(tree, list[i]) = t[Len(list[i].path)]
      BY <1>1, AddFileSteps
    <3>2. Len(list[i].path) \in 0..Len(list[i].path)
      BY <1>1, PathTyping
    <3>3. QED
      BY <3>1, <3>2
  <2>2. QED
    BY <2>1
<1>3. buildTree(list) = c[DOMAIN list]
  BY DEF buildTree, FoldLeft, MapThenFoldSet, Root
<1> HIDE DEF n
<1>4. \A s \in SUBSET (1..n) : s # {} => Max(s) \in 1..n /\ s \ {Max(s)} \in SUBSET (1..n)
  BY <1>1, MaxOfSome
<1>5. c = Rec(c)
  <2>1. PICK iter : IsFold(iter, Tree, Root, n, step)
    <3> HIDE DEF step
    <3> QED BY <1>1, <1>2, RootTyping, FoldExists
  <2>2. iter = Rec(iter)
    BY <1>1, <1>4, <2>1 DEF IsFold
  <2>3. QED
    <3> HIDE DEF Rec
    <3> QED BY <2>2
<1> HIDE DEF c
<1>6. Follows(c, Tree, Root, n, step)
  <2>1. \A i \in 1..n, x \in Tree : step[<<x, i>>] = AddFile(x, list[i])
    OBVIOUS
  <2> HIDE DEF step
  <2>2. QED
    BY <1>1, <1>2, <1>4, <1>5, <2>1, RootTyping DEF Follows
<1>7. PICK t : IsRun(t, Tree, Root, n, step) /\ t[n] = c[1..n]
  <2> HIDE DEF step
  <2> QED BY <1>6, FoldRuns
<1>8. ASSUME NEW i \in 1..n PROVE t[i] = AddFile(t[i - 1], list[i])
  <2>1. <<t[i - 1], i>> \in Tree \X (1..n)
    BY <1>1, <1>7 DEF IsRun
  <2>2. QED
    BY <1>1, <1>7, <2>1 DEF IsRun
<1>9. QED
  BY <1>1, <1>3, <1>7, <1>8 DEF IsRun, n

\* Directories and files, and the leaves under the files, of the first n.
Dirs(list, n) == {p \in Seq(Name) : p = <<>> \/ \E i \in 1..n : IsPrefix(p, list[i].path)}
Leaves(list, n) == {Leaf(list[i]) : i \in 1..n}
PathsUpto(file, k) == {Upto(file, j) : j \in 0..k}

IsTreeOf(t, list, n) ==
    /\ t \in Tree
    /\ DOMAIN t = Dirs(list, n) \cup Leaves(list, n)
    /\ \A p \in Dirs(list, n) : t[p] = Object
    /\ \A i \in 1..n : t[Leaf(list[i])] = list[i].length

\* The prefixes of a path are its first names,
LEMMA UptoIsPrefix ==
    ASSUME NEW file \in File, NEW p \in Seq(Name)
    PROVE  IsPrefix(p, file.path) <=> Len(p) <= Len(file.path) /\ p = Upto(file, Len(p))
<1>1. Len(p) \in Nat /\ Len(file.path) \in Nat /\ file.path \in Seq(Name)
  BY PathTyping
<1>2. ASSUME Len(p) <= Len(file.path)
      PROVE  p = Upto(file, Len(p)) <=> \A k \in 1..Len(p) : p[k] = file.path[k]
  BY <1>1, <1>2, UptoIs, SeqEqual
<1>3. QED
  BY <1>1, <1>2, PrefixIs

\* from none to all of them.
LEMMA UptoAll ==
    ASSUME NEW file \in File
    PROVE  Upto(file, Len(file.path)) = file.path /\ Upto(file, 0) = <<>>
  BY PathTyping, SubSeqFull, SubSeqEmpty DEF Upto

\* A file's paths are nobody else's leaves, and its leaf is new.
LEMMA PathsAreNew ==
    ASSUME NEW list \in FileList, NEW m \in Nat, m + 1 <= Len(list)
    PROVE  /\ \A j \in 0..Len(list[m + 1].path) : Upto(list[m + 1], j) \notin Leaves(list, m)
           /\ list[m + 1].path \notin Dirs(list, m)
           /\ Leaf(list[m + 1]) \notin Dirs(list, m) \cup Leaves(list, m)
           /\ Leaf(list[m + 1]) \notin PathsUpto(list[m + 1], Len(list[m + 1].path))
<1> DEFINE file == list[m + 1]
<1>1. file \in File /\ \A i \in 1..m : list[i] \in File
      /\ ~IsPrefix(list[i].path, file.path) /\ ~IsPrefix(file.path, list[i].path)
  BY ListTyping
<1>2. Len(file.path) \in Nat \ {0} /\ file.path \in Seq(Name) /\ file.path \in KeyPath
  BY <1>1, PathTyping
<1> HIDE DEF file
<1>3. ASSUME NEW i \in 1..m, NEW j \in 0..Len(file.path), Upto(file, j) = Leaf(list[i])
      PROVE  FALSE
  <2>1. list[i].path \in Seq(Name) /\ Len(list[i].path) \in Nat
    BY <1>1, PathTyping
  <2>2. j = Len(list[i].path) + 1
    <3>1. Len(Upto(file, j)) = j
      BY <1>1, UptoIs
    <3>2. Len(Leaf(list[i])) = Len(list[i].path) + 1
      BY <1>1, LeafIs
    <3>3. QED
      BY <1>3, <3>1, <3>2
  <2>3. \A k \in 1..Len(list[i].path) : list[i].path[k] = file.path[k]
    <3>1. ASSUME NEW k \in 1..Len(list[i].path) PROVE list[i].path[k] = file.path[k]
      <4>1. Leaf(list[i])[k] = list[i].path[k]
        BY <1>1, LeafIs
      <4>2. k \in 1..j
        BY <2>1, <2>2
      <4>3. Upto(file, j)[k] = file.path[k]
        BY <1>1, <4>2, UptoIs
      <4>4. QED
        BY <1>3, <4>1, <4>3
    <3>2. QED
      BY <3>1
  <2>4. IsPrefix(list[i].path, file.path)
    BY <1>2, <2>1, <2>2, <2>3, PrefixIs
  <2>5. QED
    BY <1>1, <2>4
<1>4. file.path \notin Dirs(list, m)
  <2>1. file.path # <<>>
    BY <1>2, EmptySeq
  <2>2. QED
    BY <1>1, <2>1 DEF Dirs
<1>5. Leaf(file) \in KeyPath /\ Len(Leaf(file)) = Len(file.path) + 1
      /\ \A k \in 1..Len(file.path) : Leaf(file)[k] = file.path[k]
  BY <1>1, LeafIs
<1>6. Leaf(file) \notin Dirs(list, m)
  <2>1. Leaf(file) # <<>>
    BY <1>2, <1>5, EmptySeq
  <2>2. ASSUME NEW i \in 1..m, Leaf(file) \in Seq(Name), IsPrefix(Leaf(file), list[i].path)
        PROVE  FALSE
    <3>1. list[i].path \in Seq(Name) /\ Len(list[i].path) \in Nat
      BY <1>1, PathTyping
    <3>2. Len(Leaf(file)) <= Len(list[i].path)
          /\ \A k \in 1..Len(Leaf(file)) : Leaf(file)[k] = list[i].path[k]
      BY <2>2, <3>1, PrefixIs
    <3>3. Len(file.path) <= Len(list[i].path)
          /\ \A k \in 1..Len(file.path) : file.path[k] = list[i].path[k]
      BY <1>2, <1>5, <3>1, <3>2
    <3>4. IsPrefix(file.path, list[i].path)
      BY <1>2, <3>1, <3>3, PrefixIs
    <3>5. QED
      BY <1>1, <3>4
  <2>3. QED
    BY <2>1, <2>2 DEF Dirs
<1>7. Leaf(file) \notin Leaves(list, m)
  <2>1. ASSUME NEW i \in 1..m, Leaf(file) = Leaf(list[i]) PROVE FALSE
    <3>1. list[i].path \in Seq(Name) /\ Len(list[i].path) \in Nat
      BY <1>1, PathTyping
    <3>2. Len(Leaf(list[i])) = Len(list[i].path) + 1
          /\ \A k \in 1..Len(list[i].path) : Leaf(list[i])[k] = list[i].path[k]
      BY <1>1, LeafIs
    <3>3. Len(list[i].path) = Len(file.path)
      BY <1>2, <1>5, <2>1, <3>1, <3>2
    <3>4. \A k \in 1..Len(file.path) : file.path[k] = list[i].path[k]
      BY <1>5, <2>1, <3>2, <3>3
    <3>5. IsPrefix(file.path, list[i].path)
      BY <1>2, <3>1, <3>3, <3>4, PrefixIs
    <3>6. QED
      BY <1>1, <3>5
  <2>2. QED
    BY <2>1 DEF Leaves
<1>8. Leaf(file) \notin PathsUpto(file, Len(file.path))
  <2>1. \A j \in 0..Len(file.path) : Len(Upto(file, j)) = j
    BY <1>1, UptoIs
  <2>2. QED
    BY <1>2, <1>5, <2>1 DEF PathsUpto
<1>9. QED
  BY <1>3, <1>4, <1>6, <1>7, <1>8 DEF Leaves, file

\* The tree after m files and k names of the next one.
IsPartOf(t, list, m, k) ==
    /\ t \in Tree
    /\ DOMAIN t = Dirs(list, m) \cup Leaves(list, m) \cup PathsUpto(list[m + 1], k)
                    \cup (IF k = Len(list[m + 1].path) THEN {Leaf(list[m + 1])} ELSE {})
    /\ \A p \in Dirs(list, m) \cup PathsUpto(list[m + 1], k) : t[p] = Object
    /\ \A i \in 1..m : t[Leaf(list[i])] = list[i].length
    /\ k = Len(list[m + 1].path) => t[Leaf(list[m + 1])] = list[m + 1].length

\* A step of buildTree adds the next name, and the leaf after the last, and
\* loses nothing, whether the directory is there or not.
LEMMA PartKeeps ==
    ASSUME NEW list \in FileList, NEW m \in Nat, m + 1 <= Len(list),
           NEW t, NEW i \in 1..Len(list[m + 1].path), IsPartOf(t, list, m, i - 1)
    PROVE  IsPartOf(Part(t, list[m + 1], i), list, m, i)
<1> DEFINE file == list[m + 1]
           n == Len(file.path)
           path == Upto(file, i)
           new == Part(t, file, i)
<1>1. file \in File /\ n \in Nat \ {0} /\ file.length \in Nat
  BY ListTyping, PathTyping
<1>2. path \in KeyPath /\ Leaf(file) \in KeyPath
  BY <1>1, UptoIs, LeafIs
<1>3. path \notin Leaves(list, m) /\ file.path \notin Dirs(list, m)
      /\ Leaf(file) \notin Dirs(list, m) \cup Leaves(list, m) \cup PathsUpto(file, n)
  BY PathsAreNew
<1>4. \A j \in 0..n : Len(Upto(file, j)) = j
  BY <1>1, UptoIs
<1>5. PathsUpto(file, i) = PathsUpto(file, i - 1) \cup {path} /\ path \notin PathsUpto(file, i - 1)
      /\ PathsUpto(file, i) \subseteq PathsUpto(file, n)
  BY <1>1, <1>4 DEF PathsUpto
<1>6. i = n => path = file.path /\ Append(path, "length") = Leaf(file)
  BY <1>1, UptoAll DEF Leaf
<1>7. /\ t \in Tree
      /\ DOMAIN t = Dirs(list, m) \cup Leaves(list, m) \cup PathsUpto(file, i - 1)
      /\ \A p \in Dirs(list, m) \cup PathsUpto(file, i - 1) : t[p] = Object
      /\ \A j \in 1..m : t[Leaf(list[j])] = list[j].length
  BY <1>1 DEF IsPartOf
<1>8. new = IF path \in DOMAIN t /\ t[path] # 0 THEN t
            ELSE IF i = n THEN Put(Put(t, path, Object), Leaf(file), file.length)
            ELSE Put(t, path, Object)
  <2>1. CASE i = n
    BY <1>6, <2>1 DEF Part, Upto
  <2>2. CASE i # n
    BY <2>2 DEF Part, Upto
  <2>3. QED
    BY <2>1, <2>2
<1> HIDE DEF file, n, path, new
<1>9. CASE path \in DOMAIN t
  <2>1. path \in Dirs(list, m)
    BY <1>3, <1>5, <1>7, <1>9
  <2>2. t[path] = Object /\ t[path] # 0 /\ i # n
    BY <1>3, <1>6, <1>7, <2>1 DEF Object
  <2>3. new = t
    BY <1>8, <1>9, <2>2
  <2>4. QED
    BY <1>5, <1>7, <2>1, <2>2, <2>3 DEF IsPartOf, file, n, new
<1>10. CASE path \notin DOMAIN t
  <2> DEFINE one == Put(t, path, Object)
  <2>1. /\ one \in Tree /\ DOMAIN one = DOMAIN t \cup {path} /\ one[path] = Object
        /\ \A q \in DOMAIN t : one[q] = t[q]
    <3>1. Object \in Int
      BY DEF Object
    <3>2. QED
      BY <1>2, <1>7, <1>10, <3>1, PutTyping DEF Put
  <2> HIDE DEF one
  <2>2. \A j \in 1..m : Leaf(list[j]) \in DOMAIN t
    BY <1>7 DEF Leaves
  <2>3. CASE i # n
    <3>1. new = one
      BY <1>8, <1>10, <2>3 DEF one
    <3>2. QED
      BY <1>5, <1>7, <2>1, <2>2, <2>3, <3>1 DEF IsPartOf, file, n, new
  <2>4. CASE i = n
    <3>1. new = Put(one, Leaf(file), file.length)
      BY <1>8, <1>10, <2>4 DEF one
    <3>2. Leaf(file) \notin DOMAIN one
      BY <1>3, <1>5, <1>7, <2>1, <2>4
    <3>3. /\ new \in Tree /\ DOMAIN new = DOMAIN one \cup {Leaf(file)}
          /\ new[Leaf(file)] = file.length
          /\ \A q \in DOMAIN one : new[q] = one[q]
      <4>1. new \in Tree
        <5>1. file.length \in Int
          BY <1>1
        <5>2. QED
          BY <1>2, <2>1, <3>1, <5>1, PutTyping
      <4>2. QED
        BY <3>1, <3>2, <4>1 DEF Put
    <3>4. \A p \in Dirs(list, m) \cup PathsUpto(file, i) : new[p] = Object
      BY <1>5, <1>7, <2>1, <3>3
    <3>5. \A j \in 1..m : new[Leaf(list[j])] = list[j].length
      BY <1>7, <2>1, <2>2, <3>3
    <3>6. DOMAIN new = Dirs(list, m) \cup Leaves(list, m) \cup PathsUpto(file, i) \cup {Leaf(file)}
      BY <1>5, <1>7, <2>1, <3>3
    <3>7. QED
      BY <2>4, <3>3, <3>4, <3>5, <3>6 DEF IsPartOf, file, n, new
  <2>5. QED
    BY <2>3, <2>4
<1>11. QED
  BY <1>9, <1>10

\* All the names of a path make the tree of one more file.
LEMMA AddFileKeeps ==
    ASSUME NEW list \in FileList, NEW m \in Nat, m + 1 <= Len(list),
           NEW tree, IsTreeOf(tree, list, m)
    PROVE  IsTreeOf(AddFile(tree, list[m + 1]), list, m + 1)
<1> DEFINE file == list[m + 1]
           n == Len(file.path)
<1>1. file \in File /\ n \in Nat \ {0} /\ \A i \in 1..(m + 1) : list[i] \in File
  BY ListTyping, PathTyping
<1>2. PICK t \in [0..n -> Tree] :
         /\ t[0] = tree
         /\ \A i \in 1..n : t[i] = Part(t[i - 1], file, i)
         /\ AddFile(tree, file) = t[n]
  BY <1>1, AddFileSteps DEF IsTreeOf
<1>3. 0..n \subseteq {i \in 0..n : IsPartOf(t[i], list, m, i)}
  <2> DEFINE Good == {i \in 0..n : IsPartOf(t[i], list, m, i)}
  <2>1. IsPartOf(t[0], list, m, 0)
    <3>1. PathsUpto(file, 0) = {<<>>}
      BY <1>1, UptoAll DEF PathsUpto
    <3>2. <<>> \in Dirs(list, m)
      BY EmptySeq DEF Dirs
    <3>3. QED
      BY <1>1, <1>2, <3>1, <3>2 DEF IsPartOf, IsTreeOf
  <2>2. ASSUME NEW i \in 1..n, i - 1 \in Good PROVE i \in Good
    <3>1. IsPartOf(Part(t[i - 1], file, i), list, m, i)
      BY <2>2, PartKeeps
    <3>2. QED
      BY <1>2, <3>1
  <2>3. 0 \in Good
    BY <1>1, <2>1
  <2> HIDE DEF Good, n
  <2>4. 0..n \subseteq Good
    BY <1>1, <2>2, <2>3, RangeInduction
  <2>5. QED
    BY <2>4 DEF Good
<1>4. IsPartOf(t[n], list, m, n)
  BY <1>1, <1>3
<1>5. Dirs(list, m + 1) = Dirs(list, m) \cup PathsUpto(file, n)
  <2>1. ASSUME NEW p \in Seq(Name) PROVE IsPrefix(p, file.path) <=> p \in PathsUpto(file, n)
    <3>1. Len(p) \in Nat
      OBVIOUS
    <3>2. \A j \in 0..n : Len(Upto(file, j)) = j
      BY <1>1, UptoIs
    <3>3. QED
      BY <1>1, <3>1, <3>2, UptoIsPrefix DEF PathsUpto
  <2>2. PathsUpto(file, n) \subseteq Seq(Name)
    BY <1>1, UptoIs DEF PathsUpto
  <2> HIDE DEF n
  <2>3. QED
    BY <2>1, <2>2 DEF Dirs
<1>6. Leaves(list, m + 1) = Leaves(list, m) \cup {Leaf(file)}
  BY DEF Leaves
<1>7. QED
  BY <1>2, <1>4, <1>5, <1>6 DEF IsPartOf, IsTreeOf

\* What buildTree builds, in whatever order the files are listed.
LEMMA BuildTreeIs ==
    ASSUME NEW list \in FileList
    PROVE  IsTreeOf(buildTree(list), list, Len(list))
<1> DEFINE n == Len(list)
<1>1. n \in Nat
  BY ListTyping
<1>2. PICK t \in [0..n -> Tree] :
         /\ t[0] = Root
         /\ \A i \in 1..n : t[i] = AddFile(t[i - 1], list[i])
         /\ buildTree(list) = t[n]
  BY BuildTreeSteps
<1> DEFINE Good == {i \in 0..n : IsTreeOf(t[i], list, i)}
<1>3. 0 \in Good
  <2>1. Dirs(list, 0) = {<<>>} /\ Leaves(list, 0) = {}
    BY EmptySeq DEF Dirs, Leaves
  <2>2. DOMAIN Root = {<<>>} /\ Root[<<>>] = Object
    BY DEF Root
  <2>3. QED
    BY <1>1, <1>2, <2>1, <2>2, RootTyping DEF IsTreeOf
<1>4. ASSUME NEW i \in 1..n, i - 1 \in Good PROVE i \in Good
  <2>1. /\ i - 1 \in Nat /\ (i - 1) + 1 <= Len(list) /\ (i - 1) + 1 = i
        /\ IsTreeOf(t[i - 1], list, i - 1)
    BY <1>1, <1>4
  <2>2. IsTreeOf(AddFile(t[i - 1], list[(i - 1) + 1]), list, (i - 1) + 1)
    BY <2>1, AddFileKeeps
  <2>3. QED
    BY <1>2, <2>1, <2>2
<1>5. 0..n \subseteq Good
  <2> HIDE DEF Good
  <2> QED BY <1>1, <1>3, <1>4, RangeInduction
<1>6. QED
  BY <1>1, <1>2, <1>5

-----------------------------------------------------------------------------
(* readdir and getattr *)

\* A sequence without its last element.
LEMMA FrontLast ==
    ASSUME NEW S, NEW s \in Seq(S), s # <<>>
    PROVE  /\ Front(s) \in Seq(S) /\ Len(Front(s)) = Len(s) - 1
           /\ \A k \in 1..(Len(s) - 1) : Front(s)[k] = s[k]
           /\ Last(s) = s[Len(s)] /\ Last(s) \in S
<1>1. Len(s) \in Nat \ {0}
  BY EmptySeq
<1>2. \A k \in 1..(Len(s) - 1) : s[k] \in S
  BY <1>1, ElementOfSeq
<1>3. s[Len(s)] \in S
  BY <1>1, ElementOfSeq
<1>4. Front(s) \in Seq(S) /\ Len(Front(s)) = Len(s) - 1
      /\ \A k \in 1..(Len(s) - 1) : Front(s)[k] = s[k]
  <2> DEFINE m == Len(s) - 1
  <2>1. m \in Nat /\ 1 \in Int /\ m \in Int /\ \A k \in 1..m : s[k] \in S
    BY <1>1, <1>2
  <2>2. Front(s) = SubSeq(s, 1, m)
    BY DEF Front
  <2> HIDE DEF m
  <2>3. /\ SubSeq(s, 1, m) \in Seq(S)
        /\ Len(SubSeq(s, 1, m)) = IF 1 <= m THEN m - 1 + 1 ELSE 0
        /\ \A k \in 1..(m - 1 + 1) : SubSeq(s, 1, m)[k] = s[1 + k - 1]
    BY <2>1, SubSeqProperties
  <2>4. Len(Front(s)) = m /\ \A k \in 1..m : Front(s)[k] = s[k]
    BY <2>1, <2>2, <2>3
  <2>5. QED
    BY <2>2, <2>3, <2>4 DEF m
<1>5. QED
  BY <1>3, <1>4 DEF Last

\* A path of a torrent, and what is left of it in the torrent.
LEMMA PathParts ==
    ASSUME NEW h \in InfoHash, NEW p \in Seq(Name)
    PROVE  /\ <<h>> \o p # <<>> /\ <<h>> \o p # <<"healthcheck">>
           /\ Head(<<h>> \o p) = h /\ Tail(<<h>> \o p) = p
<1> DEFINE S == Name \cup {h}
           s == <<h>> \o p
<1>1. <<h>> \in Seq(S) /\ p \in Seq(S) /\ Len(<<h>>) = 1 /\ <<h>>[1] = h
  <2>1. p \in Seq(S)
    BY SeqMonotonic
  <2>2. QED
    BY <2>1
<1>2. Len(p) \in Nat
  OBVIOUS
<1>3. s \in Seq(S) /\ Len(s) = Len(p) + 1
      /\ \A i \in 1..(Len(p) + 1) : s[i] = IF i <= 1 THEN h ELSE p[i - 1]
  <2>1. /\ s \in Seq(S)
        /\ Len(s) = Len(<<h>>) + Len(p)
        /\ \A i \in 1..(Len(<<h>>) + Len(p)) :
              s[i] = IF i <= Len(<<h>>) THEN <<h>>[i] ELSE p[i - Len(<<h>>)]
    BY <1>1, ConcatProperties
  <2> HIDE DEF s
  <2>2. QED
    BY <1>1, <1>2, <2>1
<1> HIDE DEF s
<1>4. s # <<>>
  BY <1>2, <1>3, EmptySeq
<1>5. Head(s) = h
  BY <1>2, <1>3, <1>4
<1>6. Tail(s) = p
  <2>1. /\ Tail(s) \in Seq(S)
        /\ Len(Tail(s)) = Len(s) - 1
        /\ \A i \in 1..Len(Tail(s)) : Tail(s)[i] = s[i + 1]
    BY <1>3, <1>4, HeadTailProperties
  <2>2. Len(Tail(s)) = Len(p)
    BY <1>2, <1>3, <2>1
  <2>3. \A i \in 1..Len(p) : Tail(s)[i] = p[i]
    BY <1>2, <1>3, <2>1, <2>2
  <2>4. QED
    BY <1>1, <2>1, <2>2, <2>3, SeqEqual
<1>7. s # <<"healthcheck">>
  <2>1. h # "healthcheck"
    BY NameAssumption
  <2>2. Head(<<"healthcheck">>) = "healthcheck"
    OBVIOUS
  <2>3. QED
    BY <1>5, <2>1, <2>2
<1>8. QED
  BY <1>4, <1>5, <1>6, <1>7 DEF s

\* What dir has to be, for a file to be below it.
LEMMA StrictPrefixIs ==
    ASSUME NEW file \in File, NEW dir \in Seq(Name)
    PROVE  IsStrictPrefix(dir, file.path) <=>
              IsPrefix(dir, file.path) /\ Len(dir) < Len(file.path)
<1>1. file.path \in Seq(Name) /\ Len(file.path) \in Nat /\ Len(dir) \in Nat
  BY PathTyping
<1>2. IsPrefix(dir, file.path) <=>
         Len(dir) <= Len(file.path) /\ \A k \in 1..Len(dir) : dir[k] = file.path[k]
  BY <1>1, PrefixIs
<1>3. IsPrefix(dir, file.path) /\ Len(dir) = Len(file.path) => dir = file.path
  BY <1>1, <1>2, SeqEqual
<1>4. QED
  BY <1>1, <1>2, <1>3 DEF IsStrictPrefix

\* The directory a key of the tree is listed in.
LEMMA KeysAreChildren ==
    ASSUME NEW list \in FileList, NEW dir \in Seq(Name), ~IsFile(list, dir)
    PROVE  Keys(buildTree(list), dir) = Children(list, dir)
<1> DEFINE n == Len(list)
           tree == buildTree(list)
<1>1. n \in Nat /\ DOMAIN list = 1..n /\ \A i \in 1..n : list[i] \in File
  BY ListTyping
<1>2. DOMAIN tree = Dirs(list, n) \cup Leaves(list, n)
  BY BuildTreeIs DEF IsTreeOf
<1> HIDE DEF n, tree
<1>3. Len(dir) \in Nat
  OBVIOUS
<1>4. ASSUME NEW p \in DOMAIN tree, p # <<>>, Front(p) = dir
      PROVE  Last(p) \in Children(list, dir)
  <2>1. CASE p \in Dirs(list, n)
    <3>1. PICK i \in 1..n : IsPrefix(p, list[i].path)
      BY <1>4, <2>1 DEF Dirs
    <3>2. p \in Seq(Name)
      BY <2>1 DEF Dirs
    <3>3. /\ Len(dir) = Len(p) - 1 /\ Last(p) = p[Len(p)]
          /\ \A k \in 1..(Len(p) - 1) : dir[k] = p[k]
      BY <1>4, <3>2, FrontLast
    <3>4. list[i].path \in Seq(Name) /\ Len(list[i].path) \in Nat /\ Len(p) \in Nat
      BY <1>1, <3>2, PathTyping
    <3>5. Len(p) <= Len(list[i].path) /\ \A k \in 1..Len(p) : p[k] = list[i].path[k]
      BY <3>1, <3>2, <3>4, PrefixIs
    <3>6. Len(dir) < Len(list[i].path) /\ \A k \in 1..Len(dir) : dir[k] = list[i].path[k]
      BY <1>3, <3>3, <3>4, <3>5
    <3>7. IsStrictPrefix(dir, list[i].path)
      <4>1. IsPrefix(dir, list[i].path)
        BY <1>3, <3>4, <3>6, PrefixIs
      <4>2. QED
        BY <1>1, <3>6, <4>1, StrictPrefixIs
    <3>8. Last(p) = list[i].path[Len(dir) + 1]
      BY <1>3, <3>3, <3>4, <3>5
    <3>9. QED
      BY <1>1, <3>7, <3>8 DEF Children
  <2>2. CASE p \in Leaves(list, n)
    <3>1. PICK i \in 1..n : p = Leaf(list[i])
      BY <2>2 DEF Leaves
    <3>2. /\ list[i].path \in KeyPath /\ Len(list[i].path) \in Nat
          /\ p \in KeyPath /\ Len(p) = Len(list[i].path) + 1
          /\ \A k \in 1..Len(list[i].path) : p[k] = list[i].path[k]
      BY <1>1, <3>1, PathTyping, LeafIs
    <3>3. Front(p) \in KeyPath /\ Len(Front(p)) = Len(p) - 1
          /\ \A k \in 1..(Len(p) - 1) : Front(p)[k] = p[k]
      BY <1>4, <3>2, FrontLast DEF KeyPath
    <3>4. Len(Front(p)) = Len(list[i].path)
          /\ \A k \in 1..Len(Front(p)) : Front(p)[k] = list[i].path[k]
      BY <3>2, <3>3
    <3>5. Front(p) = list[i].path
      BY <3>2, <3>3, <3>4, SeqEqual DEF KeyPath
    <3>6. QED
      BY <1>1, <1>4, <3>5 DEF IsFile
  <2>3. QED
    BY <1>2, <2>1, <2>2
<1>5. ASSUME NEW i \in 1..n, IsStrictPrefix(dir, list[i].path)
      PROVE  \E p \in DOMAIN tree \ {<<>>} :
                Front(p) = dir /\ Last(p) = list[i].path[Len(dir) + 1]
  <2> DEFINE p == Upto(list[i], Len(dir) + 1)
  <2>1. /\ list[i] \in File /\ list[i].path \in Seq(Name) /\ Len(list[i].path) \in Nat
        /\ IsPrefix(dir, list[i].path) /\ Len(dir) < Len(list[i].path)
    BY <1>1, <1>5, PathTyping, StrictPrefixIs
  <2>2. \A k \in 1..Len(dir) : dir[k] = list[i].path[k]
    BY <2>1, PrefixIs
  <2>3. Len(dir) + 1 \in 0..Len(list[i].path)
    BY <1>3, <2>1
  <2>4. p \in Seq(Name) /\ Len(p) = Len(dir) + 1
        /\ \A k \in 1..(Len(dir) + 1) : p[k] = list[i].path[k]
    BY <2>1, <2>3, UptoIs
  <2> HIDE DEF p
  <2>5. p # <<>>
    BY <1>3, <2>4, EmptySeq
  <2>6. Len(p) <= Len(list[i].path) /\ \A k \in 1..Len(p) : p[k] = list[i].path[k]
    BY <1>3, <2>1, <2>4
  <2>7. p \in DOMAIN tree
    BY <1>2, <2>1, <2>4, <2>6, PrefixIs DEF Dirs
  <2>8. /\ Front(p) \in Seq(Name) /\ Len(Front(p)) = Len(p) - 1
        /\ \A k \in 1..(Len(p) - 1) : Front(p)[k] = p[k]
        /\ Last(p) = p[Len(p)]
    BY <2>4, <2>5, FrontLast
  <2>9. Len(Front(p)) = Len(dir) /\ \A k \in 1..Len(Front(p)) : Front(p)[k] = dir[k]
    BY <1>3, <2>2, <2>4, <2>8
  <2>10. Front(p) = dir
    BY <2>8, <2>9, SeqEqual
  <2>11. Last(p) = list[i].path[Len(dir) + 1]
    BY <1>3, <2>4, <2>8
  <2>12. QED
    BY <2>5, <2>7, <2>10, <2>11
<1>6. ASSUME NEW x PROVE x \in Keys(tree, dir) <=> x \in Children(list, dir)
  <2>1. x \in Keys(tree, dir) => x \in Children(list, dir)
    BY <1>4 DEF Keys
  <2>2. x \in Children(list, dir) => x \in Keys(tree, dir)
    BY <1>1, <1>5 DEF Keys, Children
  <2>3. QED
    BY <2>1, <2>2
<1>7. QED
  BY <1>6 DEF tree

\* A file has nothing below it.
LEMMA FilesHaveNoChildren ==
    ASSUME NEW list \in FileList, NEW p, IsFile(list, p)
    PROVE  p \in Seq(Name) /\ p # <<>> /\ Children(list, p) = {}
<1>1. /\ DOMAIN list = 1..Len(list) /\ \A i \in 1..Len(list) : list[i] \in File
      /\ \A i, j \in 1..Len(list) : i # j => ~IsPrefix(list[i].path, list[j].path)
  BY ListTyping
<1>2. PICK f \in 1..Len(list) : list[f].path = p
  BY <1>1 DEF IsFile
<1>3. p \in Seq(Name) /\ p # <<>>
  <2>1. list[f].path \in Seq(Name) /\ Len(list[f].path) \in Nat \ {0}
    BY <1>1, PathTyping
  <2>2. QED
    BY <1>2, <2>1, EmptySeq
<1>4. \A j \in 1..Len(list) : ~IsStrictPrefix(p, list[j].path)
  BY <1>1, <1>2 DEF IsStrictPrefix
<1>5. QED
  BY <1>1, <1>3, <1>4 DEF Children

\* What getDirFromFileTree finds of a path that is no file.
LEMMA FoundIs ==
    ASSUME NEW list \in FileList, NEW dir \in Seq(Name), ~IsFile(list, dir)
    PROVE  /\ dir = <<>> \/ Children(list, dir) # {} => FoundInTree(buildTree(list), dir)
           /\ FoundInTree(buildTree(list), dir) =>
                 \/ dir = <<>> \/ Children(list, dir) # {}
                 \/ IsFile(list, Front(dir))
<1> DEFINE n == Len(list)
           tree == buildTree(list)
<1>1. n \in Nat /\ DOMAIN list = 1..n /\ \A i \in 1..n : list[i] \in File
  BY ListTyping
<1>2. DOMAIN tree = Dirs(list, n) \cup Leaves(list, n) /\ \A p \in Dirs(list, n) : tree[p] = Object
  BY BuildTreeIs DEF IsTreeOf
<1> HIDE DEF n, tree
<1>3. ASSUME dir \in Dirs(list, n), dir # <<>> PROVE Children(list, dir) # {}
  <2>1. PICK i \in 1..n : IsPrefix(dir, list[i].path)
    BY <1>3 DEF Dirs
  <2>2. IsStrictPrefix(dir, list[i].path)
    BY <1>1, <2>1 DEF IsStrictPrefix, IsFile
  <2>3. QED
    BY <1>1, <2>2 DEF Children
<1>4. ASSUME Children(list, dir) # {} PROVE dir \in Dirs(list, n)
  BY <1>1, <1>4 DEF Children, Dirs, IsStrictPrefix
<1>5. <<>> \in Dirs(list, n)
  BY EmptySeq DEF Dirs
<1>6. dir \in Dirs(list, n) => FoundInTree(tree, dir)
  BY <1>2 DEF FoundInTree, Object
<1>7. ASSUME dir \in Leaves(list, n) PROVE IsFile(list, Front(dir))
  <2>1. PICK i \in 1..n : dir = Leaf(list[i])
    BY <1>7 DEF Leaves
  <2>2. /\ list[i].path \in Seq(Name) /\ Len(list[i].path) \in Nat
        /\ Len(dir) = Len(list[i].path) + 1
        /\ \A k \in 1..Len(list[i].path) : dir[k] = list[i].path[k]
    BY <1>1, <2>1, PathTyping, LeafIs
  <2>3. dir # <<>>
    BY <2>2, EmptySeq
  <2>4. /\ Front(dir) \in Seq(Name) /\ Len(Front(dir)) = Len(dir) - 1
        /\ \A k \in 1..(Len(dir) - 1) : Front(dir)[k] = dir[k]
    BY <2>3, FrontLast
  <2>5. Len(Front(dir)) = Len(list[i].path)
        /\ \A k \in 1..Len(Front(dir)) : Front(dir)[k] = list[i].path[k]
    BY <2>2, <2>4
  <2>6. Front(dir) = list[i].path
    BY <2>2, <2>4, <2>5, SeqEqual
  <2>7. QED
    BY <1>1, <2>6 DEF IsFile
<1>8. FoundInTree(tree, dir) => dir \in Dirs(list, n) \cup Leaves(list, n)
  BY <1>2 DEF FoundInTree
<1>9. QED
  BY <1>3, <1>4, <1>5, <1>6, <1>7, <1>8 DEF tree

\* The paths of a torrent's files and directories.
LEMMA PathsOf ==
    ASSUME NEW h \in InfoHash, NEW path \in PathsIn(h)
    PROVE  /\ Tail(path) \in Seq(Name) /\ Head(path) = h
           /\ path # <<>> /\ path # <<"healthcheck">>
           /\ path = <<h>> \o Tail(path)
<1>1. PICK p \in SeqOf(Name, MaxDepth) : path = <<h>> \o p
  BY DEF PathsIn
<1>2. p \in Seq(Name)
  BY BoundedSeqs, ReadAssumption
<1>3. QED
  BY <1>1, <1>2, PathParts

FilesOK == files \in [InfoHash -> FileList]

\* The file that getattr and read find at a path.
FileAt(list, p) == CHOOSE j \in {k \in DOMAIN list : list[k].path = p} : TRUE

\* readdir of a directory of a torrent that has a row, or of what does not
\* exist: the names in it.
LEMMA ReaddirIs ==
    ASSUME FilesOK, NEW h \in InfoHash, state[h] # "none",
           NEW path, Head(path) = h, Tail(path) \in Seq(Name),
           path # <<>>, path # <<"healthcheck">>,
           ~IsFile(files[h], Tail(path))
    PROVE  readdir(path) = Names(Children(files[h], Tail(path)))
<1> DEFINE list == files[h]
           dir == Tail(path)
<1>1. list \in FileList
  BY DEF FilesOK
<1>2. readdir(path) =
         Names(IF FoundInTree(buildTree(list), dir) THEN Keys(buildTree(list), dir) ELSE {})
  BY DEF readdir
<1>3. Keys(buildTree(list), dir) = Children(list, dir)
  BY <1>1, KeysAreChildren
<1>4. ~FoundInTree(buildTree(list), dir) => Children(list, dir) = {}
  BY <1>1, FoundIs
<1>5. QED
  BY <1>2, <1>3, <1>4

\* getattr of a path of a visible torrent: of a file, of a directory, and of
\* neither.
LEMMA GetattrIs ==
    ASSUME FilesOK, NEW h \in VisibleHashes,
           NEW path, Head(path) = h, Tail(path) \in Seq(Name),
           path # <<>>, path # <<"healthcheck">>
    PROVE  /\ IsFile(files[h], Tail(path)) =>
                \E i \in DOMAIN files[h] :
                   /\ files[h][i].path = Tail(path)
                   /\ i = FileAt(files[h], Tail(path))
                   /\ getattr(path) = Stat("file", files[h][i].length)
           /\ /\ ~IsFile(files[h], Tail(path))
              /\ Children(files[h], Tail(path)) # {} \/ Tail(path) = <<>>
              => getattr(path) = Stat("dir", Cardinality(Children(files[h], Tail(path))))
           /\ /\ ~IsFile(files[h], Tail(path))
              /\ Children(files[h], Tail(path)) = {} /\ Tail(path) # <<>>
              => IsFile(files[h], Front(Tail(path))) \/ getattr(path) = NoStat
<1> DEFINE list == files[Head(path)]
           dir == Tail(path)
           found == {i \in DOMAIN list : list[i].path = dir}
<1>1. list \in FileList /\ h \in InfoHash
  BY DEF FilesOK, VisibleHashes
<1>2. getattr(path) =
         IF found # {} THEN Stat("file", list[FileAt(list, dir)].length)
         ELSE IF FoundInTree(buildTree(list), dir)
              THEN Stat("dir", Cardinality(Keys(buildTree(list), dir)))
              ELSE NoStat
  <2>1. path # <<>> /\ path # <<"healthcheck">> /\ ~(Head(path) \notin VisibleHashes)
    OBVIOUS
  <2>2. QED
    BY <2>1, Zenon DEF getattr, FileAt
<1>3. found # {} <=> IsFile(list, dir)
  BY DEF IsFile
<1>4. ~IsFile(list, dir) =>
         /\ Keys(buildTree(list), dir) = Children(list, dir)
         /\ dir = <<>> \/ Children(list, dir) # {} => FoundInTree(buildTree(list), dir)
         /\ FoundInTree(buildTree(list), dir) =>
               \/ dir = <<>> \/ Children(list, dir) # {}
               \/ IsFile(list, Front(dir))
  <2>1. dir \in Seq(Name)
    OBVIOUS
  <2> HIDE DEF list, dir
  <2>2. QED
    BY <1>1, <2>1, KeysAreChildren, FoundIs
<1>5. ASSUME IsFile(list, dir)
      PROVE  \E i \in DOMAIN list :
                /\ list[i].path = dir
                /\ i = FileAt(list, dir)
                /\ getattr(path) = Stat("file", list[i].length)
  <2> DEFINE i == FileAt(list, dir)
  <2>1. i \in found
    BY <1>3, <1>5 DEF FileAt
  <2>2. getattr(path) = Stat("file", list[i].length)
    BY <1>2, <1>3, <1>5
  <2> HIDE DEF i
  <2>3. i \in DOMAIN list /\ list[i].path = dir
    BY <2>1
  <2>4. QED
    BY <2>2, <2>3 DEF i
<1>6. files[h] = list
  OBVIOUS
<1> HIDE DEF list
<1>7. QED
  BY <1>6, <1>2, <1>3, <1>4, <1>5

\* Listings are exact in every state, the row of a torrent being visible.
LEMMA ExactListings == ASSUME FilesOK PROVE ListingsAreExact
<1> SUFFICES ASSUME NEW h \in VisibleHashes, NEW path \in PathsIn(h),
                    ~IsFile(files[h], Tail(path))
             PROVE  readdir(path).names = Children(files[h], Tail(path))
  BY DEF ListingsAreExact
<1>1. h \in InfoHash /\ state[h] # "none"
  BY DEF VisibleHashes
<1>2. readdir(path) = Names(Children(files[h], Tail(path)))
  BY <1>1, PathsOf, ReaddirIs
<1>3. QED
  BY <1>2 DEF Names

\* So are attributes.
LEMMA ExactAttributes == ASSUME FilesOK PROVE AttributesAreExact
<1> SUFFICES ASSUME NEW h \in VisibleHashes, NEW path \in PathsIn(h)
             PROVE  LET names == Children(files[h], Tail(path)) IN
                    CASE IsFile(files[h], Tail(path)) ->
                            \E i \in DOMAIN files[h] :
                                /\ files[h][i].path = Tail(path)
                                /\ getattr(path) = Stat("file", files[h][i].length)
                      [] names # {} \/ Tail(path) = <<>> ->
                            getattr(path) = Stat("dir", Cardinality(names))
                      [] OTHER ->
                            IsFile(files[h], Front(Tail(path))) \/ getattr(path) = NoStat
  BY DEF AttributesAreExact
<1> DEFINE list == files[h]
           dir == Tail(path)
           names == Children(list, dir)
           file == \E i \in DOMAIN list :
                      /\ list[i].path = dir
                      /\ getattr(path) = Stat("file", list[i].length)
<1>1. h \in InfoHash /\ list \in FileList
  BY DEF VisibleHashes, FilesOK
<1>2. IsFile(list, dir) => names = {} /\ dir # <<>>
  BY <1>1, FilesHaveNoChildren
<1>3. /\ IsFile(list, dir) => file
      /\ ~IsFile(list, dir) /\ (names # {} \/ dir = <<>>) =>
            getattr(path) = Stat("dir", Cardinality(names))
      /\ ~IsFile(list, dir) /\ ~(names # {} \/ dir = <<>>) =>
            IsFile(list, Front(dir)) \/ getattr(path) = NoStat
  BY <1>1, PathsOf, GetattrIs
<1> HIDE DEF file, names, list, dir
<1>4. CASE IsFile(list, dir)
  BY <1>2, <1>3, <1>4 DEF names, file, list, dir
<1>5. CASE ~IsFile(list, dir)
  BY <1>3, <1>5 DEF names, list, dir
<1>6. QED
  BY <1>4, <1>5

-----------------------------------------------------------------------------
(* The walk *)

\* What the last listing was of: the mount point, nothing, or a directory of a
\* torrent, whose files do not change.
ListingOK ==
    \/ listing.path = <<>> /\ listing.names \subseteq InfoHash \cup {"healthcheck"}
    \/ listing.names = {}
    \/ \E h \in InfoHash : \E path \in PathsIn(h) :
          /\ listing.path = path
          /\ listing.names = Children(files[h], Tail(path))

Inv == TypeOK /\ ListingOK

\* A name in a directory is a name, and a file or a directory itself.
LEMMA ChildIs ==
    ASSUME NEW list \in FileList, NEW dir \in Seq(Name), NEW x \in Children(list, dir)
    PROVE  /\ x \in Name /\ Append(dir, x) \in Seq(Name)
           /\ IsFile(list, Append(dir, x)) \/ Children(list, Append(dir, x)) # {}
<1> DEFINE n == Len(list)
           p == Append(dir, x)
<1>1. n \in Nat /\ DOMAIN list = 1..n /\ \A i \in 1..n : list[i] \in File
  BY ListTyping
<1> HIDE DEF n
<1>2. PICK i \in 1..n : x = list[i].path[Len(dir) + 1] /\ IsStrictPrefix(dir, list[i].path)
  BY <1>1 DEF Children
<1>3. /\ list[i] \in File /\ list[i].path \in Seq(Name) /\ Len(list[i].path) \in Nat
      /\ Len(dir) \in Nat /\ IsPrefix(dir, list[i].path) /\ Len(dir) < Len(list[i].path)
  BY <1>1, <1>2, PathTyping, StrictPrefixIs
<1>4. \A k \in 1..Len(dir) : dir[k] = list[i].path[k]
  BY <1>3, PrefixIs
<1>5. Len(dir) + 1 \in 1..Len(list[i].path)
  BY <1>3
<1>6. x \in Name
  BY <1>2, <1>3, <1>5, ElementOfSeq
<1>7. /\ p \in Seq(Name) /\ Len(p) = Len(dir) + 1
      /\ \A k \in 1..Len(dir) : p[k] = dir[k]
      /\ p[Len(dir) + 1] = x
  BY <1>6, AppendProperties
<1> HIDE DEF p
<1>8. Len(p) <= Len(list[i].path) /\ \A k \in 1..Len(p) : p[k] = list[i].path[k]
  BY <1>2, <1>3, <1>4, <1>7
<1>9. IsPrefix(p, list[i].path)
  BY <1>3, <1>7, <1>8, PrefixIs
<1>10. ~IsFile(list, p) => IsStrictPrefix(p, list[i].path)
  BY <1>1, <1>9 DEF IsStrictPrefix, IsFile
<1>11. IsStrictPrefix(p, list[i].path) => Children(list, p) # {}
  BY <1>1 DEF Children
<1>12. QED
  BY <1>6, <1>7, <1>10, <1>11 DEF p

\* Whatever was listed is found, where the torrent is still visible.
LEMMA ListedKnown == ASSUME Inv PROVE ListedIsKnown
<1>0. FilesOK
  BY DEF Inv, TypeOK, FilesOK
<1> SUFFICES ASSUME NEW n \in listing.names,
                    LET path == Append(listing.path, n) IN
                    path = <<"healthcheck">> \/ Head(path) \in VisibleHashes
             PROVE  getattr(Append(listing.path, n)).error = "none"
  BY DEF ListedIsKnown
<1> DEFINE path == Append(listing.path, n)
<1>1. \A mode, size : Stat(mode, size).error = "none"
  BY DEF Stat
<1>2. path = <<"healthcheck">> => getattr(path).error = "none"
  BY <1>1 DEF getattr
<1>3. ASSUME NEW h \in VisibleHashes, Head(path) = h, Tail(path) \in Seq(Name),
             path # <<>>, path # <<"healthcheck">>,
             \/ Tail(path) = <<>> \/ IsFile(files[h], Tail(path))
             \/ Children(files[h], Tail(path)) # {}
      PROVE  getattr(path).error = "none"
  <2> HIDE DEF path
  <2>1. CASE IsFile(files[h], Tail(path))
    <3>1. \E i \in DOMAIN files[h] : getattr(path) = Stat("file", files[h][i].length)
      BY <1>0, <1>3, <2>1, GetattrIs
    <3>2. QED
      BY <1>1, <3>1
  <2>2. CASE ~IsFile(files[h], Tail(path))
    <3>1. getattr(path) = Stat("dir", Cardinality(Children(files[h], Tail(path))))
      BY <1>0, <1>3, <2>2, GetattrIs
    <3>2. QED
      BY <1>1, <3>1
  <2>3. QED
    BY <2>1, <2>2
<1>4. CASE listing.path = <<>> /\ listing.names \subseteq InfoHash \cup {"healthcheck"}
  <2>1. path = <<n>>
    BY <1>4
  <2>2. CASE n = "healthcheck"
    BY <1>2, <2>1, <2>2
  <2>3. CASE n \in InfoHash
    <3>1. path # <<"healthcheck">> /\ path # <<>> /\ Head(path) = n /\ Tail(path) = <<>>
      BY <2>1, <2>3, NameAssumption
    <3>2. n \in VisibleHashes /\ Tail(path) \in Seq(Name)
      BY <3>1, EmptySeq
    <3>3. QED
      BY <1>3, <3>1, <3>2
  <2>4. QED
    BY <1>4, <2>2, <2>3
<1>5. CASE \E h \in InfoHash : \E q \in PathsIn(h) :
              listing.path = q /\ listing.names = Children(files[h], Tail(q))
  <2>0. PICK h \in InfoHash : \E q \in PathsIn(h) :
               listing.path = q /\ listing.names = Children(files[h], Tail(q))
    BY <1>5
  <2>1. PICK q \in PathsIn(h) :
               listing.path = q /\ listing.names = Children(files[h], Tail(q))
    BY <2>0
  <2>2. /\ Tail(q) \in Seq(Name) /\ Head(q) = h /\ q # <<>>
        /\ q = <<h>> \o Tail(q)
    BY PathsOf
  <2>3. files[h] \in FileList
    BY <1>0 DEF FilesOK
  <2> DEFINE dir == Append(Tail(q), n)
  <2>4. /\ n \in Name /\ dir \in Seq(Name)
        /\ IsFile(files[h], dir) \/ Children(files[h], dir) # {}
    BY <2>1, <2>2, <2>3, ChildIs
  <2>5. Head(path) = h /\ Tail(path) = dir /\ path # <<>> /\ path # <<"healthcheck">>
    <3>1. <<h>> \o Tail(q) \in Seq({h} \cup Name)
      <4>1. <<h>> \in Seq({h} \cup Name) /\ Tail(q) \in Seq({h} \cup Name)
        BY <2>2, SeqMonotonic
      <4>2. QED
        BY <4>1, ConcatProperties
    <3>2. q \in Seq({h} \cup Name)
      BY <2>2, <3>1
    <3>3. Head(Append(q, n)) = h /\ Tail(Append(q, n)) = Append(Tail(q), n)
      BY <2>2, <3>2, HeadTailAppend
    <3>4. Append(q, n) # <<>>
      BY <2>4, <3>2, AppendProperties
    <3>5. h # "healthcheck"
      BY NameAssumption
    <3>6. Append(q, n) # <<"healthcheck">>
      <4>1. Head(<<"healthcheck">>) = "healthcheck"
        OBVIOUS
      <4>2. QED
        BY <3>3, <3>5, <4>1
    <3>7. QED
      BY <2>1, <3>3, <3>4, <3>6
  <2> HIDE DEF dir, path
  <2>6. h \in VisibleHashes
    BY <2>5 DEF path
  <2>7. QED
    BY <1>3, <2>4, <2>5, <2>6 DEF path
<1>6. CASE listing.names = {}
  BY <1>6
<1>7. QED
  BY <1>4, <1>5, <1>6 DEF Inv, ListingOK

\* What readdir answers where a client may list.
LEMMA ReadDirGives ==
    ASSUME Inv, NEW path,
           \/ path = <<>> \/ path = <<"healthcheck">>
           \/ \E h \in InfoHash : path \in PathsIn(h),
           ReadDir(path)
    PROVE  Inv'
<1>1. /\ listing' = [path |-> path, names |-> readdir(path).names]
      /\ files' = files /\ state' = state
  BY DEF ReadDir
<1>2. listing'.path = path /\ listing'.names = readdir(path).names
  BY <1>1
<1>3. FilesOK /\ state \in [InfoHash -> {"none", "hidden", "visible"}]
  BY DEF Inv, TypeOK, FilesOK
<1>4. CASE path = <<>>
  <2>1. readdir(path).names \subseteq InfoHash \cup {"healthcheck"}
    BY <1>4 DEF readdir, Names, VisibleHashes
  <2>2. QED
    BY <1>1, <1>2, <1>3, <1>4, <2>1 DEF Inv, TypeOK, FilesOK, ListingOK
<1>5. CASE path = <<"healthcheck">>
  <2>1. readdir(path).names = {}
    BY <1>5 DEF readdir, Names
  <2>2. QED
    BY <1>1, <1>2, <1>3, <2>1 DEF Inv, TypeOK, FilesOK, ListingOK
<1>6. ASSUME NEW h \in InfoHash, path \in PathsIn(h) PROVE Inv'
  <2>1. /\ Tail(path) \in Seq(Name) /\ Head(path) = h
        /\ path # <<>> /\ path # <<"healthcheck">>
    BY <1>6, PathsOf
  <2>2. h \in VisibleHashes
    <3>1. h \notin VisibleHashes => getattr(path) = NoStat
      BY <2>1 DEF getattr
    <3>2. NoStat.mode # "dir"
      BY DEF NoStat
    <3>3. QED
      BY <3>1, <3>2 DEF ReadDir
  <2>3. ~IsFile(files[h], Tail(path))
    <3>1. \A size : Stat("file", size).mode # "dir"
      BY DEF Stat
    <3>2. IsFile(files[h], Tail(path)) => \E size : getattr(path) = Stat("file", size)
      BY <1>3, <2>1, <2>2, GetattrIs
    <3>3. QED
      BY <3>1, <3>2 DEF ReadDir
  <2>4. state[h] # "none"
    BY <2>2 DEF VisibleHashes
  <2>5. readdir(path) = Names(Children(files[h], Tail(path)))
    BY <1>3, <2>1, <2>3, <2>4, ReaddirIs
  <2>6. readdir(path).names = Children(files[h], Tail(path))
    BY <2>5 DEF Names
  <2>7. Children(files[h], Tail(path)) \subseteq Name
    <3>1. files[h] \in FileList
      BY <1>3 DEF FilesOK
    <3>2. QED
      BY <2>1, <3>1, ChildIs
  <2>8. TypeOK'
    BY <1>1, <1>2, <1>3, <2>6, <2>7 DEF TypeOK, FilesOK
  <2>9. listing'.path = path /\ listing'.names = Children(files'[h], Tail(path))
    BY <1>1, <1>2, <2>6
  <2>10. ListingOK'
    BY <1>6, <2>9 DEF ListingOK, PathsIn
  <2>11. QED
    BY <2>8, <2>10 DEF Inv
<1>7. QED
  BY <1>4, <1>5, <1>6

\* Nothing has been listed at first.
LEMMA InitInv == Init => Inv
<1> SUFFICES ASSUME Init PROVE Inv
  OBVIOUS
<1>1. listing.path = <<>> /\ listing.names = {}
  BY DEF Init
<1>2. TypeOK
  BY <1>1 DEF Init, TypeOK
<1>3. QED
  BY <1>1, <1>2 DEF Inv, ListingOK

\* A step lists another directory, or changes what a row says.
LEMMA NextInv == Inv /\ [Next]_vars => Inv'
<1> SUFFICES ASSUME Inv, [Next]_vars PROVE Inv'
  OBVIOUS
<1>1. CASE ReadDir(<<>>)
  BY <1>1, ReadDirGives
<1>2. CASE ReadDir(<<"healthcheck">>)
  BY <1>2, ReadDirGives
<1>3. ASSUME NEW h \in InfoHash, NEW path \in PathsIn(h), ReadDir(path) PROVE Inv'
  BY <1>3, ReadDirGives
<1>4. ASSUME NEW h \in InfoHash, NEW from, NEW to \in {"none", "hidden", "visible"},
             SetState(h, from, to)
      PROVE  Inv'
  <2>1. /\ state' = [state EXCEPT ![h] = to] /\ files' = files /\ listing' = listing
    BY <1>4 DEF SetState
  <2>2. TypeOK'
    BY <2>1 DEF Inv, TypeOK
  <2>3. ListingOK'
    BY <2>1 DEF Inv, ListingOK, PathsIn
  <2>4. QED
    BY <2>2, <2>3 DEF Inv
<1>5. CASE UNCHANGED vars
  <2>1. files' = files /\ state' = state /\ listing' = listing
    BY <1>5 DEF vars
  <2>2. TypeOK'
    BY <2>1 DEF Inv, TypeOK
  <2>3. ListingOK'
    BY <2>1 DEF Inv, ListingOK, PathsIn
  <2>4. QED
    BY <2>2, <2>3 DEF Inv
<1>6. QED
  BY <1>1, <1>2, <1>3, <1>4, <1>5
     DEF Next, StoreTorrent, ShowTorrent, HideTorrent, RemoveTorrent

-----------------------------------------------------------------------------
(* read *)

\* The lesser and the greater of two numbers.
LEMMA MinOfTwo ==
    ASSUME NEW a \in Int, NEW b \in Int
    PROVE  Min({a, b}) = IF a <= b THEN a ELSE b
  BY DEF Min

LEMMA MaxOfTwo ==
    ASSUME NEW a \in Int, NEW b \in Int
    PROVE  Max({a, b}) = IF a >= b THEN a ELSE b
  BY DEF Max

\* Multiples of the length of a piece grow with their number.
LEMMA Times ==
    ASSUME NEW a \in Int, NEW b \in Int, NEW P \in Nat \ {0}
    PROVE  /\ a * P \in Int /\ (a + 1) * P = a * P + P
           /\ a <= b => a * P <= b * P
<1>1. a * P \in Int /\ (a + 1) * P = a * P + P
  OBVIOUS
<1>2. ASSUME a <= b PROVE a * P <= b * P
  <2> DEFINE d == b - a
  <2>1. d \in Nat /\ b = a + d
    BY <1>2
  <2> HIDE DEF d
  <2>2. d * P >= 0
    BY <2>1
  <2>3. b * P = a * P + d * P
    BY <2>1
  <2>4. a * P \in Int /\ b * P \in Int /\ d * P \in Int
    BY <2>1
  <2>5. QED
    BY <2>2, <2>3, <2>4
<1>3. QED
  BY <1>1, <1>2

\* The piece a byte is in begins at or before it and ends after it.
LEMMA Division ==
    ASSUME NEW a \in Nat, NEW P \in Nat \ {0}
    PROVE  /\ a \div P \in Int
           /\ (a \div P) * P <= a
           /\ a < (a \div P) * P + P
  OBVIOUS

\* The bytes from a to b, of which there may be none.
LEMMA BytesAre ==
    ASSUME NEW a \in Int, NEW b \in Int, a <= b + 1
    PROVE  /\ Bytes(a, b) \in Seq(Int)
           /\ Len(Bytes(a, b)) = b - a + 1
           /\ \A k \in 1..(b - a + 1) : Bytes(a, b)[k] = a + k - 1
<1> DEFINE n == b - a + 1
<1>1. n \in Nat
  OBVIOUS
<1>2. Bytes(a, b) \in [1..n -> Int]
  BY <1>1 DEF Bytes
<1>3. Bytes(a, b) \in Seq(Int)
  BY <1>1, <1>2, SeqDef
<1>4. Len(Bytes(a, b)) = n
  BY <1>1, <1>2, <1>3, LenProperties
<1>5. \A k \in 1..n : Bytes(a, b)[k] = a + k - 1
  BY DEF Bytes
<1>6. QED
  BY <1>3, <1>4, <1>5

\* There are none when b is before a.
LEMMA NoBytes ==
    ASSUME NEW a \in Int, NEW b \in Int, b < a
    PROVE  Bytes(a, b) = <<>>
<1>1. 1..(b - a + 1) = 1..0
  OBVIOUS
<1>2. Bytes(a, b) \in [1..0 -> Int]
  BY <1>1 DEF Bytes
<1>3. Bytes(a, b) \in Seq(Int)
  BY <1>2, SeqDef
<1>4. Len(Bytes(a, b)) = 0
  BY <1>2, <1>3, LenProperties
<1>5. QED
  BY <1>3, <1>4, EmptySeq

\* Bytes that follow one another, n of the second ones.
Joined(a, b, c, n) ==
    Bytes(a, b) \o SubSeq(Bytes(b + 1, c), 1, n) = Bytes(a, b + n)

\* The first n bytes after b continue those up to b.
LEMMA BytesJoin ==
    ASSUME NEW a \in Int, NEW b \in Int, NEW c \in Int, NEW n \in Int,
           a <= b + 1, 0 <= n, n <= c - b
    PROVE  Joined(a, b, c, n)
<1> DEFINE s == Bytes(a, b)
           u == Bytes(b + 1, c)
           v == SubSeq(u, 1, n)
           w == Bytes(a, b + n)
<1>1. /\ s \in Seq(Int) /\ Len(s) = b - a + 1
      /\ \A k \in 1..(b - a + 1) : s[k] = a + k - 1
  BY BytesAre
<1>2. /\ u \in Seq(Int) /\ \A k \in 1..(c - (b + 1) + 1) : u[k] = b + 1 + k - 1
  BY BytesAre
<1>3. /\ w \in Seq(Int) /\ Len(w) = b + n - a + 1
      /\ \A k \in 1..(b + n - a + 1) : w[k] = a + k - 1
  <2> DEFINE d == b + n
  <2>1. d \in Int /\ a <= d + 1
    OBVIOUS
  <2> HIDE DEF d
  <2>2. /\ Bytes(a, d) \in Seq(Int) /\ Len(Bytes(a, d)) = d - a + 1
        /\ \A k \in 1..(d - a + 1) : Bytes(a, d)[k] = a + k - 1
    BY <2>1, BytesAre
  <2>3. QED
    BY <2>2 DEF d
<1> HIDE DEF s, u, w
<1>4. \A k \in 1..n : u[k] = b + k /\ u[k] \in Int
  BY <1>2
<1>5. v \in Seq(Int) /\ Len(v) = n /\ \A k \in 1..n : v[k] = b + k
  <2>1. /\ v \in Seq(Int)
        /\ Len(v) = IF 1 <= n THEN n - 1 + 1 ELSE 0
        /\ \A k \in 1..(n - 1 + 1) : v[k] = u[1 + k - 1]
    BY <1>4, SubSeqProperties
  <2> HIDE DEF v
  <2>2. QED
    BY <1>4, <2>1
<1> HIDE DEF v
<1>6. /\ s \o v \in Seq(Int) /\ Len(s \o v) = Len(s) + Len(v)
      /\ \A k \in 1..(Len(s) + Len(v)) :
            (s \o v)[k] = IF k <= Len(s) THEN s[k] ELSE v[k - Len(s)]
  BY <1>1, <1>5, ConcatProperties
<1>7. Len(s \o v) = Len(w)
  BY <1>1, <1>3, <1>5, <1>6
<1>8. ASSUME NEW k \in 1..Len(w) PROVE (s \o v)[k] = w[k]
  <2>1. k \in 1..(b + n - a + 1) /\ w[k] = a + k - 1
    BY <1>3
  <2>2. CASE k <= Len(s)
    <3>1. (s \o v)[k] = s[k] /\ k \in 1..(b - a + 1)
      BY <1>1, <1>5, <1>6, <2>1, <2>2
    <3>2. QED
      BY <1>1, <2>1, <3>1
  <2>3. CASE k > Len(s)
    <3>1. (s \o v)[k] = v[k - Len(s)] /\ k - Len(s) \in 1..n
      BY <1>1, <1>5, <1>6, <2>1, <2>3
    <3>2. v[k - Len(s)] = b + (k - Len(s))
      BY <1>5, <3>1
    <3>3. QED
      BY <1>1, <2>1, <3>1, <3>2
  <2>4. k <= Len(s) \/ k > Len(s)
    BY <1>1, <2>1
  <2>5. QED
    BY <2>2, <2>3, <2>4
<1>9. s \o v = w
  BY <1>3, <1>6, <1>7, <1>8, SeqEqual
<1>10. QED
  BY <1>9 DEF s, u, v, w, Joined

\* Where a file begins.
LEMMA OffsetTyping ==
    ASSUME NEW list \in FileList, NEW i \in 1..Len(list)
    PROVE  Offset(list, i) \in Nat
<1> DEFINE m == i - 1
           seq == SubSeq(list, 1, i - 1)
           step == [x \in Nat \X (1..m) |-> x[1] + seq[x[2]].length]
           Rec(iter) == [s \in SUBSET DOMAIN seq |->
                           IF s = {} THEN 0 ELSE iter[s \ {Max(s)}] + seq[Max(s)].length]
           c == CHOOSE iter : iter = Rec(iter)
<1>1. m \in Nat /\ DOMAIN seq = 1..m /\ \A k \in 1..m : seq[k].length \in Nat
  <2>1. Len(list) \in Nat /\ \A k \in 1..Len(list) : list[k] \in File
    BY ListTyping
  <2>2. m \in Nat /\ m \in Int /\ 1 \in Int /\ \A k \in 1..m : list[k] \in File
    BY <2>1
  <2>3. seq = SubSeq(list, 1, m)
    OBVIOUS
  <2> HIDE DEF m, seq
  <2>4. /\ SubSeq(list, 1, m) \in Seq(File)
        /\ Len(SubSeq(list, 1, m)) = IF 1 <= m THEN m - 1 + 1 ELSE 0
    BY <2>2, SubSeqProperties
  <2>5. seq \in Seq(File) /\ Len(seq) = m
    BY <2>2, <2>3, <2>4
  <2>6. DOMAIN seq = 1..m
    BY <2>5, LenProperties
  <2>7. \A k \in 1..m : seq[k] \in File
    BY <2>5, ElementOfSeq
  <2>8. QED
    BY <2>2, <2>6, <2>7, PathTyping
<1>2. Offset(list, i) = c[DOMAIN seq]
  BY DEF Offset, FoldLeft, MapThenFoldSet
<1> HIDE DEF m, seq
<1>3. step \in [Nat \X (1..m) -> Nat]
  BY <1>1
<1>4. \A s \in SUBSET (1..m) : s # {} => Max(s) \in 1..m /\ s \ {Max(s)} \in SUBSET (1..m)
  BY <1>1, MaxOfSome
<1>5. c = Rec(c)
  <2>1. PICK iter : IsFold(iter, Nat, 0, m, step)
    <3> HIDE DEF step
    <3> QED BY <1>1, <1>3, FoldExists
  <2>2. iter = Rec(iter)
    BY <1>1, <1>4, <2>1 DEF IsFold
  <2>3. QED
    <3> HIDE DEF Rec
    <3> QED BY <2>2
<1> HIDE DEF c
<1>6. Follows(c, Nat, 0, m, step)
  <2>1. \A k \in 1..m, x \in Nat : step[<<x, k>>] = x + seq[k].length
    OBVIOUS
  <2> HIDE DEF step
  <2>2. QED
    BY <1>1, <1>3, <1>4, <1>5, <2>1 DEF Follows
<1>7. PICK t : IsRun(t, Nat, 0, m, step) /\ t[m] = c[1..m]
  <2> HIDE DEF step
  <2> QED BY <1>6, FoldRuns
<1>8. QED
  BY <1>1, <1>2, <1>7 DEF IsRun

Got == [buf : Seq(Int), total : Int]

\* A step of the loop keeps a buffer and a number.
LEMMA CopyTyping ==
    ASSUME NEW len \in Nat, NEW got \in Got, NEW data \in Seq(Int)
    PROVE  Copy(len, got, data) \in Got
<1> DEFINE copylen == Min({Len(data), len - Len(got.buf)})
<1>1. Len(data) \in Nat /\ Len(got.buf) \in Nat /\ got.total \in Int /\ got.buf \in Seq(Int)
  BY DEF Got
<1>2. copylen \in Int /\ copylen <= Len(data)
  <2> DEFINE a == Len(data)
             b == len - Len(got.buf)
  <2>1. a \in Int /\ b \in Int
    BY <1>1
  <2> HIDE DEF a, b
  <2>2. Min({a, b}) = IF a <= b THEN a ELSE b
    BY <2>1, MinOfTwo
  <2>3. QED
    BY <2>1, <2>2 DEF a, b
<1>3. Copy(len, got, data) =
         [buf |-> got.buf \o SubSeq(data, 1, copylen), total |-> got.total + copylen]
  BY DEF Copy
<1> HIDE DEF copylen
<1>4. SubSeq(data, 1, copylen) \in Seq(Int)
  <2>1. \A k \in 1..copylen : data[k] \in Int
    BY <1>1, <1>2, ElementOfSeq
  <2>2. QED
    BY <1>2, <2>1, SubSeqProperties
<1>5. got.buf \o SubSeq(data, 1, copylen) \in Seq(Int)
  BY <1>1, <1>4, ConcatProperties
<1>6. QED
  BY <1>1, <1>2, <1>3, <1>5 DEF Got

\* What read makes of the chunks.
Filled(len, chunks) ==
    FoldLeft(LAMBDA got, data : Copy(len, got, data), [buf |-> <<>>, total |-> 0], chunks)

\* The loop over what was fetched.
LEMMA CopySteps ==
    ASSUME NEW len \in Nat, NEW m \in Nat, NEW chunks \in [1..m -> Seq(Int)]
    PROVE  \E t \in [0..m -> Got] :
              /\ t[0] = [buf |-> <<>>, total |-> 0]
              /\ \A k \in 1..m : t[k] = Copy(len, t[k - 1], chunks[k])
              /\ t[m] = Filled(len, chunks)
<1> DEFINE nothing == [buf |-> <<>>, total |-> 0]
           step == [x \in Got \X (1..m) |-> Copy(len, x[1], chunks[x[2]])]
           Rec(iter) == [s \in SUBSET DOMAIN chunks |->
                           IF s = {} THEN nothing
                           ELSE Copy(len, iter[s \ {Max(s)}], chunks[Max(s)])]
           c == CHOOSE iter : iter = Rec(iter)
<1>1. DOMAIN chunks = 1..m
  OBVIOUS
<1>2. Filled(len, chunks) = c[DOMAIN chunks]
  BY DEF Filled, FoldLeft, MapThenFoldSet
<1>3. nothing \in Got
  BY EmptySeq DEF Got
<1> HIDE DEF nothing
<1>4. step \in [Got \X (1..m) -> Got]
  BY CopyTyping
<1>5. \A s \in SUBSET (1..m) : s # {} => Max(s) \in 1..m /\ s \ {Max(s)} \in SUBSET (1..m)
  BY MaxOfSome
<1>6. c = Rec(c)
  <2>1. PICK iter : IsFold(iter, Got, nothing, m, step)
    <3> HIDE DEF step
    <3> QED BY <1>3, <1>4, FoldExists
  <2>2. iter = Rec(iter)
    BY <1>1, <1>5, <2>1 DEF IsFold
  <2>3. QED
    <3> HIDE DEF Rec
    <3> QED BY <2>2
<1> HIDE DEF c
<1>7. Follows(c, Got, nothing, m, step)
  <2>1. \A k \in 1..m, x \in Got : step[<<x, k>>] = Copy(len, x, chunks[k])
    OBVIOUS
  <2> HIDE DEF step
  <2>2. QED
    BY <1>1, <1>3, <1>4, <1>5, <1>6, <2>1 DEF Follows
<1>8. PICK t : IsRun(t, Got, nothing, m, step) /\ t[m] = c[1..m]
  <2> HIDE DEF step
  <2> QED BY <1>7, FoldRuns
<1>9. ASSUME NEW k \in 1..m PROVE t[k] = Copy(len, t[k - 1], chunks[k])
  <2>1. <<t[k - 1], k>> \in Got \X (1..m)
    BY <1>8 DEF IsRun
  <2>2. QED
    BY <1>8, <2>1 DEF IsRun
<1>10. QED
  BY <1>1, <1>2, <1>8, <1>9 DEF IsRun, nothing

Least(a, b) == IF a <= b THEN a ELSE b

IsFilled(got, pos, to) ==
    /\ got \in Got
    /\ got.buf = Bytes(pos, to) /\ got.total = Len(got.buf)

\* One chunk is copied, or as much of it as there is room for.
LEMMA CopyFills ==
    ASSUME NEW len \in Nat, NEW pos \in Int, NEW from \in Int, NEW to \in Int,
           pos <= from + 1, from <= to,
           NEW got, IsFilled(got, pos, Least(pos + len - 1, from))
    PROVE  IsFilled(Copy(len, got, Bytes(from + 1, to)), pos, Least(pos + len - 1, to))
<1> DEFINE data == Bytes(from + 1, to)
           room == len - Len(got.buf)
           copylen == Min({Len(data), room})
           b == Least(pos + len - 1, from)
           new == Copy(len, got, data)
<1>1. b \in Int /\ pos <= b + 1 /\ got \in Got /\ got.buf \in Seq(Int)
      /\ got.buf = Bytes(pos, b) /\ got.total = Len(got.buf)
  BY DEF IsFilled, Least, Got
<1> HIDE DEF b
<1>2. Len(got.buf) = b - pos + 1
  BY <1>1, BytesAre
<1>3. data \in Seq(Int) /\ Len(data) = to - from
  <2>1. from + 1 \in Int /\ from + 1 <= to + 1
    OBVIOUS
  <2>2. data \in Seq(Int) /\ Len(data) = to - (from + 1) + 1
    BY <2>1, BytesAre
  <2>3. QED
    BY <2>2
<1>4. room \in Int /\ room = pos + len - 1 - b
  BY <1>1, <1>2
<1>5. copylen = IF to - from <= room THEN to - from ELSE room
  <2>1. Len(data) \in Int
    BY <1>3
  <2> HIDE DEF room, data
  <2>2. Min({Len(data), room}) = IF Len(data) <= room THEN Len(data) ELSE room
    BY <1>4, <2>1, MinOfTwo
  <2>3. QED
    BY <1>3, <2>2
<1>6. new = [buf |-> got.buf \o SubSeq(data, 1, copylen), total |-> got.total + copylen]
  BY DEF Copy
<1>7. new \in Got
  <2> HIDE DEF data
  <2>1. QED
    BY <1>1, <1>3, CopyTyping
<1> HIDE DEF data, room, copylen, new, b
<1>8. copylen \in Nat /\ b + copylen = Least(pos + len - 1, to)
      /\ (from < pos + len - 1 => b = from /\ copylen <= to - from)
      /\ (from >= pos + len - 1 => copylen = 0)
  BY <1>4, <1>5 DEF b, Least
<1>9. got.buf \o SubSeq(data, 1, copylen) = Bytes(pos, b + copylen)
  <2>1. CASE from < pos + len - 1
    <3>1. b = from /\ copylen \in Int /\ 0 <= copylen /\ copylen <= to - b
      BY <1>8, <2>1
    <3>2. Joined(pos, b, to, copylen)
      BY <1>1, <3>1, BytesJoin
    <3>3. QED
      BY <1>1, <3>1, <3>2 DEF data, Joined
  <2>2. CASE from >= pos + len - 1
    <3>1. SubSeq(data, 1, copylen) = <<>>
      BY <1>8, <2>2, SubSeqEmpty
    <3>2. got.buf \o <<>> = got.buf
      BY <1>1, ConcatEmptySeq
    <3>3. b + copylen = b
      BY <1>1, <1>8, <2>2
    <3>4. QED
      BY <1>1, <3>1, <3>2, <3>3
  <2>3. from < pos + len - 1 \/ from >= pos + len - 1
    OBVIOUS
  <2>4. QED
    BY <2>1, <2>2, <2>3
<1>10. Len(Bytes(pos, b + copylen)) = got.total + copylen
  <2>1. b + copylen \in Int /\ pos <= b + copylen + 1
    BY <1>1, <1>8
  <2>2. Len(Bytes(pos, b + copylen)) = (b + copylen) - pos + 1
    BY <2>1, BytesAre
  <2>3. QED
    BY <1>1, <1>2, <1>8, <2>2
<1>11. new.buf = Bytes(pos, b + copylen) /\ new.total = Len(new.buf)
  BY <1>6, <1>9, <1>10
<1>12. IsFilled(new, pos, Least(pos + len - 1, to))
  BY <1>7, <1>8, <1>11 DEF IsFilled
<1>13. QED
  BY <1>12 DEF new, data

\* chunks are what a file has from pos on, up to ends[m], end included.
ArePieces(chunks, m, ends, pos) ==
    /\ m \in Nat /\ ends \in [0..m -> Int] /\ ends[0] = pos - 1
    /\ \A k \in 1..m : ends[k - 1] <= ends[k]
    /\ chunks \in [1..m -> Seq(Int)]
    /\ \A k \in 1..m : chunks[k] = Bytes(ends[k - 1] + 1, ends[k])

AreBytes(chunks, pos, to) ==
    \E m, ends : ArePieces(chunks, m, ends, pos) /\ ends[m] = to

\* All chunks are copied, or as many of their bytes as there is room for.
LEMMA CopyAll ==
    ASSUME NEW len \in Nat, NEW pos \in Int, NEW chunks, NEW to, AreBytes(chunks, pos, to)
    PROVE  IsFilled(Filled(len, chunks), pos, Least(pos + len - 1, to))
<1>1. PICK m, ends : ArePieces(chunks, m, ends, pos) /\ ends[m] = to
  BY DEF AreBytes
<1> m \in Nat /\ ends \in [0..m -> Int] /\ chunks \in [1..m -> Seq(Int)]
  BY <1>1 DEF ArePieces
<1>2. PICK t \in [0..m -> Got] :
         /\ t[0] = [buf |-> <<>>, total |-> 0]
         /\ \A k \in 1..m : t[k] = Copy(len, t[k - 1], chunks[k])
         /\ t[m] = Filled(len, chunks)
  BY CopySteps
<1>3. /\ ends[0] = pos - 1 /\ \A k \in 1..m : ends[k - 1] <= ends[k]
      /\ \A k \in 1..m : chunks[k] = Bytes(ends[k - 1] + 1, ends[k])
  BY <1>1 DEF ArePieces
<1> DEFINE Good == {k \in 0..m : /\ pos <= ends[k] + 1
                                 /\ IsFilled(t[k], pos, Least(pos + len - 1, ends[k]))}
<1>4. 0 \in Good
  <2>1. Least(pos + len - 1, ends[0]) = pos - 1
    BY <1>3 DEF Least
  <2>2. Bytes(pos, pos - 1) = <<>>
    BY NoBytes
  <2>3. t[0] \in Got /\ t[0].buf = <<>> /\ t[0].total = 0 /\ Len(<<>>) = 0
    BY <1>2
  <2>4. QED
    BY <1>3, <2>1, <2>2, <2>3 DEF IsFilled
<1>5. ASSUME NEW k \in 1..m, k - 1 \in Good PROVE k \in Good
  <2>1. k - 1 \in 0..m /\ k \in 0..m /\ ends[k - 1] \in Int /\ ends[k] \in Int
    OBVIOUS
  <2>2. pos <= ends[k - 1] + 1 /\ ends[k - 1] <= ends[k]
        /\ IsFilled(t[k - 1], pos, Least(pos + len - 1, ends[k - 1]))
    BY <1>3, <1>5
  <2>3. IsFilled(Copy(len, t[k - 1], Bytes(ends[k - 1] + 1, ends[k])), pos,
                 Least(pos + len - 1, ends[k]))
    BY <2>1, <2>2, CopyFills
  <2>4. IsFilled(t[k], pos, Least(pos + len - 1, ends[k]))
    BY <1>2, <1>3, <2>3
  <2>5. pos <= ends[k] + 1
    BY <2>1, <2>2
  <2>6. QED
    BY <2>1, <2>4, <2>5
<1>6. 0..m \subseteq Good
  <2> HIDE DEF Good
  <2> QED BY <1>4, <1>5, RangeInduction
<1>7. m \in Good
  BY <1>6
<1>8. QED
  BY <1>1, <1>2, <1>7

\* What the file yields are its bytes from pos on, without gap or overlap, up
\* to the end that was asked for or the last byte: a piece that is neither the
\* first nor the last is yielded whole.
LEMMA ChunksArePieces ==
    ASSUME NEW offset \in Nat, NEW length \in Nat, NEW pos \in Nat, NEW end \in Nat,
           pos < length, pos <= end
    PROVE  AreBytes(Chunks(offset, length, pos, end), pos, Least(end, length - 1))
<1> DEFINE P == PieceLength
           last == Min({end, length - 1})
           startPiece == (offset + pos) \div P
           endPiece == (offset + last) \div P
           m == endPiece - startPiece + 1
           pieceStart(k) == (startPiece + k - 1) * P - offset
           ends == [k \in 0..m |-> IF k = 0 THEN pos - 1
                                   ELSE Least(last, pieceStart(k) + P - 1)]
           chunks == Chunks(offset, length, pos, end)
<1>1. P \in Nat \ {0}
  BY ReadAssumption
<1>2. last = Least(end, length - 1) /\ last \in Nat /\ pos <= last
  <2>1. length - 1 \in Int
    OBVIOUS
  <2>2. last = IF end <= length - 1 THEN end ELSE length - 1
    BY <2>1, MinOfTwo
  <2> HIDE DEF last
  <2>3. QED
    BY <2>2 DEF Least
<1> HIDE DEF P, last
<1>3. /\ startPiece \in Int /\ startPiece * P <= offset + pos
      /\ offset + pos < startPiece * P + P
  <2> DEFINE a == offset + pos
  <2>1. a \in Nat
    OBVIOUS
  <2> HIDE DEF a
  <2>2. a \div P \in Int /\ (a \div P) * P <= a /\ a < (a \div P) * P + P
    BY <1>1, <2>1, Division
  <2>3. QED
    BY <2>2 DEF a
<1>4. /\ endPiece \in Int /\ endPiece * P <= offset + last
      /\ offset + last < endPiece * P + P
  <2> DEFINE a == offset + last
  <2>1. a \in Nat
    BY <1>2
  <2> HIDE DEF a
  <2>2. a \div P \in Int /\ (a \div P) * P <= a /\ a < (a \div P) * P + P
    BY <1>1, <2>1, Division
  <2>3. QED
    BY <2>2 DEF a
<1>5. chunks = [k \in 1..m |-> Bytes(Max({pos, pieceStart(k)}), Min({last, pieceStart(k) + P - 1}))]
  BY DEF Chunks, last, P
<1> HIDE DEF startPiece, endPiece, chunks
<1>6. startPiece <= endPiece
  <2>1. ASSUME endPiece < startPiece PROVE FALSE
    <3>1. endPiece + 1 \in Int /\ endPiece + 1 <= startPiece
      BY <1>3, <1>4, <2>1
    <3>2. (endPiece + 1) * P <= startPiece * P /\ (endPiece + 1) * P = endPiece * P + P
          /\ endPiece * P \in Int /\ startPiece * P \in Int
      BY <1>1, <1>3, <1>4, <3>1, Times
    <3>3. QED
      BY <1>1, <1>2, <1>3, <1>4, <3>2
  <2>2. QED
    BY <1>3, <1>4, <2>1
<1>7. m \in Nat \ {0}
  BY <1>3, <1>4, <1>6
\* Where the k-th piece begins, in the file.
<1>8. ASSUME NEW k \in 1..m
      PROVE  /\ pieceStart(k) \in Int
             /\ pieceStart(k + 1) = pieceStart(k) + P
             /\ k < m => pieceStart(k) + P <= last
             /\ k = m => pieceStart(k) <= last /\ last <= pieceStart(k) + P - 1
             /\ k = 1 => pieceStart(k) <= pos /\ pos <= pieceStart(k) + P - 1
             /\ k > 1 => pos < pieceStart(k)
  <2> DEFINE a == startPiece + k - 1
  <2>1. a \in Int /\ startPiece <= a /\ a <= endPiece
        /\ (k < m => a + 1 <= endPiece) /\ (k = m => a = endPiece)
        /\ (k = 1 => a = startPiece) /\ (k > 1 => startPiece + 1 <= a)
        /\ startPiece + (k + 1) - 1 = a + 1
    BY <1>3, <1>4, <1>7
  <2>2. /\ a * P \in Int /\ (a + 1) * P = a * P + P
        /\ startPiece * P \in Int /\ (startPiece + 1) * P = startPiece * P + P
        /\ endPiece * P \in Int
    <3> HIDE DEF a
    <3> QED BY <1>1, <1>3, <1>4, <2>1, Times
  <2>3. k < m => (a + 1) * P <= endPiece * P
    <3> HIDE DEF a
    <3>1. a + 1 \in Int
      BY <2>1
    <3>2. QED
      BY <1>1, <1>4, <2>1, <3>1, Times
  <2>4. k > 1 => (startPiece + 1) * P <= a * P
    <3> HIDE DEF a
    <3>1. startPiece + 1 \in Int
      BY <1>3
    <3>2. QED
      BY <1>1, <2>1, <3>1, Times
  <2>5. pieceStart(k) = a * P - offset /\ pieceStart(k + 1) = (a + 1) * P - offset
    <3>1. pieceStart(k) = a * P - offset
      OBVIOUS
    <3>2. pieceStart(k + 1) = (startPiece + (k + 1) - 1) * P - offset
      OBVIOUS
    <3> HIDE DEF a, pieceStart
    <3>3. QED
      BY <2>1, <3>1, <3>2
  <2> HIDE DEF a, pieceStart, m
  <2>6. QED
    BY <1>1, <1>2, <1>3, <1>4, <1>7, <2>1, <2>2, <2>3, <2>4, <2>5
<1> HIDE DEF pieceStart, m
\* Where it ends.
<1>9. ASSUME NEW k \in 1..m
      PROVE  /\ ends[k] \in Int /\ ends[k - 1] \in Int
             /\ ends[k] = Min({last, pieceStart(k) + P - 1})
             /\ ends[k - 1] + 1 = Max({pos, pieceStart(k)})
             /\ ends[k - 1] + 1 <= ends[k]
  <2>1. k \in 0..m /\ k - 1 \in 0..m /\ k # 0
    BY <1>7
  <2>2. pieceStart(k) \in Int /\ pieceStart(k) + P - 1 \in Int
    BY <1>1, <1>8
  <2>3. ends[k] = Least(last, pieceStart(k) + P - 1) /\ ends[k] \in Int
    BY <1>2, <2>1, <2>2 DEF Least
  <2>4. ends[k] = Min({last, pieceStart(k) + P - 1})
    <3> HIDE DEF ends
    <3>1. last \in Int
      BY <1>2
    <3>2. QED
      BY <2>2, <2>3, <3>1, MinOfTwo DEF Least
  <2>5. Max({pos, pieceStart(k)}) = IF pos >= pieceStart(k) THEN pos ELSE pieceStart(k)
    BY <2>2, MaxOfTwo
  <2>6. CASE k = 1
    <3>1. ends[k - 1] = pos - 1
      BY <2>6, <1>7
    <3> HIDE DEF ends
    <3>2. pieceStart(k) <= pos /\ pos <= pieceStart(k) + P - 1
      BY <1>8, <2>6
    <3>3. QED
      BY <1>1, <1>2, <2>2, <2>3, <2>4, <2>5, <3>1, <3>2 DEF Least
  <2>7. CASE k > 1
    <3>1. k - 1 \in 1..m /\ k - 1 < m /\ (k - 1) + 1 = k /\ k - 1 # 0
      BY <1>7, <2>7
    <3>2. /\ pieceStart(k - 1) \in Int /\ pieceStart(k) = pieceStart(k - 1) + P
          /\ pieceStart(k - 1) + P <= last
      BY <1>8, <3>1
    <3>3. ends[k - 1] = Least(last, pieceStart(k - 1) + P - 1)
      BY <2>1, <3>1
    <3> HIDE DEF ends
    <3>4. ends[k - 1] = pieceStart(k) - 1
      BY <1>1, <1>2, <3>2, <3>3 DEF Least
    <3>5. pos < pieceStart(k) /\ pieceStart(k) <= last
      BY <1>8, <2>7, <3>2
    <3>6. QED
      BY <1>1, <1>2, <2>2, <2>3, <2>4, <2>5, <3>4, <3>5 DEF Least
  <2>8. k = 1 \/ k > 1
    BY <1>7
  <2>9. QED
    BY <2>6, <2>7, <2>8
<1>10. ends[0] = pos - 1 /\ ends \in [0..m -> Int]
  <2>1. ends[0] = pos - 1
    BY <1>7
  <2>2. ASSUME NEW k \in 0..m PROVE ends[k] \in Int
    <3>1. k = 0 \/ k \in 1..m
      BY <1>7
    <3>2. ends[0] \in Int
      BY <2>1
    <3> HIDE DEF ends
    <3>3. QED
      BY <1>9, <3>1, <3>2
  <2>3. QED
    BY <2>1, <2>2
<1>11. ends[m] = Least(end, length - 1)
  <2>1. m \in 1..m /\ m \in 0..m /\ m # 0
    BY <1>7
  <2>2. last <= pieceStart(m) + P - 1
    BY <1>8, <2>1
  <2>3. ends[m] = Least(last, pieceStart(m) + P - 1)
    BY <2>1
  <2> HIDE DEF ends
  <2>4. QED
    BY <1>2, <2>2, <2>3 DEF Least
<1> HIDE DEF ends
<1>12. ASSUME NEW k \in 1..m PROVE ends[k - 1] <= ends[k]
  <2> DEFINE a == ends[k - 1]
             b == ends[k]
  <2>1. a \in Int /\ b \in Int /\ a + 1 <= b
    BY <1>9
  <2> HIDE DEF a, b
  <2>2. a <= b
    BY <2>1
  <2>3. QED
    BY <2>2 DEF a, b
<1>13. \A k \in 1..m : chunks[k] = Bytes(ends[k - 1] + 1, ends[k])
  BY <1>5, <1>9
<1>14. chunks \in [1..m -> Seq(Int)]
  <2>1. DOMAIN chunks = 1..m /\ chunks = [k \in 1..m |-> chunks[k]]
    BY <1>5
  <2>2. ASSUME NEW k \in 1..m PROVE chunks[k] \in Seq(Int)
    <3> DEFINE a == ends[k - 1] + 1
               b == ends[k]
    <3>1. ends[k - 1] \in Int /\ b \in Int /\ a <= b
      BY <1>9
    <3>2. chunks[k] = Bytes(a, b)
      BY <1>13
    <3>3. a \in Int
      BY <3>1
    <3> HIDE DEF a, b
    <3>4. a <= b + 1
      BY <3>1, <3>3
    <3>5. QED
      BY <3>1, <3>2, <3>3, <3>4, BytesAre
  <2>3. QED
    BY <2>1, <2>2
<1>15. ArePieces(chunks, m, ends, pos)
  BY <1>7, <1>10, <1>12, <1>13, <1>14 DEF ArePieces
<1>16. QED
  BY <1>11, <1>15 DEF AreBytes, chunks

\* What a read of a file answers.
LEMMA ReadIs ==
    ASSUME NEW list \in FileList, NEW i \in 1..Len(list), NEW pos \in Nat, NEW len \in Nat \ {0},
           NEW path, list = files[Head(path)],
           i = FileAt(list, Tail(path))
    PROVE  IsFilled(read(path, pos, len), pos, Min({pos + len, list[i].length}) - 1)
<1> DEFINE size == list[i].length
           nothing == [buf |-> <<>>, total |-> 0]
           chunks == Chunks(Offset(list, i), size, pos, pos + len)
           to == Min({pos + len, size}) - 1
           got == read(path, pos, len)
<1>1. size \in Nat /\ Offset(list, i) \in Nat
  BY ListTyping, PathTyping, OffsetTyping
<1>2. got = IF pos >= size THEN nothing ELSE Filled(len, chunks)
  <2> DEFINE l == files[Head(path)]
             f == FileAt(l, Tail(path))
  <2>1. read(path, pos, len) =
           IF pos >= l[f].length THEN nothing
           ELSE Filled(len, Chunks(Offset(l, f), l[f].length, pos, pos + len))
    BY Zenon DEF read, Filled, FileAt
  <2>2. l = list /\ f = i
    OBVIOUS
  <2> HIDE DEF l, f
  <2>3. QED
    BY <2>1, <2>2
<1> HIDE DEF size, got
<1>3. to = IF pos + len <= size THEN pos + len - 1 ELSE size - 1
  <2> DEFINE a == pos + len
  <2>1. a \in Int
    OBVIOUS
  <2> HIDE DEF a
  <2>2. Min({a, size}) = IF a <= size THEN a ELSE size
    BY <1>1, <2>1, MinOfTwo
  <2>3. QED
    BY <2>2 DEF a
<1>4. to \in Int
  <2> HIDE DEF to
  <2> QED BY <1>1, <1>3
<1> HIDE DEF to
<1>5. CASE pos >= size
  <2>1. to < pos
    BY <1>1, <1>3, <1>5
  <2>2. Bytes(pos, to) = <<>>
    BY <1>4, <2>1, NoBytes
  <2>3. nothing \in Got /\ nothing.buf = <<>> /\ nothing.total = Len(nothing.buf)
    BY EmptySeq DEF Got
  <2>4. QED
    BY <1>2, <1>5, <2>2, <2>3 DEF IsFilled, got, to, size
<1>6. CASE pos < size
  <2> DEFINE end == pos + len
  <2>1. end \in Nat /\ pos <= end
    OBVIOUS
  <2>2. chunks = Chunks(Offset(list, i), size, pos, end)
    OBVIOUS
  <2> HIDE DEF end, chunks
  <2>3. AreBytes(chunks, pos, Least(end, size - 1))
    BY <1>1, <1>6, <2>1, <2>2, ChunksArePieces
  <2>4. IsFilled(Filled(len, chunks), pos, Least(pos + len - 1, Least(end, size - 1)))
    BY <2>3, CopyAll
  <2>5. Least(pos + len - 1, Least(end, size - 1)) = to
    BY <1>1, <1>3 DEF Least, end
  <2>6. got = Filled(len, chunks)
    <3>1. ~(pos >= size)
      BY <1>1, <1>6
    <3>2. QED
      BY <1>2, <3>1
  <2>7. QED
    BY <2>4, <2>5, <2>6 DEF got, to, size
<1>7. pos >= size \/ pos < size
  BY <1>1
<1>8. QED
  BY <1>5, <1>6, <1>7

\* Reads are exact in every state.
LEMMA ExactReads == ASSUME FilesOK PROVE ReadsAreExact
<1> SUFFICES ASSUME NEW h \in VisibleHashes, NEW path \in PathsIn(h),
                    IsFile(files[h], Tail(path)),
                    NEW pos \in 0..(getattr(path).size + 1), NEW len \in ReadLength
             PROVE  LET got == read(path, pos, len) IN
                    /\ got.buf = Bytes(pos, Min({pos + len, getattr(path).size}) - 1)
                    /\ got.total = Len(got.buf)
  BY DEF ReadsAreExact
<1> DEFINE list == files[h]
           got == read(path, pos, len)
<1>1. h \in InfoHash /\ list \in FileList /\ DOMAIN list = 1..Len(list)
  BY ListTyping DEF FilesOK, VisibleHashes
<1>2. /\ Tail(path) \in Seq(Name) /\ Head(path) = h
      /\ path # <<>> /\ path # <<"healthcheck">>
  BY <1>1, PathsOf
<1>3. PICK i \in DOMAIN list :
         /\ list[i].path = Tail(path)
         /\ i = FileAt(list, Tail(path))
         /\ getattr(path) = Stat("file", list[i].length)
  BY <1>2, GetattrIs
<1>4. getattr(path).size = list[i].length
  BY <1>3 DEF Stat
<1>5. list[i].length \in Nat /\ i \in 1..Len(list)
  BY <1>1, <1>3, ListTyping, PathTyping
<1>6. pos \in Nat /\ len \in Nat \ {0}
  BY <1>4, <1>5, ReadAssumption
<1>7. list = files[Head(path)]
  BY <1>2
<1> HIDE DEF list
<1>8. IsFilled(got, pos, Min({pos + len, list[i].length}) - 1)
  BY <1>1, <1>3, <1>5, <1>6, <1>7, ReadIs
<1>9. QED
  BY <1>4, <1>8 DEF IsFilled

-----------------------------------------------------------------------------
(* What holds in every state *)

\* The invariant holds in every state the mount can be in.
THEOREM Invariance == Spec => []Inv
  BY InitInv, NextInv, PTL DEF Spec

\* A torrent's files, what its row says and the names of a listing are what
\* they should be.
THEOREM TypeCorrect == Spec => []TypeOK
<1>1. Inv => TypeOK
  BY DEF Inv
<1>2. QED
  BY Invariance, <1>1, PTL

\* readdir answers with exactly the names a directory of a torrent holds,
\* whatever the order of the list and whatever the names, "length" included.
THEOREM ListingsExact == Spec => []ListingsAreExact
<1>1. Inv => ListingsAreExact
  BY ExactListings DEF Inv, TypeOK, FilesOK
<1>2. QED
  BY Invariance, <1>1, PTL

\* getattr tells files, directories and what does not exist apart, with the
\* length of a file and the number of names in a directory.
THEOREM AttributesExact == Spec => []AttributesAreExact
<1>1. Inv => AttributesAreExact
  BY ExactAttributes DEF Inv, TypeOK, FilesOK
<1>2. QED
  BY Invariance, <1>1, PTL

\* read puts exactly the bytes asked for into the buffer, or what the file has
\* left of them, and answers with their number.
THEOREM ReadsExact == Spec => []ReadsAreExact
<1>1. Inv => ReadsAreExact
  BY ExactReads DEF Inv, TypeOK, FilesOK
<1>2. QED
  BY Invariance, <1>1, PTL

\* getattr knows what readdir has listed, unless the torrent was hidden or
\* deleted meanwhile.
THEOREM ListedFound == Spec => []ListedIsKnown
<1>1. Inv => ListedIsKnown
  BY ListedKnown
<1>2. QED
  BY Invariance, <1>1, PTL
=============================================================================
