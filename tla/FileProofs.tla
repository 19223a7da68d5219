------------------------------ MODULE FileProofs ------------------------------
(***************************************************************************)
(* Proofs about the file system (ramfs.c), for every set of paths, of      *)
(* texts and of nodes: whatever is created and removed and wherever memory *)
(* fails, the nodes form one tree, and the tree implements a map from      *)
(* paths to texts.                                                         *)
(*                                                                         *)
(* Induction down the tree is one by a set of nodes (FromRoot).  Following *)
(* a path is a fold, by pointers and by names, and is taken turn by turn   *)
(* as in EditorProofs, whose lemmas on folds and sequences are used; of    *)
(* the editor nothing is.                                                  *)
(***************************************************************************)
EXTENDS RamFS, EditorProofs
-----------------------------------------------------------------------------
(* The file system: finding nodes.                                         *)

\* How a fold takes the components of a path.
WalkBy(g, base, seq) ==
  g = [s \in SUBSET DOMAIN seq |->
         IF s = {} THEN base ELSE Walk(g[s \ {Max(s)}], seq[Max(s)])]

WalkAll(base, seq) == FoldLeft(Walk, base, seq)

\* The library's fold is the value of such a function.
LEMMA WalkFold ==
  ASSUME NEW seq, NEW base, NEW it, WalkBy(it, base, seq)
  PROVE  \E g : WalkAll(base, seq) = g[DOMAIN seq] /\ WalkBy(g, base, seq)
BY DEF FoldLeft, MapThenFoldSet, WalkBy, WalkAll

\* The values on the way, one for each component that is taken.
LEMMA WalkTurns ==
  ASSUME NEW T, NEW base \in T, NEW S, NEW seq \in Seq(S),
         \A v \in T : \A i \in 1 .. Len(seq) : Walk(v, seq[i]) \in T
  PROVE  \E f \in [0 .. Len(seq) -> T] :
           /\ f[0] = base
           /\ \A n \in 1 .. Len(seq) : f[n] = Walk(f[n - 1], seq[n])
           /\ WalkAll(base, seq) = f[Len(seq)]
<1> DEFINE N == Len(seq)
           step == [x \in T \X (1 .. N) |-> Walk(x[1], seq[x[2]])]
<1>1. N \in Nat /\ DOMAIN seq = 1 .. N
  OBVIOUS
<1>2. step \in [T \X (1 .. N) -> T]
  OBVIOUS
<1> HIDE DEF N
<1>3. PICK it \in [SUBSET (1 .. N) -> T] : FoldsBy(it, N, base, step)
  <2> HIDE DEF step
  <2> QED
    BY <1>1, <1>2, FoldExists
<1>4. WalkBy(it, base, seq)
  <2>1. ASSUME NEW s \in SUBSET (1 .. N), s # {}
        PROVE  step[<<it[s \ {Max(s)}], Max(s)>>] = Walk(it[s \ {Max(s)}], seq[Max(s)])
    <3>1. Max(s) \in 1 .. N /\ s \ {Max(s)} \in SUBSET (1 .. N)
      BY <1>1, <2>1, LargestOf
    <3>2. <<it[s \ {Max(s)}], Max(s)>> \in T \X (1 .. N)
      BY <3>1
    <3> QED
      BY <3>2
  <2> HIDE DEF step
  <2> QED
    BY <1>1, <1>3, <2>1 DEF FoldsBy, WalkBy
<1>5. PICK g : WalkAll(base, seq) = g[DOMAIN seq] /\ WalkBy(g, base, seq)
  BY <1>4, WalkFold
<1> DEFINE f == [n \in 0 .. N |-> g[1 .. n]]
<1>6. f[0] = base
  BY <1>1, <1>5, FirstN DEF WalkBy
<1>7. ASSUME NEW n \in 1 .. N PROVE f[n] = Walk(f[n - 1], seq[n])
  <2>1. /\ 1 .. n \in SUBSET (1 .. N) /\ 1 .. n # {}
        /\ Max(1 .. n) = n /\ (1 .. n) \ {n} = 1 .. n - 1
    BY <1>1, FirstN
  <2>2. g[1 .. n] = Walk(g[1 .. n - 1], seq[n])
    BY <1>1, <1>5, <2>1 DEF WalkBy
  <2>3. f[n] = g[1 .. n] /\ f[n - 1] = g[1 .. n - 1]
    BY <1>1
  <2> QED
    BY <2>2, <2>3
<1>8. \A n \in 0 .. N : n \in {m \in 0 .. N : f[m] \in T}
  <2> DEFINE Good == {m \in 0 .. N : f[m] \in T}
  <2> HIDE DEF f
  <2>1. 0 \in Good
    BY <1>1, <1>6
  <2>2. ASSUME NEW n \in 0 .. N - 1, n \in Good PROVE n + 1 \in Good
    <3>1. n + 1 \in 1 .. N /\ (n + 1) - 1 = n /\ f[n] \in T
      BY <1>1, <2>2
    <3> QED
      BY <1>7, <3>1 DEF N
  <2> HIDE DEF Good
  <2>3. \A n \in 0 .. N : n \in Good
    BY <1>1, <2>1, <2>2, UpTo
  <2> QED
    BY <2>3 DEF Good
<1>9. f \in [0 .. N -> T]
  BY <1>8
<1>10. WalkAll(base, seq) = f[N]
  <2>1. f[N] = g[1 .. N]
    BY <1>1
  <2> QED
    BY <1>1, <1>5, <2>1
<1> HIDE DEF f
<1> QED
  BY <1>6, <1>7, <1>9, <1>10 DEF N

\* The vfs_node_t's there may be.
NodeType == [name : Component \cup {""}, type : {"dir", "file"},
             parent : Node \cup {NULL}, children : Seq(Node),
             data : Content \cup {NULL}]

\* TreeOK, and what a block that is not in use holds.
TreeInv == TreeOK /\ \A n \in Node \ allocated : node[n] = Blank

\* A node has its fields.
LEMMA NodeIs ==
  ASSUME TreeInv
  PROVE  /\ node \in [Node -> NodeType] /\ allocated \subseteq Node
         /\ NULL \notin Node /\ NULL \notin allocated
         /\ \A n \in Node : /\ node[n] \in NodeType
                            /\ node[n].children \in Seq(Node)
                            /\ Range(node[n].children) \subseteq Node
<1>1. node \in [Node -> NodeType] /\ allocated \subseteq Node
  BY DEF TreeInv, TreeOK, FSTypeOK, NodeType
<1>2. \A n \in Node : node[n] \in NodeType
  BY <1>1
<1>3. \A n \in Node : node[n].children \in Seq(Node)
  BY <1>2 DEF NodeType
<1>4. \A n \in Node : Range(node[n].children) \subseteq Node
  BY <1>3 DEF Range
<1> QED
  BY <1>1, <1>2, <1>3, <1>4, FSAssumption

\* The least of a set of numbers that is not empty is in it.
LEMMA LeastOf ==
  ASSUME NEW S \in SUBSET Nat, S # {}
  PROVE  Min(S) \in S
<1>1. PICK n \in S : \A i \in S : n <= i
  BY LeastNatural
<1> QED
  BY <1>1 DEF Min

\* default_finddir finds the entry of the name if there is one.
LEMMA FoundIs ==
  ASSUME TreeInv, NEW dir \in Node, NEW name
  PROVE  \/ /\ ramfs_find(dir, name) = NULL
            /\ IsDir(dir) => \A c \in Range(node[dir].children) : node[c].name # name
         \/ /\ IsDir(dir) /\ ramfs_find(dir, name) \in Range(node[dir].children)
            /\ node[ramfs_find(dir, name)].name = name
<1> DEFINE s == node[dir].children
           I == {i \in 1 .. Len(s) : node[s[i]].name = name}
           k == SelectInSeq(s, LAMBDA c : node[c].name = name)
<1>1. k = IF I # {} THEN Min(I) ELSE 0
  BY DEF SelectInSeq
<1>2. s \in Seq(Node) /\ DOMAIN s = 1 .. Len(s)
  BY NodeIs
<1>3. ramfs_find(dir, name) = IF IsDir(dir) /\ k # 0 THEN s[k] ELSE NULL
  BY DEF ramfs_find
<1> HIDE DEF k
<1>4. CASE I = {}
  BY <1>1, <1>2, <1>3, <1>4 DEF Range
<1>5. CASE I # {}
  <2>1. I \in SUBSET Nat
    OBVIOUS
  <2>2. k \in I
    <3> HIDE DEF I
    <3> QED
      BY <1>1, <1>5, <2>1, LeastOf
  <2>3. k \in 1 .. Len(s) /\ k # 0 /\ node[s[k]].name = name
    BY <2>2
  <2>4. s[k] \in Range(s)
    BY <1>2, <2>3 DEF Range
  <2> HIDE DEF I, s
  <2> QED
    BY <1>3, <2>3, <2>4 DEF s
<1> QED
  BY <1>4, <1>5

\* One turn of vfs_resolve_path leads from a node of the tree to another or nowhere.
LEMMA WalkStays ==
  ASSUME TreeInv, NEW n \in allocated \cup {NULL}, NEW comp
  PROVE  Walk(n, comp) \in allocated \cup {NULL}
<1>1. CASE n = NULL
  BY <1>1 DEF Walk
<1>2. CASE n # NULL /\ comp \in {"", "."}
  BY <1>2 DEF Walk
<1>3. CASE n # NULL /\ comp = ".."
  <2>1. node[n].parent = NULL \/ node[n].parent \in allocated
    BY <1>3 DEF TreeInv, TreeOK, ParentsAgree
  <2> QED
    BY <1>3, <2>1 DEF Walk
<1>4. CASE n # NULL /\ comp \notin {"", ".", ".."}
  <2>1. n \in Node /\ \A c \in Range(node[n].children) : c \in allocated
    BY <1>4, NodeIs DEF TreeInv, TreeOK, ParentsAgree
  <2>2. ramfs_find(n, comp) \in allocated \cup {NULL}
    BY <2>1, FoundIs
  <2>3. Walk(n, comp) = ramfs_find(n, comp)
    BY <1>4 DEF Walk
  <2> QED
    BY <2>2, <2>3
<1> QED
  BY <1>1, <1>2, <1>3, <1>4, Zenon

\* Where a path starts.
Start(abs) == IF abs THEN Root ELSE cwd

\* vfs_resolve_path as turns.
LEMMA ResolveTurns ==
  ASSUME TreeInv, NEW abs \in BOOLEAN, NEW comps \in Seq(Component)
  PROVE  \E f \in [0 .. Len(comps) -> allocated \cup {NULL}] :
           /\ f[0] = Start(abs)
           /\ \A n \in 1 .. Len(comps) : f[n] = Walk(f[n - 1], comps[n])
           /\ ramfs_resolve([abs |-> abs, comps |-> comps]) = f[Len(comps)]
<1> DEFINE T == allocated \cup {NULL}
           base == Start(abs)
<1>1. base \in T
  BY DEF TreeInv, TreeOK, Start
<1>2. \A v \in T : \A i \in 1 .. Len(comps) : Walk(v, comps[i]) \in T
  BY WalkStays
<1>3. ramfs_resolve([abs |-> abs, comps |-> comps]) = WalkAll(base, comps)
  BY DEF ramfs_resolve, WalkAll, Start
<1> HIDE DEF T, base
<1>4. \E f \in [0 .. Len(comps) -> T] :
        /\ f[0] = base
        /\ \A n \in 1 .. Len(comps) : f[n] = Walk(f[n - 1], comps[n])
        /\ WalkAll(base, comps) = f[Len(comps)]
  BY <1>1, <1>2, WalkTurns, SMTT(60)
<1> QED
  BY <1>3, <1>4 DEF T, base

\* A path, and the path without its last name.
LEMMA PathIs ==
  ASSUME NEW p \in Path
  PROVE  /\ p = [abs |-> p.abs, comps |-> p.comps]
         /\ [p EXCEPT !.comps = Front(@)] = [abs |-> p.abs, comps |-> Front(p.comps)]
         /\ p.abs \in BOOLEAN /\ p.comps \in Seq(Component)
         /\ Front(p.comps) \in Seq(Component)
         /\ Last(p.comps) \in Component
<1>1. p \in [abs : BOOLEAN, comps : Seq(Component)] /\ p.comps # <<>>
  BY FSAssumption
<1>2. /\ p = [abs |-> p.abs, comps |-> p.comps]
      /\ [p EXCEPT !.comps = Front(@)] = [abs |-> p.abs, comps |-> Front(p.comps)]
      /\ p.abs \in BOOLEAN /\ p.comps \in Seq(Component)
  BY <1>1
<1>3. Len(p.comps) \in Nat \ {0}
  BY <1>1, <1>2, EmptySeq
<1>4. \A i \in 1 .. Len(p.comps) - 1 : p.comps[i] \in Component
  BY <1>2, <1>3
<1>5. SubSeq(p.comps, 1, Len(p.comps) - 1) \in Seq(Component)
  <2> DEFINE s == p.comps
  <2>1. s \in Seq(Component) /\ Len(s) - 1 \in Int
    BY <1>2, <1>3
  <2> HIDE DEF s
  <2> QED
    BY <1>3, <1>4, <2>1, SubSeqProperties DEF s
<1> QED
  BY <1>2, <1>3, <1>5 DEF Front, Last

\* A path leads to a node of the tree or nowhere.
LEMMA ResolveIs ==
  ASSUME TreeInv, NEW p \in Path
  PROVE  /\ ramfs_resolve(p) \in allocated \cup {NULL}
         /\ Directory(p) \in allocated \cup {NULL}
<1>1. \A abs \in BOOLEAN, comps \in Seq(Component) :
        ramfs_resolve([abs |-> abs, comps |-> comps]) \in allocated \cup {NULL}
  <2> SUFFICES ASSUME NEW abs \in BOOLEAN, NEW comps \in Seq(Component)
               PROVE  ramfs_resolve([abs |-> abs, comps |-> comps]) \in allocated \cup {NULL}
    OBVIOUS
  <2>1. PICK f \in [0 .. Len(comps) -> allocated \cup {NULL}] :
          ramfs_resolve([abs |-> abs, comps |-> comps]) = f[Len(comps)]
    BY ResolveTurns
  <2>2. Len(comps) \in 0 .. Len(comps)
    OBVIOUS
  <2> QED
    BY <2>1, <2>2
<1>2. ramfs_resolve(p) = ramfs_resolve([abs |-> p.abs, comps |-> p.comps])
  BY PathIs
<1>3. Directory(p) = ramfs_resolve([abs |-> p.abs, comps |-> Front(p.comps)])
  BY PathIs DEF Directory
<1>4. p.abs \in BOOLEAN /\ p.comps \in Seq(Component) /\ Front(p.comps) \in Seq(Component)
  BY PathIs
<1>5. ramfs_resolve(p) \in allocated \cup {NULL}
  BY <1>1, <1>2, <1>4
<1>6. Directory(p) \in allocated \cup {NULL}
  BY <1>1, <1>3, <1>4
<1> QED
  BY <1>5, <1>6
-----------------------------------------------------------------------------
(* The file system: the tree through every command.                        *)

\* Where mkdir and touch go on there is a directory without the name.
LEMMA NothingRefused ==
  ASSUME TreeInv, NEW p \in Path, CreateRefused(p) = "no"
  PROVE  /\ Directory(p) \in allocated /\ IsDir(Directory(p))
         /\ Last(p.comps) \in Component /\ Last(p.comps) # ""
         /\ \A c \in Range(node[Directory(p)].children) : node[c].name # Last(p.comps)
<1>1. /\ Directory(p) # NULL /\ IsDir(Directory(p)) /\ Last(p.comps) # ""
      /\ ramfs_find(Directory(p), Last(p.comps)) = NULL
  BY DEF CreateRefused
<1>2. Directory(p) \in allocated /\ Directory(p) \in Node /\ Last(p.comps) \in Component
  BY <1>1, ResolveIs, NodeIs, PathIs
<1>3. NULL \notin Range(node[Directory(p)].children)
  BY <1>2, NodeIs
<1> QED
  BY <1>1, <1>2, <1>3, FoundIs

\* n is a new entry of the directory d, called name.
Added(n, d, name, type) ==
  /\ n \in Node \ allocated /\ d \in allocated /\ IsDir(d) /\ d # n
  /\ name \in Component /\ type \in {"dir", "file"}
  /\ \A c \in Range(node[d].children) : node[c].name # name
  /\ allocated' = allocated \cup {n} /\ cwd' = cwd
  /\ node' \in [Node -> NodeType]
  /\ node'[n] = [name |-> name, type |-> type, parent |-> d, children |-> <<>>, data |-> NULL]
  /\ node'[d] = [node[d] EXCEPT !.children = <<n>> \o node[d].children]
  /\ \A m \in Node \ {n, d} : node'[m] = node[m]

\* The node n, which has no entries, is taken out of the directory d.
Removed(n, d) ==
  /\ n \in allocated \ {Root} /\ n # cwd /\ node[n].children = <<>>
  /\ d = node[n].parent /\ d \in allocated /\ d # n
  /\ allocated' = allocated \ {n} /\ cwd' = cwd
  /\ node' \in [Node -> NodeType]
  /\ node'[n] = Blank
  /\ node'[d] = [node[d] EXCEPT !.children = RemoveFirst(node[d].children, n)]
  /\ \A m \in Node \ {n, d} : node'[m] = node[m]

\* The text of the file n is set.
Written(n, text) ==
  /\ n \in allocated /\ IsFile(n) /\ text \in Content \cup {NULL}
  /\ allocated' = allocated /\ cwd' = cwd
  /\ node' = [node EXCEPT ![n].data = text]

\* One entry more at the front.
LEMMA FrontIs ==
  ASSUME NEW S, NEW s \in Seq(S), NEW n \in S
  PROVE  /\ <<n>> \o s \in Seq(S) /\ Len(<<n>> \o s) = Len(s) + 1
         /\ (<<n>> \o s)[1] = n
         /\ \A i \in 2 .. Len(s) + 1 : (<<n>> \o s)[i] = s[i - 1]
         /\ Range(<<n>> \o s) = Range(s) \cup {n}
<1> DEFINE t == <<n>> \o s
<1>1. /\ <<n>> \in Seq(S) /\ Len(<<n>>) = 1 /\ <<n>>[1] = n /\ Len(s) \in Nat
      /\ DOMAIN s = 1 .. Len(s)
  OBVIOUS
<1>2. /\ t \in Seq(S) /\ Len(t) = 1 + Len(s)
      /\ \A i \in 1 .. 1 + Len(s) : t[i] = IF i <= 1 THEN <<n>>[i] ELSE s[i - 1]
  BY <1>1, ConcatProperties
<1> HIDE DEF t
<1>3. t[1] = n /\ \A i \in 2 .. Len(s) + 1 : t[i] = s[i - 1]
  BY <1>1, <1>2
<1>4. DOMAIN t = 1 .. Len(s) + 1
  BY <1>1, <1>2
<1>5. \A x \in Range(t) : x \in Range(s) \cup {n}
  <2> SUFFICES ASSUME NEW i \in 1 .. Len(s) + 1, t[i] # n PROVE t[i] \in Range(s)
    BY <1>4 DEF Range
  <2>1. i \in 2 .. Len(s) + 1 /\ i - 1 \in 1 .. Len(s)
    BY <1>1, <1>3
  <2> QED
    BY <1>1, <1>3, <2>1 DEF Range
<1>6. \A x \in Range(s) \cup {n} : x \in Range(t)
  <2>1. n \in Range(t)
    <3>1. 1 \in 1 .. Len(s) + 1
      BY <1>1
    <3> QED
      BY <1>3, <1>4, <3>1 DEF Range
  <2>2. ASSUME NEW i \in 1 .. Len(s) PROVE s[i] \in Range(t)
    <3>1. i + 1 \in 2 .. Len(s) + 1 /\ i + 1 \in 1 .. Len(s) + 1 /\ (i + 1) - 1 = i
      BY <1>1
    <3>2. t[i + 1] = s[i]
      BY <1>3, <3>1
    <3> QED
      BY <1>4, <3>1, <3>2 DEF Range
  <2> QED
    BY <1>1, <2>1, <2>2 DEF Range
<1> QED
  BY <1>1, <1>2, <1>3, <1>5, <1>6 DEF t

\* remove_child: the entries but one, each from a place of its own.
LEMMA RemoveFirstIs ==
  ASSUME NEW S, NEW s \in Seq(S), NEW n \in Range(s),
         \A i, j \in DOMAIN s : i # j => s[i] # s[j]
  PROVE  /\ RemoveFirst(s, n) \in Seq(S)
         /\ Range(RemoveFirst(s, n)) = Range(s) \ {n}
         /\ \A i \in DOMAIN RemoveFirst(s, n) : \E k \in DOMAIN s :
              /\ RemoveFirst(s, n)[i] = s[k]
              /\ \A j \in DOMAIN RemoveFirst(s, n) :
                   j # i => RemoveFirst(s, n)[j] # s[k]
<1> DEFINE I == {i \in 1 .. Len(s) : s[i] = n}
           k == SelectInSeq(s, LAMBDA v : v = n)
           r == RemoveAt(s, k)
<1>1. DOMAIN s = 1 .. Len(s) /\ Len(s) \in Nat
  OBVIOUS
<1>2. I # {} /\ I \in SUBSET Nat
  BY <1>1 DEF Range
<1>3. k = Min(I)
  BY <1>2 DEF SelectInSeq
<1>4. k \in 1 .. Len(s) /\ s[k] = n
  <2>1. k \in I
    <3> HIDE DEF I, k
    <3> QED
      BY <1>2, <1>3, LeastOf
  <2> HIDE DEF k
  <2> QED
    BY <2>1
<1>5. RemoveFirst(s, n) = r
  BY <1>4 DEF RemoveFirst
<1> HIDE DEF k, I
<1>6. /\ r \in Seq(S) /\ Len(r) = Len(s) - 1
      /\ \A i \in 1 .. k - 1 : r[i] = s[i]
      /\ \A i \in k .. Len(s) - 1 : r[i] = s[i + 1]
  BY <1>4, RemoveAtIs
<1> HIDE DEF r
<1> DEFINE At(i) == IF i < k THEN i ELSE i + 1
<1>7. ASSUME NEW i \in DOMAIN r PROVE At(i) \in DOMAIN s /\ At(i) # k /\ r[i] = s[At(i)] /\ i \in Int
  <2>1. i \in 1 .. Len(s) - 1 /\ k \in 1 .. Len(s)
    BY <1>4, <1>6
  <2>2. CASE i < k
    <3>1. i \in 1 .. k - 1
      BY <1>1, <2>1, <2>2
    <3> QED
      BY <1>1, <1>6, <2>1, <2>2, <3>1
  <2>3. CASE ~(i < k)
    <3>1. i \in k .. Len(s) - 1
      BY <1>1, <2>1, <2>3
    <3> QED
      BY <1>1, <1>6, <2>1, <2>3, <3>1
  <2> QED
    BY <2>2, <2>3
<1>8. ASSUME NEW i \in DOMAIN r, NEW j \in DOMAIN r, i # j PROVE At(i) # At(j)
  <2>1. i \in Int /\ j \in Int /\ k \in Int
    BY <1>4, <1>7
  <2> QED
    BY <1>8, <2>1
<1>9. ASSUME NEW i \in DOMAIN r
      PROVE  \E l \in DOMAIN s : r[i] = s[l] /\ \A j \in DOMAIN r : j # i => r[j] # s[l]
  <2>1. At(i) \in DOMAIN s /\ r[i] = s[At(i)]
    BY <1>7
  <2>2. ASSUME NEW j \in DOMAIN r, j # i PROVE r[j] # s[At(i)]
    <3>1. At(j) \in DOMAIN s /\ r[j] = s[At(j)]
      BY <1>7
    <3>2. At(j) # At(i)
      BY <1>8, <2>2
    <3> HIDE DEF At
    <3> QED
      BY <2>1, <3>1, <3>2
  <2> HIDE DEF At
  <2> QED
    BY <2>1, <2>2
<1>10. \A x \in Range(r) : x \in Range(s) \ {n}
  <2> SUFFICES ASSUME NEW i \in DOMAIN r PROVE r[i] \in Range(s) \ {n}
    BY DEF Range
  <2>1. At(i) \in DOMAIN s /\ At(i) # k /\ r[i] = s[At(i)]
    BY <1>7
  <2> HIDE DEF At
  <2> QED
    BY <1>1, <1>4, <2>1 DEF Range
<1>11. \A x \in Range(s) \ {n} : x \in Range(r)
  <2> SUFFICES ASSUME NEW l \in 1 .. Len(s), s[l] # n PROVE s[l] \in Range(r)
    BY <1>1 DEF Range
  <2>1. DOMAIN r = 1 .. Len(s) - 1 /\ l # k
    BY <1>1, <1>4, <1>6
  <2>2. CASE l < k
    <3>1. l \in 1 .. k - 1 /\ l \in 1 .. Len(s) - 1
      BY <1>1, <1>4, <2>2
    <3> QED
      BY <1>6, <2>1, <3>1 DEF Range
  <2>3. CASE l > k
    <3>1. l - 1 \in k .. Len(s) - 1 /\ l - 1 \in 1 .. Len(s) - 1 /\ (l - 1) + 1 = l
      BY <1>1, <1>4, <2>3
    <3>2. r[l - 1] = s[l]
      BY <1>6, <3>1
    <3> QED
      BY <2>1, <3>1, <3>2 DEF Range
  <2> QED
    BY <1>1, <1>4, <2>1, <2>2, <2>3
<1> QED
  BY <1>5, <1>6, <1>9, <1>10, <1>11

\* What an entry of a directory is, in a tree.
LEMMA EntryIs ==
  ASSUME TreeInv, NEW d \in allocated
  PROVE  /\ \A c \in Range(node[d].children) : c \in allocated /\ c # Root /\ node[c].parent = d
         /\ \A i \in DOMAIN node[d].children : node[d].children[i] \in Range(node[d].children)
         /\ \A i, j \in DOMAIN node[d].children :
              i # j => node[d].children[i] # node[d].children[j]
         /\ Range(node[d].children) # {} => IsDir(d)
<1>1. \A c \in Range(node[d].children) : c \in allocated /\ node[c].parent = d
  BY DEF TreeInv, TreeOK, ParentsAgree
<1>2. Root \notin Range(node[d].children)
  BY <1>1, NodeIs DEF TreeInv, TreeOK
<1>3. \A i \in DOMAIN node[d].children : node[d].children[i] \in Range(node[d].children)
  BY DEF Range
<1>4. \A i, j \in DOMAIN node[d].children :
        i # j => node[d].children[i] # node[d].children[j]
  BY DEF TreeInv, TreeOK, EntriesDiffer
<1>5. Range(node[d].children) # {} => IsDir(d)
  <2> SUFFICES ASSUME ~IsDir(d) PROVE Range(node[d].children) = {}
    OBVIOUS
  <2>1. d \in Node /\ node[d].type \in {"dir", "file"}
    BY NodeIs DEF NodeType
  <2>2. node[d].children = <<>>
    BY <2>1 DEF IsDir, IsFile, TreeInv, TreeOK, EntriesOrText
  <2> QED
    BY <2>2 DEF Range
<1> QED
  BY <1>1, <1>2, <1>3, <1>4, <1>5

\* ... as the other nodes see it.
Gained(n, d, name, type) ==
  /\ n \in Node /\ d \in Node /\ n # Root /\ n # cwd
  /\ \A m \in allocated : /\ m \in Node /\ m # n
                          /\ node'[m].name = node[m].name /\ node'[m].type = node[m].type
                          /\ node'[m].parent = node[m].parent
                          /\ node'[m].data = node[m].data
                          /\ m # d => node'[m].children = node[m].children
  /\ node'[d].children = <<n>> \o node[d].children
  /\ Range(node'[d].children) = Range(node[d].children) \cup {n}
  /\ n \notin Range(node[d].children)
  /\ node'[n].name = name /\ node'[n].type = type /\ node'[n].parent = d
  /\ node'[n].children = <<>> /\ node'[n].data = NULL

\* The effect of a new entry on the nodes there were.
LEMMA AddedIs ==
  ASSUME TreeInv, NEW n, NEW d, NEW name, NEW type, Added(n, d, name, type)
  PROVE  Gained(n, d, name, type)
<1>1. /\ n \in Node /\ d \in Node /\ n # Root /\ n # cwd /\ n \notin allocated
      /\ \A m \in allocated : m \in Node /\ m # n
  BY NodeIs DEF Added, TreeInv, TreeOK
<1>2. node[d] \in NodeType /\ node[d].children \in Seq(Node)
  BY <1>1, NodeIs
<1>3. /\ node'[d].name = node[d].name /\ node'[d].type = node[d].type
      /\ node'[d].parent = node[d].parent /\ node'[d].data = node[d].data
      /\ node'[d].children = <<n>> \o node[d].children
  BY <1>2 DEF Added, NodeType
<1>4. Range(<<n>> \o node[d].children) = Range(node[d].children) \cup {n}
  BY <1>1, <1>2, FrontIs
<1>5. n \notin Range(node[d].children)
  BY <1>1, EntryIs DEF Added
<1>6. \A m \in allocated : m # d => node'[m] = node[m]
  BY <1>1 DEF Added
<1>7. /\ node'[n].name = name /\ node'[n].type = type /\ node'[n].parent = d
      /\ node'[n].children = <<>> /\ node'[n].data = NULL
  BY DEF Added
<1> QED
  BY <1>1, <1>3, <1>4, <1>5, <1>6, <1>7 DEF Gained

\* mkdir and touch keep the tree a tree.
LEMMA AddedKeepsTree ==
  ASSUME TreeInv, NEW n, NEW d, NEW name, NEW type, Added(n, d, name, type)
  PROVE  TreeInv'
<1>0. Gained(n, d, name, type)
  BY AddedIs
<1>1. FSTypeOK'
  BY <1>0 DEF Gained, TreeInv, TreeOK, FSTypeOK, Added, NodeType
<1>2. ParentsAgree'
  <2> SUFFICES ASSUME NEW m \in allocated \cup {n}
               PROVE  /\ \A c \in Range(node'[m].children) : c \in allocated \cup {n} /\ node'[c].parent = m
                      /\ m # Root => /\ node'[m].parent \in allocated \cup {n}
                                     /\ m \in Range(node'[node'[m].parent].children)
    BY DEF ParentsAgree, Added
  <2>1. CASE m = n
    <3>1. Range(<<>>) = {}
      BY DEF Range
    <3> QED
      BY <2>1, <3>1, <1>0 DEF Gained, Added
  <2>2. CASE m \in allocated
    <3>1. \A c \in Range(node'[m].children) : c \in allocated \cup {n} /\ node'[c].parent = m
      <4>1. \A c \in Range(node[m].children) : c \in allocated /\ node[c].parent = m
        BY <2>2, EntryIs
      <4>2. CASE m = d
        BY <2>2, <4>1, <4>2, <1>0 DEF Gained
      <4>3. CASE m # d
        BY <2>2, <4>1, <4>3, <1>0 DEF Gained
      <4> QED
        BY <4>2, <4>3
    <3>2. ASSUME m # Root
          PROVE  node'[m].parent \in allocated \cup {n} /\ m \in Range(node'[node'[m].parent].children)
      <4>1. node[m].parent \in allocated /\ m \in Range(node[node[m].parent].children)
        BY <2>2, <3>2 DEF TreeInv, TreeOK, ParentsAgree
      <4>2. node'[m].parent = node[m].parent
        BY <2>2, <1>0 DEF Gained
      <4>3. Range(node[node[m].parent].children) \subseteq Range(node'[node[m].parent].children)
        BY <4>1, <1>0 DEF Gained
      <4> QED
        BY <4>1, <4>2, <4>3
    <3> QED
      BY <3>1, <3>2
  <2> QED
    BY <2>1, <2>2
<1>3. EntriesDiffer'
  <2> SUFFICES ASSUME NEW m \in allocated \cup {n}, NEW i \in DOMAIN node'[m].children,
                      NEW j \in DOMAIN node'[m].children, i # j
               PROVE  node'[node'[m].children[i]].name # node'[node'[m].children[j]].name
    BY DEF EntriesDiffer, Added
  <2>1. CASE m = n
    <3>1. DOMAIN node'[m].children = {}
      BY <2>1, <1>0 DEF Gained
    <3> QED
      BY <3>1
  <2>2. CASE m \in allocated /\ m # d
    <3>1. node'[m].children = node[m].children
      BY <2>2, <1>0 DEF Gained
    <3>2. node[m].children[i] \in allocated /\ node[m].children[j] \in allocated
      BY <2>2, <3>1, EntryIs
    <3>3. node[node[m].children[i]].name # node[node[m].children[j]].name
      BY <2>2, <3>1 DEF TreeInv, TreeOK, EntriesDiffer
    <3> QED
      BY <3>1, <3>2, <3>3, <1>0 DEF Gained
  <2>3. CASE m = d
    <3> DEFINE s == node[d].children
               t == <<n>> \o s
    <3>1. node'[d].children = t
      BY <1>0 DEF Gained
    <3>2. s \in Seq(Node) /\ DOMAIN s = 1 .. Len(s) /\ Len(s) \in Nat /\ d \in allocated
      BY <1>0, NodeIs DEF Gained, Added
    <3>3. /\ t \in Seq(Node) /\ Len(t) = Len(s) + 1 /\ t[1] = n
          /\ \A k \in 2 .. Len(s) + 1 : t[k] = s[k - 1]
      BY <3>2, <1>0, FrontIs DEF Gained
    <3>4. /\ \A k \in 1 .. Len(s) : s[k] \in allocated /\ node'[s[k]].name = node[s[k]].name
          /\ \A k \in 1 .. Len(s) : node[s[k]].name # name
          /\ \A k, l \in 1 .. Len(s) : k # l => node[s[k]].name # node[s[l]].name
      <4>1. \A k \in 1 .. Len(s) : s[k] \in Range(s) /\ s[k] \in allocated
        BY <3>2, EntryIs
      <4>2. \A k, l \in 1 .. Len(s) : k # l => node[s[k]].name # node[s[l]].name
        BY <3>2 DEF TreeInv, TreeOK, EntriesDiffer
      <4>3. \A k \in 1 .. Len(s) : node[s[k]].name # name
        BY <4>1 DEF Added
      <4>4. \A k \in 1 .. Len(s) : node'[s[k]].name = node[s[k]].name
        BY <4>1, <1>0 DEF Gained
      <4> QED
        BY <4>1, <4>2, <4>3, <4>4
    <3>5. node'[n].name = name
      BY <1>0 DEF Gained
    <3> HIDE DEF t, s
    <3>6. i \in 1 .. Len(s) + 1 /\ j \in 1 .. Len(s) + 1
      BY <2>3, <3>1, <3>2, <3>3
    <3>7. CASE i = 1
      <4>1. j \in 2 .. Len(s) + 1 /\ j - 1 \in 1 .. Len(s)
        BY <3>2, <3>6, <3>7
      <4> QED
        BY <2>3, <3>1, <3>3, <3>4, <3>5, <3>7, <4>1
    <3>8. CASE j = 1
      <4>1. i \in 2 .. Len(s) + 1 /\ i - 1 \in 1 .. Len(s)
        BY <3>2, <3>6, <3>8
      <4> QED
        BY <2>3, <3>1, <3>3, <3>4, <3>5, <3>8, <4>1
    <3>9. CASE i # 1 /\ j # 1
      <4>1. /\ i \in 2 .. Len(s) + 1 /\ i - 1 \in 1 .. Len(s)
            /\ j \in 2 .. Len(s) + 1 /\ j - 1 \in 1 .. Len(s) /\ i - 1 # j - 1
        BY <3>2, <3>6, <3>9
      <4> QED
        BY <2>3, <3>1, <3>3, <3>4, <4>1
    <3> QED
      BY <3>7, <3>8, <3>9
  <2> QED
    BY <2>1, <2>2, <2>3
<1>4. AllHangFromRoot'
  <2> SUFFICES ASSUME NEW S \in SUBSET ((allocated \cup {n}) \ {Root}), S # {}
               PROVE  \E m \in S : node'[m].parent \notin S
    BY DEF AllHangFromRoot, Added
  <2>1. CASE S \ {n} = {}
    <3>1. S = {n} /\ node'[n].parent = d /\ d # n
      BY <2>1, <1>0 DEF Gained, Added
    <3> QED
      BY <3>1
  <2>2. CASE S \ {n} # {}
    <3>1. S \ {n} \in SUBSET (allocated \ {Root})
      OBVIOUS
    <3>2. PICK m \in S \ {n} : node[m].parent \notin S \ {n}
      BY <2>2, <3>1 DEF TreeInv, TreeOK, AllHangFromRoot
    <3>3. m \in allocated /\ m # Root
      BY <3>1, <3>2
    <3>4. node[m].parent \in allocated
      BY <3>3 DEF TreeInv, TreeOK, ParentsAgree
    <3>5. node'[m].parent = node[m].parent /\ node[m].parent # n
      BY <3>3, <3>4, <1>0 DEF Gained
    <3> QED
      BY <3>2, <3>5
  <2> QED
    BY <2>1, <2>2
<1>5. /\ (Root \in allocated)' /\ (node[Root].parent = NULL)'
      /\ (cwd \in allocated)' /\ IsDir(cwd)'
  <2>1. Root \in allocated /\ cwd \in allocated /\ node[Root].parent = NULL /\ IsDir(cwd)
    BY DEF TreeInv, TreeOK
  <2> QED
    BY <2>1, <1>0 DEF Gained, Added, IsDir
<1>6. EntriesOrText'
  <2> SUFFICES ASSUME NEW m \in allocated \cup {n}
               PROVE  /\ node'[m].type = "dir" => node'[m].data = NULL
                      /\ node'[m].type = "file" => node'[m].children = <<>>
    BY DEF EntriesOrText, Added, IsDir, IsFile
  <2>1. CASE m = n
    BY <2>1, <1>0 DEF Gained
  <2>2. CASE m \in allocated
    <3>1. /\ node[m].type = "dir" => node[m].data = NULL
          /\ node[m].type = "file" => node[m].children = <<>>
      BY <2>2 DEF TreeInv, TreeOK, EntriesOrText, IsDir, IsFile
    <3>2. node[d].type = "dir"
      BY DEF Added, IsDir
    <3> QED
      BY <2>2, <3>1, <3>2, <1>0 DEF Gained
  <2> QED
    BY <2>1, <2>2
<1>7. (\A m \in Node \ allocated : node[m] = Blank)'
  <2>1. \A m \in Node \ (allocated \cup {n}) : node[m] = Blank /\ node'[m] = node[m]
    BY DEF TreeInv, Added
  <2>2. Blank' = Blank
    BY DEF Blank, create_vfs_node
  <2> QED
    BY <2>1, <2>2 DEF Added
<1>8. TreeOK'
  <2>1. /\ (Root \in allocated /\ node[Root].parent = NULL)'
        /\ (cwd \in allocated /\ IsDir(cwd))'
    BY <1>5
  <2> QED
    BY <1>1, <1>2, <1>3, <1>4, <1>6, <2>1, Zenon DEF TreeOK
<1> QED
  BY <1>7, <1>8 DEF TreeInv

\* ... as the nodes that remain see it.
Shrunk(n, d) ==
  /\ n \in Node /\ d \in Node /\ n # Root /\ n # cwd /\ n # d /\ d \in allocated
  /\ \A m \in allocated : m # n => /\ m \in Node
                                   /\ node'[m].name = node[m].name /\ node'[m].type = node[m].type
                                   /\ node'[m].parent = node[m].parent
                                   /\ node'[m].data = node[m].data
                                   /\ m # d => node'[m].children = node[m].children
  /\ node'[d].children = RemoveFirst(node[d].children, n)
  /\ Range(node'[d].children) = Range(node[d].children) \ {n}
  /\ \A i \in DOMAIN node'[d].children : \E k \in DOMAIN node[d].children :
       /\ node'[d].children[i] = node[d].children[k]
       /\ \A j \in DOMAIN node'[d].children : j # i => node'[d].children[j] # node[d].children[k]
  /\ n \in Range(node[d].children)
  /\ \A m \in allocated : node[m].parent # n /\ (n \in Range(node[m].children) => m = d)

\* The effect of a deletion on the nodes that remain.
LEMMA RemovedIs ==
  ASSUME TreeInv, NEW n, NEW d, Removed(n, d)
  PROVE  Shrunk(n, d)
<1>1. /\ n \in Node /\ d \in Node /\ n # Root /\ n # cwd /\ n # d /\ d \in allocated
      /\ n \in allocated /\ \A m \in allocated : m \in Node
  BY NodeIs DEF Removed
<1>2. node[d] \in NodeType /\ node[d].children \in Seq(Node)
  BY <1>1, NodeIs
<1> DEFINE r == RemoveFirst(node[d].children, n)
<1>3. /\ node'[d].name = node[d].name /\ node'[d].type = node[d].type
      /\ node'[d].parent = node[d].parent /\ node'[d].data = node[d].data
      /\ node'[d].children = r
  BY <1>2 DEF Removed, NodeType
<1>4. n \in Range(node[d].children)
  BY <1>1 DEF Removed, TreeInv, TreeOK, ParentsAgree
<1>5. \A i, j \in DOMAIN node[d].children : i # j => node[d].children[i] # node[d].children[j]
  BY <1>1, EntryIs
<1>6. /\ r \in Seq(Node) /\ Range(r) = Range(node[d].children) \ {n}
      /\ \A i \in DOMAIN r : \E k \in DOMAIN node[d].children :
           r[i] = node[d].children[k] /\ \A j \in DOMAIN r : j # i => r[j] # node[d].children[k]
  <2> DEFINE s == node[d].children
  <2>1. s \in Seq(Node) /\ n \in Range(s) /\ \A i, j \in DOMAIN s : i # j => s[i] # s[j]
    BY <1>2, <1>4, <1>5
  <2> HIDE DEF s
  <2>2. /\ RemoveFirst(s, n) \in Seq(Node)
        /\ Range(RemoveFirst(s, n)) = Range(s) \ {n}
        /\ \A i \in DOMAIN RemoveFirst(s, n) : \E k \in DOMAIN s :
             /\ RemoveFirst(s, n)[i] = s[k]
             /\ \A j \in DOMAIN RemoveFirst(s, n) :
                  j # i => RemoveFirst(s, n)[j] # s[k]
    BY <2>1, RemoveFirstIs
  <2> QED
    BY <2>2 DEF s
<1>7. \A m \in allocated : m # n /\ m # d => node'[m] = node[m]
  BY <1>1 DEF Removed
<1>8. ASSUME NEW m \in allocated PROVE node[m].parent # n
  <2>1. CASE m = Root
    BY <1>1, <2>1, NodeIs DEF TreeInv, TreeOK
  <2>2. CASE m # Root
    <3>1. m \in Range(node[node[m].parent].children)
      BY <2>2 DEF TreeInv, TreeOK, ParentsAgree
    <3>2. Range(node[n].children) = {}
      <4>1. Range(<<>>) = {}
        BY DEF Range
      <4> QED
        BY <4>1 DEF Removed
    <3> QED
      BY <3>1, <3>2
  <2> QED
    BY <2>1, <2>2
<1>9. \A m \in allocated : n \in Range(node[m].children) => m = d
  <2>1. d = node[n].parent
    BY DEF Removed
  <2> QED
    BY <2>1, EntryIs
<1> HIDE DEF r
<1> QED
  BY <1>1, <1>3, <1>4, <1>6, <1>7, <1>8, <1>9 DEF Shrunk, r

\* rm keeps the tree a tree.
LEMMA RemovedKeepsTree ==
  ASSUME TreeInv, NEW n, NEW d, Removed(n, d)
  PROVE  TreeInv'
<1>0. Shrunk(n, d)
  BY RemovedIs
<1>1. FSTypeOK'
  BY DEF TreeInv, TreeOK, FSTypeOK, Removed, NodeType
<1>2. ParentsAgree'
  <2> SUFFICES ASSUME NEW m \in allocated, m # n
               PROVE  /\ \A c \in Range(node'[m].children) : c \in allocated /\ c # n /\ node'[c].parent = m
                      /\ m # Root => /\ node'[m].parent \in allocated /\ node'[m].parent # n
                                     /\ m \in Range(node'[node'[m].parent].children)
    BY DEF ParentsAgree, Removed
  <2>1. ASSUME NEW c \in Range(node'[m].children)
        PROVE  c \in allocated /\ c # n /\ node'[c].parent = m
    <3>1. c \in Range(node[m].children) /\ c # n
      BY <2>1, <1>0 DEF Shrunk
    <3>2. c \in allocated /\ node[c].parent = m
      BY <3>1, EntryIs
    <3> QED
      BY <1>0, <3>1, <3>2 DEF Shrunk
  <2>2. ASSUME m # Root
        PROVE  /\ node'[m].parent \in allocated /\ node'[m].parent # n
               /\ m \in Range(node'[node'[m].parent].children)
    <3>1. node[m].parent \in allocated /\ m \in Range(node[node[m].parent].children)
      BY <2>2 DEF TreeInv, TreeOK, ParentsAgree
    <3>2. node'[m].parent = node[m].parent /\ node[m].parent # n
      BY <1>0 DEF Shrunk
    <3>3. m \in Range(node'[node[m].parent].children)
      <4>1. CASE node[m].parent = d
        BY <1>0, <3>1, <4>1 DEF Shrunk
      <4>2. CASE node[m].parent # d
        BY <1>0, <3>1, <3>2, <4>2 DEF Shrunk
      <4> QED
        BY <4>1, <4>2
    <3> QED
      BY <3>1, <3>2, <3>3
  <2> QED
    BY <2>1, <2>2
<1>3. EntriesDiffer'
  <2> SUFFICES ASSUME NEW m \in allocated, m # n, NEW i \in DOMAIN node'[m].children,
                      NEW j \in DOMAIN node'[m].children, i # j
               PROVE  node'[node'[m].children[i]].name # node'[node'[m].children[j]].name
    BY DEF EntriesDiffer, Removed
  <2>1. PICK k \in DOMAIN node[m].children, l \in DOMAIN node[m].children :
          /\ k # l /\ node'[m].children[i] = node[m].children[k]
          /\ node'[m].children[j] = node[m].children[l]
          /\ node[m].children[k] # n /\ node[m].children[l] # n
    <3>1. CASE m = d
      <4>1. PICK k \in DOMAIN node[d].children : 
              /\ node'[d].children[i] = node[d].children[k]
              /\ \A x \in DOMAIN node'[d].children : x # i => node'[d].children[x] # node[d].children[k]
        BY <1>0, <3>1 DEF Shrunk
      <4>2. PICK l \in DOMAIN node[d].children : node'[d].children[j] = node[d].children[l]
        BY <1>0, <3>1 DEF Shrunk
      <4>3. node'[d].children[i] \in Range(node'[d].children)
            /\ node'[d].children[j] \in Range(node'[d].children)
        BY <3>1 DEF Range
      <4>4. node'[d].children[i] # n /\ node'[d].children[j] # n
        BY <1>0, <4>3 DEF Shrunk
      <4>5. k # l
        BY <3>1, <4>1, <4>2
      <4> QED
        BY <3>1, <4>1, <4>2, <4>4, <4>5
    <3>2. CASE m # d
      <4>1. node'[m].children = node[m].children /\ n \notin Range(node[m].children)
        BY <1>0, <3>2 DEF Shrunk
      <4>2. node[m].children[i] # n /\ node[m].children[j] # n
        BY <4>1 DEF Range
      <4> QED
        BY <4>1, <4>2
    <3> QED
      BY <3>1, <3>2
  <2>2. node[m].children[k] \in allocated /\ node[m].children[l] \in allocated
    BY <2>1, EntryIs
  <2>3. node[node[m].children[k]].name # node[node[m].children[l]].name
    BY <2>1 DEF TreeInv, TreeOK, EntriesDiffer
  <2>4. /\ node'[node[m].children[k]].name = node[node[m].children[k]].name
        /\ node'[node[m].children[l]].name = node[node[m].children[l]].name
    BY <1>0, <2>1, <2>2 DEF Shrunk
  <2> QED
    BY <2>1, <2>3, <2>4
<1>4. AllHangFromRoot'
  <2> SUFFICES ASSUME NEW S \in SUBSET ((allocated \ {n}) \ {Root}), S # {}
               PROVE  \E m \in S : node'[m].parent \notin S
    BY DEF AllHangFromRoot, Removed
  <2>1. S \in SUBSET (allocated \ {Root})
    OBVIOUS
  <2>2. PICK m \in S : node[m].parent \notin S
    BY <2>1 DEF TreeInv, TreeOK, AllHangFromRoot
  <2>3. node'[m].parent = node[m].parent
    BY <1>0, <2>1 DEF Shrunk
  <2> QED
    BY <2>2, <2>3
<1>5. (Root \in allocated /\ node[Root].parent = NULL)' /\ (cwd \in allocated /\ IsDir(cwd))'
  <2>1. Root \in allocated /\ cwd \in allocated /\ node[Root].parent = NULL /\ IsDir(cwd)
    BY DEF TreeInv, TreeOK
  <2> QED
    BY <1>0, <2>1 DEF Shrunk, Removed, IsDir
<1>6. EntriesOrText'
  <2> SUFFICES ASSUME NEW m \in allocated, m # n
               PROVE  /\ node'[m].type = "dir" => node'[m].data = NULL
                      /\ node'[m].type = "file" => node'[m].children = <<>>
    BY DEF EntriesOrText, Removed, IsDir, IsFile
  <2>1. /\ node[m].type = "dir" => node[m].data = NULL
        /\ node[m].type = "file" => node[m].children = <<>>
    BY DEF TreeInv, TreeOK, EntriesOrText, IsDir, IsFile
  <2>2. node[d].type = "dir"
    <3>1. Range(node[d].children) # {} /\ d \in allocated
      BY <1>0 DEF Shrunk
    <3>2. IsDir(d)
      BY <3>1, EntryIs
    <3> QED
      BY <3>2 DEF IsDir
  <2> QED
    BY <1>0, <2>1, <2>2 DEF Shrunk
<1>7. (\A m \in Node \ allocated : node[m] = Blank)'
  <2>1. \A m \in Node \ allocated : node[m] = Blank
    BY DEF TreeInv
  <2>2. Blank' = Blank
    BY DEF Blank, create_vfs_node
  <2>3. \A m \in Node \ allocated : node'[m] = Blank
    BY <2>1, NodeIs DEF Removed
  <2>4. node'[n] = Blank
    BY DEF Removed
  <2> QED
    BY <2>2, <2>3, <2>4 DEF Removed
<1>8. TreeOK'
  BY <1>1, <1>2, <1>3, <1>4, <1>5, <1>6, Zenon DEF TreeOK
<1> QED
  BY <1>7, <1>8 DEF TreeInv

\* A save keeps the tree a tree.
LEMMA WrittenKeepsTree ==
  ASSUME TreeInv, NEW n, NEW text, Written(n, text)
  PROVE  TreeInv'
<1>1. /\ n \in allocated /\ n \in Node /\ node[n] \in NodeType /\ text \in Content \cup {NULL}
      /\ allocated' = allocated /\ cwd' = cwd /\ node[n].type = "file"
      /\ node' = [node EXCEPT ![n].data = text]
      /\ node \in [Node -> NodeType] /\ allocated \subseteq Node
  BY NodeIs DEF Written, IsFile
<1>2. [node[n] EXCEPT !.data = text] \in NodeType
  BY <1>1 DEF NodeType
<1>3. node' = [node EXCEPT ![n] = [node[n] EXCEPT !.data = text]]
  BY <1>1
<1>4. node' \in [Node -> NodeType]
  BY <1>1, <1>2, <1>3
<1>5. \A m \in Node : /\ node'[m].name = node[m].name /\ node'[m].type = node[m].type
                      /\ node'[m].parent = node[m].parent
                      /\ node'[m].children = node[m].children
                      /\ m # n => node'[m] = node[m]
  <2> SUFFICES ASSUME NEW m \in Node
               PROVE  /\ node'[m].name = node[m].name /\ node'[m].type = node[m].type
                      /\ node'[m].parent = node[m].parent
                      /\ node'[m].children = node[m].children
                      /\ m # n => node'[m] = node[m]
    OBVIOUS
  <2>1. CASE m # n
    BY <1>1, <1>3, <2>1
  <2>2. CASE m = n
    <3>1. node'[n] = [node[n] EXCEPT !.data = text]
      BY <1>1, <1>3
    <3> QED
      BY <1>1, <2>2, <3>1 DEF NodeType
  <2> QED
    BY <2>1, <2>2
<1>6. FSTypeOK'
  BY <1>1, <1>4 DEF TreeInv, TreeOK, FSTypeOK, NodeType
<1>7. ParentsAgree'
  <2> SUFFICES ASSUME NEW m \in allocated
               PROVE  /\ \A c \in Range(node'[m].children) : c \in allocated /\ node'[c].parent = m
                      /\ m # Root => /\ node'[m].parent \in allocated
                                     /\ m \in Range(node'[node'[m].parent].children)
    BY <1>1 DEF ParentsAgree
  <2>1. /\ \A c \in Range(node[m].children) : c \in allocated /\ node[c].parent = m
        /\ m # Root => /\ node[m].parent \in allocated
                       /\ m \in Range(node[node[m].parent].children)
    BY DEF TreeInv, TreeOK, ParentsAgree
  <2> QED
    BY <1>1, <1>5, <2>1
<1>8. EntriesDiffer'
  <2> SUFFICES ASSUME NEW m \in allocated, NEW i \in DOMAIN node'[m].children,
                      NEW j \in DOMAIN node'[m].children, i # j
               PROVE  node'[node'[m].children[i]].name # node'[node'[m].children[j]].name
    BY <1>1 DEF EntriesDiffer
  <2>1. node'[m].children = node[m].children
    BY <1>1, <1>5
  <2>2. node[m].children[i] \in Node /\ node[m].children[j] \in Node
    BY <1>1, <2>1, EntryIs
  <2>3. node[node[m].children[i]].name # node[node[m].children[j]].name
    BY <2>1 DEF TreeInv, TreeOK, EntriesDiffer
  <2> QED
    BY <1>5, <2>1, <2>2, <2>3
<1>9. AllHangFromRoot'
  <2> SUFFICES ASSUME NEW S \in SUBSET (allocated \ {Root}), S # {}
               PROVE  \E m \in S : node'[m].parent \notin S
    BY <1>1 DEF AllHangFromRoot
  <2>1. PICK m \in S : node[m].parent \notin S
    BY DEF TreeInv, TreeOK, AllHangFromRoot
  <2> QED
    BY <1>1, <1>5, <2>1
<1>10. (Root \in allocated /\ node[Root].parent = NULL)' /\ (cwd \in allocated /\ IsDir(cwd))'
  <2>1. Root \in allocated /\ cwd \in allocated /\ node[Root].parent = NULL /\ IsDir(cwd)
    BY DEF TreeInv, TreeOK
  <2> QED
    BY <1>1, <1>5, <2>1 DEF IsDir
<1>11. EntriesOrText'
  <2> SUFFICES ASSUME NEW m \in allocated
               PROVE  /\ node'[m].type = "dir" => node'[m].data = NULL
                      /\ node'[m].type = "file" => node'[m].children = <<>>
    BY <1>1 DEF EntriesOrText, IsDir, IsFile
  <2>1. /\ node[m].type = "dir" => node[m].data = NULL
        /\ node[m].type = "file" => node[m].children = <<>>
    BY DEF TreeInv, TreeOK, EntriesOrText, IsDir, IsFile
  <2> QED
    BY <1>1, <1>5, <2>1
<1>12. (\A m \in Node \ allocated : node[m] = Blank)'
  <2>1. \A m \in Node \ allocated : node[m] = Blank
    BY DEF TreeInv
  <2>2. Blank' = Blank
    BY DEF Blank, create_vfs_node
  <2> QED
    BY <1>1, <1>5, <2>1, <2>2
<1>13. TreeOK'
  BY <1>6, <1>7, <1>8, <1>9, <1>10, <1>11, Zenon DEF TreeOK
<1> QED
  BY <1>12, <1>13 DEF TreeInv

\* ramfs_create and add_child.
LEMMA CreateAdds ==
  ASSUME TreeInv, NEW p \in Path, NEW type \in {"dir", "file"}, CreateRefused(p) = "no",
         NEW n \in Node \ allocated,
         allocated' = allocated \cup {n}, cwd' = cwd,
         node' = [node EXCEPT
           ![n] = [create_vfs_node(Last(p.comps), type) EXCEPT !.parent = Directory(p)],
           ![Directory(p)].children = <<n>> \o @]
  PROVE  Added(n, Directory(p), Last(p.comps), type)
<1> DEFINE d == Directory(p)
           name == Last(p.comps)
           new == [create_vfs_node(name, type) EXCEPT !.parent = d]
           old == [node[d] EXCEPT !.children = <<n>> \o node[d].children]
<1>1. /\ d \in allocated /\ IsDir(d) /\ name \in Component
      /\ \A c \in Range(node[d].children) : node[c].name # name
  BY NothingRefused
<1>2. /\ node \in [Node -> NodeType] /\ d \in Node /\ node[d] \in NodeType
      /\ node[d].children \in Seq(Node)
  BY <1>1, NodeIs
<1>3. node' = [node EXCEPT ![n] = new, ![d].children = <<n>> \o @]
  OBVIOUS
<1> HIDE DEF d, name
<1>4. d # n
  BY <1>1
<1>5. node' = [node EXCEPT ![n] = new, ![d] = old]
  BY <1>3, <1>4
<1>6. new = [name |-> name, type |-> type, parent |-> d, children |-> <<>>, data |-> NULL]
  BY DEF create_vfs_node
<1>7. new \in NodeType
  <2>1. <<>> \in Seq(Node)
    OBVIOUS
  <2> QED
    BY <1>1, <1>2, <1>6, <2>1 DEF NodeType
<1>8. old \in NodeType
  <2> DEFINE s == node[d].children
             t == <<n>> \o s
  <2>1. t \in Seq(Node)
    <3>1. s \in Seq(Node) /\ n \in Node
      BY <1>2
    <3> HIDE DEF s
    <3> QED
      BY <3>1
  <2> HIDE DEF t
  <2>2. [node[d] EXCEPT !.children = t] \in NodeType
    BY <1>2, <2>1 DEF NodeType
  <2> QED
    BY <2>2 DEF t
<1> HIDE DEF new, old
<1>9. /\ node'[n] = new /\ node'[d] = old /\ \A m \in Node \ {n, d} : node'[m] = node[m]
      /\ node' \in [Node -> NodeType]
  BY <1>2, <1>4, <1>5, <1>7, <1>8
<1>10. Added(n, d, name, type)
  BY <1>1, <1>4, <1>6, <1>9 DEF Added, old
<1> QED
  BY <1>10 DEF d, name

\* ramfs_delete and remove_child.
LEMMA DeleteRemoves ==
  ASSUME TreeInv, ~MayRemoveCwd, NEW n \in allocated, DeleteRefused(n) = "no", ramfs_delete(n)
  PROVE  Removed(n, node[n].parent)
<1> DEFINE d == node[n].parent
           old == [node[d] EXCEPT !.children = RemoveFirst(node[d].children, n)]
<1>1. n # Root /\ ~(IsDir(n) /\ node[n].children # <<>>)
  BY DEF DeleteRefused
<1>2. n \in Node /\ node[n].type \in {"dir", "file"} /\ node \in [Node -> NodeType]
  BY NodeIs DEF NodeType
<1>3. node[n].children = <<>>
  BY <1>1, <1>2 DEF TreeInv, TreeOK, EntriesOrText, IsDir, IsFile
<1>4. d \in allocated /\ n \in Range(node[d].children)
  BY <1>1 DEF TreeInv, TreeOK, ParentsAgree
<1>5. d # n
  <2>1. Range(<<>>) = {}
    BY DEF Range
  <2> QED
    BY <1>3, <1>4, <2>1
<1>6. node[d] \in NodeType /\ d \in Node /\ node[d].children \in Seq(Node)
  BY <1>4, NodeIs
<1>7. node' = [node EXCEPT ![d].children = RemoveFirst(@, n), ![n] = Blank]
      /\ allocated' = allocated \ {n} /\ cwd' = cwd /\ n # cwd
  BY DEF ramfs_delete
<1> HIDE DEF d
<1>8. node' = [node EXCEPT ![d] = old, ![n] = Blank]
  BY <1>5, <1>7
<1>9. old \in NodeType
  <2> DEFINE s == node[d].children
             r == RemoveFirst(s, n)
  <2>1. \A i, j \in DOMAIN s : i # j => s[i] # s[j]
    BY <1>4, EntryIs
  <2>2. s \in Seq(Node) /\ n \in Range(s)
    BY <1>4, <1>6
  <2>3. r \in Seq(Node)
    <3> HIDE DEF s
    <3> QED
      BY <2>1, <2>2, RemoveFirstIs
  <2> HIDE DEF r
  <2>4. [node[d] EXCEPT !.children = r] \in NodeType
    BY <1>6, <2>3 DEF NodeType
  <2> QED
    BY <2>4 DEF r
<1>10. Blank \in NodeType
  BY DEF Blank, create_vfs_node, NodeType
<1> HIDE DEF old
<1>11. /\ node'[d] = old /\ node'[n] = Blank /\ \A m \in Node \ {n, d} : node'[m] = node[m]
       /\ node' \in [Node -> NodeType]
  BY <1>2, <1>5, <1>6, <1>8, <1>9, <1>10
<1>12. Removed(n, d)
  BY <1>1, <1>3, <1>4, <1>5, <1>7, <1>11 DEF Removed, old, d
<1> QED
  BY <1>12 DEF d

\* The tree at the start.
LEMMA TreeInitially == FSInit => TreeInv
<1> SUFFICES ASSUME FSInit PROVE TreeInv
  OBVIOUS
<1>1. /\ Root \in Node /\ allocated = {Root} /\ cwd = Root /\ node = [n \in Node |-> Blank]
      /\ node[Root] = Blank
  BY FSAssumption DEF FSInit
<1>2. /\ Blank.type = "dir" /\ Blank.parent = NULL /\ Blank.children = <<>> /\ Blank.data = NULL
      /\ Blank \in NodeType
  BY DEF Blank, create_vfs_node, NodeType
<1>3. Range(<<>>) = {} /\ DOMAIN <<>> = {}
  BY DEF Range
<1>4. FSTypeOK
  BY <1>1, <1>2 DEF FSTypeOK, NodeType
<1>5. ParentsAgree /\ EntriesDiffer
  BY <1>1, <1>2, <1>3 DEF ParentsAgree, EntriesDiffer
<1>6. AllHangFromRoot
  BY <1>1 DEF AllHangFromRoot
<1>7. EntriesOrText
  BY <1>1, <1>2 DEF EntriesOrText
<1>8. IsDir(cwd) /\ node[Root].parent = NULL
  BY <1>1, <1>2 DEF IsDir
<1>9. \A n \in Node \ allocated : node[n] = Blank
  BY <1>1
<1> QED
  BY <1>1, <1>4, <1>5, <1>6, <1>7, <1>8, <1>9 DEF TreeInv, TreeOK

\* No command and a command that changes nothing, and cd.
LEMMA StaysTree ==
  ASSUME TreeInv, node' = node, allocated' = allocated,
         cwd' = cwd \/ (cwd' \in allocated /\ IsDir(cwd'))
  PROVE  TreeInv'
<1>1. (cwd \in allocated /\ IsDir(cwd))'
  BY DEF TreeInv, TreeOK, IsDir
<1>2. FSTypeOK'
  BY <1>1, NodeIs DEF TreeInv, TreeOK, FSTypeOK
<1>3. ParentsAgree' /\ EntriesDiffer' /\ AllHangFromRoot' /\ EntriesOrText'
  BY DEF TreeInv, TreeOK, ParentsAgree, EntriesDiffer, AllHangFromRoot, EntriesOrText, IsDir, IsFile
<1>4. (Root \in allocated /\ node[Root].parent = NULL)'
  BY DEF TreeInv, TreeOK
<1>5. (\A m \in Node \ allocated : node[m] = Blank)'
  BY DEF TreeInv, Blank, create_vfs_node
<1>6. TreeOK'
  BY <1>1, <1>2, <1>3, <1>4, Zenon DEF TreeOK
<1> QED
  BY <1>5, <1>6 DEF TreeInv

\* mkdir and touch.
LEMMA CreateKeepsTree ==
  ASSUME TreeInv, NEW p \in Path, NEW type \in {"dir", "file"}, Create(p, type)
  PROVE  TreeInv'
<1>1. CASE node' = node /\ allocated' = allocated /\ cwd' = cwd
  BY <1>1, StaysTree
<1>2. CASE \E n \in Node \ allocated :
             Added(n, Directory(p), Last(p.comps), type)
  BY <1>2, AddedKeepsTree
<1>3. \/ node' = node /\ allocated' = allocated /\ cwd' = cwd
      \/ \E n \in Node \ allocated : Added(n, Directory(p), Last(p.comps), type)
  <2>1. CASE CreateRefused(p) # "no" /\ Says(<<CreateRefused(p)>>)
    BY <2>1 DEF Says
  <2>2. CASE CreateRefused(p) = "no" /\ Says(<<"failed">>)
    BY <2>2 DEF Says
  <2>3. ASSUME CreateRefused(p) = "no", NEW n \in Node \ allocated,
               allocated' = allocated \cup {n}, cwd' = cwd,
               node' = [node EXCEPT
                 ![n] = [create_vfs_node(Last(p.comps), type) EXCEPT !.parent = Directory(p)],
                 ![Directory(p)].children = <<n>> \o @]
        PROVE  Added(n, Directory(p), Last(p.comps), type)
    BY <2>3, CreateAdds
  <2> QED
    BY <2>1, <2>2, <2>3 DEF Create
<1> QED
  BY <1>1, <1>2, <1>3

\* Every command keeps the tree a tree.
LEMMA TreeInvStep ==
  ASSUME TreeInv, ~MayRemoveCwd, [FSNext]_fsVars
  PROVE  TreeInv'
<1>1. CASE UNCHANGED fsVars
  BY <1>1, StaysTree DEF fsVars
<1>2. CASE \E p \in Path : cmd_mkdir(p) \/ cmd_touch(p)
  BY <1>2, CreateKeepsTree DEF cmd_mkdir, cmd_touch
<1>3. ASSUME NEW p \in Path, cmd_rm(p) PROVE TreeInv'
  <2>1. CASE UNCHANGED <<node, allocated, cwd>>
    BY <2>1, StaysTree
  <2>2. CASE /\ ramfs_resolve(p) # NULL /\ DeleteRefused(ramfs_resolve(p)) = "no"
             /\ ramfs_delete(ramfs_resolve(p))
    <3> DEFINE n == ramfs_resolve(p)
    <3>1. n \in allocated
      BY <2>2, ResolveIs
    <3>2. Removed(n, node[n].parent)
      <4> HIDE DEF n
      <4> QED
        BY <2>2, <3>1, DeleteRemoves DEF n
    <3> QED
      BY <3>2, RemovedKeepsTree
  <2> QED
    BY <1>3, <2>1, <2>2 DEF cmd_rm, Says
<1>4. ASSUME NEW p \in Path, cmd_cd(p) PROVE TreeInv'
  <2>1. CASE UNCHANGED <<node, allocated, cwd>>
    BY <2>1, StaysTree
  <2>2. CASE /\ ramfs_resolve(p) # NULL /\ IsDir(ramfs_resolve(p)) /\ cwd' = ramfs_resolve(p)
             /\ UNCHANGED <<node, allocated>>
    <3>1. cwd' \in allocated /\ IsDir(cwd')
      BY <2>2, ResolveIs
    <3> QED
      BY <2>2, <3>1, StaysTree
  <2> QED
    BY <1>4, <2>1, <2>2 DEF cmd_cd, Says
<1>5. CASE \E p \in Path : cmd_ls(p) \/ cmd_cat(p) \/ Open(p)
  BY <1>5, StaysTree DEF cmd_ls, cmd_cat, Open, Says
<1>6. ASSUME NEW p \in Path, NEW text \in Content \cup {NULL}, Save(p, text) PROVE TreeInv'
  <2> DEFINE n == ramfs_resolve(p)
  <2>1. CASE UNCHANGED <<node, allocated, cwd>>
    BY <2>1, StaysTree
  <2>2. ASSUME NEW t \in {NULL, text}, node' = [node EXCEPT ![n].data = t],
               UNCHANGED <<allocated, cwd>>
        PROVE  TreeInv'
    <3>1. n \in allocated /\ IsFile(n)
      BY <1>6, ResolveIs DEF Save
    <3> HIDE DEF n
    <3>2. Written(n, t)
      BY <2>2, <3>1 DEF Written
    <3> QED
      BY <3>2, WrittenKeepsTree
  <2> QED
    BY <1>6, <2>1, <2>2 DEF Save, Says
<1>7. CASE cmd_pwd
  BY <1>7, StaysTree DEF cmd_pwd, Says
<1> QED
  BY <1>1, <1>2, <1>3, <1>4, <1>5, <1>6, <1>7, Zenon DEF FSNext

\* Whatever is created, removed and written, and memory fails, the nodes form one
\* tree with every allocated node in it (ramfs.c:130-217), as long as nobody
\* removes the directory they are in.
THEOREM TreeStays ==
  ASSUME ~MayRemoveCwd
  PROVE  FSSpec => []TreeOK
<1>1. FSInit => TreeInv
  BY TreeInitially
<1>2. TreeInv /\ [FSNext]_fsVars => TreeInv'
  BY TreeInvStep
<1>3. TreeInv => TreeOK
  BY DEF TreeInv
<1> QED
  BY <1>1, <1>2, <1>3, PTL DEF FSSpec
-----------------------------------------------------------------------------
(* The file system: the path of every node.                                *)

Name == Component \cup {""}

\* Induction down the tree, for a predicate given as the set where it holds.
LEMMA FromRoot ==
  ASSUME TreeInv, NEW Good, Root \in Good,
         \A n \in allocated \ {Root} : node[n].parent \in Good => n \in Good
  PROVE  \A n \in allocated : n \in Good
<1> DEFINE S == {n \in allocated : n \notin Good}
<1> SUFFICES ASSUME S # {} PROVE FALSE
  OBVIOUS
<1>1. S \in SUBSET (allocated \ {Root})
  OBVIOUS
<1>2. PICK n \in S : node[n].parent \notin S
  BY <1>1 DEF TreeInv, TreeOK, AllHangFromRoot
<1>3. n \in allocated \ {Root} /\ node[n].parent \in allocated
  BY <1>1, <1>2 DEF TreeInv, TreeOK, ParentsAgree
<1>4. node[n].parent \in Good
  BY <1>2, <1>3
<1> QED
  BY <1>2, <1>3, <1>4

\* The parent of a node of the tree.
LEMMA ParentIs ==
  ASSUME TreeInv
  PROVE  /\ Root \in allocated /\ Root \in Node /\ node[Root].parent = NULL
         /\ \A n \in allocated \ {Root} :
              /\ n \in Node /\ node[n].parent \in allocated /\ node[n].parent \in Node
              /\ node[n].parent # NULL /\ node[n].name \in Name
              /\ n \in Range(node[node[n].parent].children) /\ IsDir(node[n].parent)
         /\ \A n \in Node \ allocated : node[n].parent = NULL
<1>1. Root \in allocated /\ Root \in Node /\ node[Root].parent = NULL
  BY NodeIs DEF TreeInv, TreeOK
<1>2. ASSUME NEW n \in allocated \ {Root}
      PROVE  /\ n \in Node /\ node[n].parent \in allocated /\ node[n].parent \in Node
             /\ node[n].parent # NULL /\ node[n].name \in Name
             /\ n \in Range(node[node[n].parent].children) /\ IsDir(node[n].parent)
  <2>1. node[n].parent \in allocated /\ n \in Range(node[node[n].parent].children)
    BY DEF TreeInv, TreeOK, ParentsAgree
  <2>2. n \in Node /\ node[n].parent \in Node /\ node[n].parent # NULL /\ node[n] \in NodeType
    BY <2>1, NodeIs
  <2>3. IsDir(node[n].parent)
    BY <2>1, EntryIs
  <2> QED
    BY <2>1, <2>2, <2>3 DEF NodeType, Name
<1>3. \A n \in Node \ allocated : node[n].parent = NULL
  <2>1. Blank.parent = NULL
    BY DEF Blank, create_vfs_node
  <2> QED
    BY <2>1 DEF TreeInv
<1> QED
  BY <1>1, <1>2, <1>3

\* The paths of the nodes in A, which with a node holds its parent.
Way(g, A) ==
  /\ A \in SUBSET allocated /\ g \in [A -> Seq(Name)]
  /\ \A n \in A : /\ n # Root => node[n].parent \in A
                  /\ g[n] = IF n = Root THEN <<>> ELSE Append(g[node[n].parent], node[n].name)

HasWay(n) == \E A, g : n \in A /\ Way(g, A)

\* The function print_path stands for.
PathsOf(g) ==
  g = [n \in Node |-> IF node[n].parent = NULL THEN <<>>
                      ELSE Append(g[node[n].parent], node[n].name)]

\* Every node has a way to the root.
LEMMA WayExists ==
  ASSUME TreeInv
  PROVE  \A n \in allocated : HasWay(n)
<1> DEFINE Good == {n \in allocated : HasWay(n)}
<1>1. Root \in Good
  <2> DEFINE A == {Root}
             g == [m \in A |-> <<>>]
  <2>1. Root \in allocated /\ A \in SUBSET allocated
    BY ParentIs
  <2>2. <<>> \in Seq(Name)
    OBVIOUS
  <2>3. g \in [A -> Seq(Name)] /\ Root \in A /\ g[Root] = <<>> /\ \A m \in A : m = Root
    BY <2>2
  <2> HIDE DEF g, A
  <2>4. Way(g, A)
    BY <2>1, <2>3 DEF Way
  <2> QED
    BY <2>1, <2>3, <2>4 DEF HasWay
<1>2. ASSUME NEW n \in allocated \ {Root}, node[n].parent \in Good PROVE n \in Good
  <2> DEFINE d == node[n].parent
  <2>0. d = node[n].parent
    OBVIOUS
  <2> HIDE DEF d
  <2>1. PICK A, g : d \in A /\ Way(g, A)
    <3>1. HasWay(d)
      BY <1>2, <2>0
    <3> QED
      BY <3>1, Zenon DEF HasWay
  <2>2. d \in A /\ g[d] \in Seq(Name) /\ node[n].name \in Name
    BY <2>0, <2>1, ParentIs DEF Way
  <2>3. Append(g[d], node[n].name) \in Seq(Name)
    BY <2>2, AppendProperties
  <2> DEFINE B == A \cup {n}
             h == [m \in B |-> IF m \in A THEN g[m] ELSE Append(g[d], node[n].name)]
  <2>4. B \in SUBSET allocated /\ h \in [B -> Seq(Name)] /\ n \in B
    BY <2>1, <2>3 DEF Way
  <2>5. \A m \in A : h[m] = g[m]
    OBVIOUS
  <2>6. n \notin A => h[n] = Append(g[d], node[n].name)
    OBVIOUS
  <2> HIDE DEF h, B
  <2>7. ASSUME NEW m \in B
        PROVE  /\ m # Root => node[m].parent \in B
               /\ h[m] = IF m = Root THEN <<>> ELSE Append(h[node[m].parent], node[m].name)
    <3>1. CASE m \in A
      <4>1. /\ m # Root => node[m].parent \in A
            /\ g[m] = IF m = Root THEN <<>> ELSE Append(g[node[m].parent], node[m].name)
        BY <2>1, <3>1 DEF Way
      <4>2. A \subseteq B
        BY DEF B
      <4> QED
        BY <2>5, <3>1, <4>1, <4>2
    <3>2. CASE m \notin A
      <4>1. m = n /\ d \in B
        BY <2>1, <3>2 DEF B
      <4> QED
        BY <2>0, <2>1, <2>5, <2>6, <3>2, <4>1
    <3> QED
      BY <3>1, <3>2
  <2>8. Way(h, B)
    BY <2>4, <2>7 DEF Way
  <2> QED
    BY <2>4, <2>8 DEF HasWay
<1> HIDE DEF Good
<1>3. \A n \in allocated : n \in Good
  BY <1>1, <1>2, FromRoot
<1> QED
  BY <1>3 DEF Good

\* Two ways agree where they meet.
LEMMA WaysAgree ==
  ASSUME TreeInv, NEW A, NEW g, NEW B, NEW h, Way(g, A), Way(h, B), NEW n \in A \cap B
  PROVE  g[n] = h[n]
<1> DEFINE Good == {m \in allocated : m \in A \cap B => g[m] = h[m]}
<1>1. Root \in Good
  BY ParentIs DEF Way
<1>2. ASSUME NEW m \in allocated \ {Root}, node[m].parent \in Good PROVE m \in Good
  BY <1>2 DEF Way
<1>3. \A m \in allocated : m \in Good
  <2> HIDE DEF Good
  <2> QED
    BY <1>1, <1>2, FromRoot
<1> QED
  BY <1>3 DEF Way

\* There is the function print_path stands for ...
LEMMA PathsExist ==
  ASSUME TreeInv
  PROVE  \E g : PathsOf(g)
<1> DEFINE Is(n, q) == \E A, g : n \in A /\ Way(g, A) /\ g[n] = q
           P == [n \in Node |-> IF n \in allocated THEN CHOOSE q \in Seq(Name) : Is(n, q) ELSE <<>>]
<1>1. ASSUME NEW A, NEW g, Way(g, A), NEW n \in A
      PROVE  P[n] = g[n]
  <2> DEFINE q == CHOOSE q \in Seq(Name) : Is(n, q)
  <2>1. g[n] \in Seq(Name) /\ Is(n, g[n]) /\ n \in Node /\ n \in allocated
    BY <1>1, NodeIs DEF Way
  <2>2. Is(n, q)
    <3> HIDE DEF Is
    <3> QED
      BY <2>1
  <2>3. P[n] = q
    BY <2>1
  <2> HIDE DEF q, P
  <2>4. PICK B, h : n \in B /\ Way(h, B) /\ h[n] = q
    BY <2>2
  <2>5. n \in A \cap B
    BY <2>4
  <2>6. g[n] = h[n]
    BY <1>1, <2>4, <2>5, WaysAgree
  <2> QED
    BY <2>3, <2>4, <2>6
<1>2. \A n \in Node \ allocated : P[n] = <<>>
  OBVIOUS
<1>3. P = [n \in Node |-> P[n]]
  OBVIOUS
<1> HIDE DEF P
<1>4. ASSUME NEW n \in Node
      PROVE  P[n] = IF node[n].parent = NULL THEN <<>>
                    ELSE Append(P[node[n].parent], node[n].name)
  <2>1. CASE n \notin allocated
    BY <1>2, <2>1, ParentIs
  <2>2. CASE n \in allocated
    <3>1. PICK A, g : n \in A /\ Way(g, A)
      BY <2>2, WayExists DEF HasWay
    <3>2. P[n] = g[n]
      BY <1>1, <3>1
    <3>3. CASE n = Root
      BY <3>1, <3>2, <3>3, ParentIs DEF Way
    <3>4. CASE n # Root
      <4>1. node[n].parent \in A /\ node[n].parent # NULL
        BY <2>2, <3>1, <3>4, ParentIs DEF Way
      <4>2. P[node[n].parent] = g[node[n].parent]
        BY <1>1, <3>1, <4>1
      <4> QED
        BY <3>1, <3>2, <3>4, <4>1, <4>2 DEF Way
    <3> QED
      BY <3>3, <3>4
  <2> QED
    BY <2>1, <2>2
<1>5. PathsOf(P)
  BY <1>3, <1>4 DEF PathsOf
<1> QED
  BY <1>5

\* ... and PathTo is one.
LEMMA PathToIsPaths ==
  ASSUME NEW g, PathsOf(g)
  PROVE  PathsOf(PathTo)
BY DEF PathTo, PathsOf

\* A sequence with one element more.
LEMMA AppendIs ==
  ASSUME NEW S, NEW s \in Seq(S), NEW x \in S, NEW t, t = Append(s, x)
  PROVE  t # <<>> /\ Front(t) = s /\ Last(t) = x
<1>1. /\ t \in Seq(S) /\ Len(t) = Len(s) + 1 /\ t[Len(t)] = x /\ Len(s) \in Nat
      /\ \A i \in 1 .. Len(s) : t[i] = s[i]
  BY AppendProperties
<1>2. t # <<>>
  <2>1. Len(<<>>) = 0
    OBVIOUS
  <2> QED
    BY <1>1, <2>1
<1>3. Front(t) = s
  <2>1. Front(t) = SubSeq(t, 1, Len(s))
    BY <1>1 DEF Front
  <2>2. SubSeq(t, 1, Len(s)) = SubSeq(Append(s, x), 1, Len(s))
    OBVIOUS
  <2>3. \A i \in 1 .. Len(s) : t[i] \in S
    BY <1>1
  <2>4. /\ SubSeq(t, 1, Len(s)) \in Seq(S)
        /\ Len(SubSeq(t, 1, Len(s))) = IF 1 <= Len(s) THEN Len(s) - 1 + 1 ELSE 0
        /\ \A i \in 1 .. Len(s) - 1 + 1 : SubSeq(t, 1, Len(s))[i] = t[1 + i - 1]
    BY <1>1, <2>3, SubSeqProperties
  <2>5. Len(SubSeq(t, 1, Len(s))) = Len(s) /\ \A i \in 1 .. Len(s) : SubSeq(t, 1, Len(s))[i] = s[i]
    BY <1>1, <2>4
  <2> DEFINE u == SubSeq(t, 1, Len(s))
  <2>6. u \in Seq(S) /\ Len(u) = Len(s) /\ \A i \in 1 .. Len(s) : u[i] = s[i]
    BY <2>4, <2>5
  <2> HIDE DEF u
  <2>7. u = s
    BY <2>6, SeqEqual
  <2> QED
    BY <2>1, <2>7 DEF u
<1> QED
  BY <1>1, <1>2, <1>3 DEF Last

\* The path of a node is its parent's and its name.
LEMMA PathToIs ==
  ASSUME TreeInv
  PROVE  /\ PathTo[Root] = <<>>
         /\ \A n \in allocated : PathTo[n] \in Seq(Name)
         /\ \A n \in allocated \ {Root} :
              /\ PathTo[n] = Append(PathTo[node[n].parent], node[n].name)
              /\ PathTo[n] # <<>>
              /\ Front(PathTo[n]) = PathTo[node[n].parent]
              /\ Last(PathTo[n]) = node[n].name
<1>1. PathsOf(PathTo)
  BY PathsExist, PathToIsPaths
<1>2. \A n \in Node : PathTo[n] = IF node[n].parent = NULL THEN <<>>
                                  ELSE Append(PathTo[node[n].parent], node[n].name)
  BY <1>1, Zenon DEF PathsOf
<1>3. PathTo[Root] = <<>>
  BY <1>2, ParentIs
<1>4. \A n \in allocated \ {Root} : PathTo[n] = Append(PathTo[node[n].parent], node[n].name)
  BY <1>2, ParentIs
<1> DEFINE Good == {n \in allocated : PathTo[n] \in Seq(Name)}
<1>5. Root \in Good
  <2>1. <<>> \in Seq(Name)
    OBVIOUS
  <2> QED
    BY <1>3, <2>1, ParentIs
<1>6. ASSUME NEW n \in allocated \ {Root}, node[n].parent \in Good PROVE n \in Good
  <2>1. PathTo[node[n].parent] \in Seq(Name) /\ node[n].name \in Name
    BY <1>6, ParentIs
  <2>2. Append(PathTo[node[n].parent], node[n].name) \in Seq(Name)
    BY <2>1, AppendProperties
  <2> QED
    BY <1>4, <2>2
<1>7. \A n \in allocated : n \in Good
  <2> HIDE DEF Good
  <2> QED
    BY <1>5, <1>6, FromRoot
<1>8. \A n \in allocated : PathTo[n] \in Seq(Name)
  BY <1>7
<1> HIDE DEF Good
<1>9. ASSUME NEW n \in allocated \ {Root}
      PROVE  /\ PathTo[n] # <<>> /\ Front(PathTo[n]) = PathTo[node[n].parent]
             /\ Last(PathTo[n]) = node[n].name
  <2> DEFINE s == PathTo[node[n].parent]
             t == PathTo[n]
  <2>1. s \in Seq(Name) /\ node[n].name \in Name /\ t = Append(s, node[n].name)
    BY <1>4, <1>8, ParentIs
  <2> HIDE DEF s, t
  <2>2. t # <<>> /\ Front(t) = s /\ Last(t) = node[n].name
    BY <2>1, AppendIs, ZenonT(30)
  <2> QED
    BY <2>2 DEF s, t
<1> QED
  BY <1>3, <1>4, <1>8, <1>9

\* Different nodes have different paths.
LEMMA PathsDiffer ==
  ASSUME TreeInv, NEW n \in allocated, NEW m \in allocated, PathTo[n] = PathTo[m]
  PROVE  n = m
<1> DEFINE Good == {x \in allocated : \A y \in allocated : PathTo[x] = PathTo[y] => x = y}
<1>1. Root \in Good
  BY PathToIs, ParentIs
<1>2. ASSUME NEW x \in allocated \ {Root}, node[x].parent \in Good PROVE x \in Good
  <2> SUFFICES ASSUME NEW y \in allocated, PathTo[x] = PathTo[y] PROVE x = y
    OBVIOUS
  <2>1. y # Root
    BY PathToIs
  <2>2. PathTo[node[x].parent] = PathTo[node[y].parent] /\ node[x].name = node[y].name
    BY <2>1, PathToIs
  <2>3. node[x].parent = node[y].parent
    BY <1>2, <2>1, <2>2, ParentIs
  <2> DEFINE d == node[x].parent
  <2>4. d \in allocated /\ x \in Range(node[d].children) /\ y \in Range(node[d].children)
    BY <2>1, <2>3, ParentIs
  <2> HIDE DEF d
  <2>5. PICK i \in DOMAIN node[d].children, j \in DOMAIN node[d].children :
          node[d].children[i] = x /\ node[d].children[j] = y
    BY <2>4 DEF Range
  <2>6. i # j => node[node[d].children[i]].name # node[node[d].children[j]].name
    BY <2>4 DEF TreeInv, TreeOK, EntriesDiffer
  <2> QED
    BY <2>2, <2>5, <2>6
<1>3. \A x \in allocated : x \in Good
  <2> HIDE DEF Good
  <2> QED
    BY <1>1, <1>2, FromRoot
<1> QED
  BY <1>3
-----------------------------------------------------------------------------
(* The file system: a map from paths to texts.                             *)

\* The entries by their paths.
Tree == [p \in {PathTo[n] : n \in allocated} |->
           LET n == CHOOSE m \in allocated : PathTo[m] = p
           IN  [type |-> node[n].type, text |-> node[n].data]]

Here == PathTo[cwd]

Entry(type, text) == [type |-> type, text |-> text]

\* What the map says of a node.
LEMMA TreeIs ==
  ASSUME TreeInv
  PROVE  /\ DOMAIN Tree = {PathTo[n] : n \in allocated}
         /\ \A n \in allocated : Tree[PathTo[n]] = Entry(node[n].type, node[n].data)
<1>1. DOMAIN Tree = {PathTo[n] : n \in allocated}
  BY DEF Tree
<1>2. ASSUME NEW n \in allocated
      PROVE  Tree[PathTo[n]] = Entry(node[n].type, node[n].data)
  <2> DEFINE m == CHOOSE m \in allocated : PathTo[m] = PathTo[n]
  <2>1. m = n
    <3>1. m \in allocated /\ PathTo[m] = PathTo[n]
      OBVIOUS
    <3> HIDE DEF m
    <3> QED
      BY <3>1, PathsDiffer
  <2>2. Tree[PathTo[n]] = [type |-> node[m].type, text |-> node[m].data]
    BY DEF Tree
  <2> QED
    BY <2>1, <2>2 DEF Entry
<1> QED
  BY <1>1, <1>2

\* What the map says of where a node's entries are.
LEMMA ChildIs ==
  ASSUME TreeInv, NEW n \in allocated, NEW name \in Name
  PROVE  /\ \A c \in Range(node[n].children) : PathTo[c] = Append(PathTo[n], node[c].name)
         /\ Append(PathTo[n], name) \in DOMAIN Tree <=>
              \E c \in Range(node[n].children) : node[c].name = name
<1>1. \A c \in Range(node[n].children) : PathTo[c] = Append(PathTo[n], node[c].name)
  BY EntryIs, PathToIs
<1>2. ASSUME NEW c \in Range(node[n].children), node[c].name = name
      PROVE  Append(PathTo[n], name) \in DOMAIN Tree
  <2>1. c \in allocated /\ PathTo[c] = Append(PathTo[n], name)
    BY <1>1, <1>2, EntryIs
  <2> QED
    BY <2>1, TreeIs
<1>3. ASSUME Append(PathTo[n], name) \in DOMAIN Tree
      PROVE  \E c \in Range(node[n].children) : node[c].name = name
  <2>1. PICK m \in allocated : PathTo[m] = Append(PathTo[n], name)
    BY <1>3, TreeIs
  <2> DEFINE s == PathTo[n]
             t == PathTo[m]
  <2>2. s \in Seq(Name) /\ t = Append(s, name)
    BY <2>1, PathToIs
  <2> HIDE DEF s, t
  <2>3. t # <<>> /\ Front(t) = s /\ Last(t) = name
    BY <2>2, AppendIs
  <2>4. m \in allocated \ {Root}
    BY <2>3, PathToIs DEF t
  <2>5. PathTo[node[m].parent] = PathTo[n] /\ node[m].name = name
    BY <2>3, <2>4, PathToIs DEF s, t
  <2>6. node[m].parent = n
    BY <2>4, <2>5, ParentIs, PathsDiffer
  <2> QED
    BY <2>4, <2>5, <2>6, ParentIs
<1> QED
  BY <1>1, <1>2, <1>3

\* One component of a path, by names.
Follow(place, comp) ==
  CASE place = {}                                  -> {}
    [] place # {} /\ comp \in {"", "."}            -> place
    [] place # {} /\ comp = ".."                   -> {IF n = <<>> THEN n ELSE Front(n) : n \in place}
    [] place # {} /\ comp \notin {"", ".", ".."}   -> {Append(n, comp) : n \in place} \cap DOMAIN Tree

\* How a fold takes the components of a path, by names.
FollowBy(g, base, seq) ==
  g = [s \in SUBSET DOMAIN seq |->
         IF s = {} THEN base ELSE Follow(g[s \ {Max(s)}], seq[Max(s)])]

FollowAll(base, seq) == FoldLeft(Follow, base, seq)

\* The library's fold is the value of such a function.
LEMMA FollowFold ==
  ASSUME NEW seq, NEW base, NEW it, FollowBy(it, base, seq)
  PROVE  \E g : FollowAll(base, seq) = g[DOMAIN seq] /\ FollowBy(g, base, seq)
BY DEF FoldLeft, MapThenFoldSet, FollowBy, FollowAll

\* The values on the way, one for each component that is taken.
LEMMA FollowTurns ==
  ASSUME NEW T, NEW base \in T, NEW S, NEW seq \in Seq(S),
         \A v \in T : \A i \in 1 .. Len(seq) : Follow(v, seq[i]) \in T
  PROVE  \E f \in [0 .. Len(seq) -> T] :
           /\ f[0] = base
           /\ \A n \in 1 .. Len(seq) : f[n] = Follow(f[n - 1], seq[n])
           /\ FollowAll(base, seq) = f[Len(seq)]
<1> DEFINE N == Len(seq)
           step == [x \in T \X (1 .. N) |-> Follow(x[1], seq[x[2]])]
<1>1. N \in Nat /\ DOMAIN seq = 1 .. N
  OBVIOUS
<1>2. step \in [T \X (1 .. N) -> T]
  OBVIOUS
<1> HIDE DEF N
<1>3. PICK it \in [SUBSET (1 .. N) -> T] : FoldsBy(it, N, base, step)
  <2> HIDE DEF step
  <2> QED
    BY <1>1, <1>2, FoldExists
<1>4. FollowBy(it, base, seq)
  <2>1. ASSUME NEW s \in SUBSET (1 .. N), s # {}
        PROVE  step[<<it[s \ {Max(s)}], Max(s)>>] = Follow(it[s \ {Max(s)}], seq[Max(s)])
    <3>1. Max(s) \in 1 .. N /\ s \ {Max(s)} \in SUBSET (1 .. N)
      BY <1>1, <2>1, LargestOf
    <3>2. <<it[s \ {Max(s)}], Max(s)>> \in T \X (1 .. N)
      BY <3>1
    <3> QED
      BY <3>2
  <2> HIDE DEF step
  <2> QED
    BY <1>1, <1>3, <2>1 DEF FoldsBy, FollowBy
<1>5. PICK g : FollowAll(base, seq) = g[DOMAIN seq] /\ FollowBy(g, base, seq)
  BY <1>4, FollowFold
<1> DEFINE f == [n \in 0 .. N |-> g[1 .. n]]
<1>6. f[0] = base
  BY <1>1, <1>5, FirstN DEF FollowBy
<1>7. ASSUME NEW n \in 1 .. N PROVE f[n] = Follow(f[n - 1], seq[n])
  <2>1. /\ 1 .. n \in SUBSET (1 .. N) /\ 1 .. n # {}
        /\ Max(1 .. n) = n /\ (1 .. n) \ {n} = 1 .. n - 1
    BY <1>1, FirstN
  <2>2. g[1 .. n] = Follow(g[1 .. n - 1], seq[n])
    BY <1>1, <1>5, <2>1 DEF FollowBy
  <2>3. f[n] = g[1 .. n] /\ f[n - 1] = g[1 .. n - 1]
    BY <1>1
  <2> QED
    BY <2>2, <2>3
<1>8. \A n \in 0 .. N : n \in {m \in 0 .. N : f[m] \in T}
  <2> DEFINE Good == {m \in 0 .. N : f[m] \in T}
  <2> HIDE DEF f
  <2>1. 0 \in Good
    BY <1>1, <1>6
  <2>2. ASSUME NEW n \in 0 .. N - 1, n \in Good PROVE n + 1 \in Good
    <3>1. n + 1 \in 1 .. N /\ (n + 1) - 1 = n /\ f[n] \in T
      BY <1>1, <2>2
    <3> QED
      BY <1>7, <3>1 DEF N
  <2> HIDE DEF Good
  <2>3. \A n \in 0 .. N : n \in Good
    BY <1>1, <2>1, <2>2, UpTo
  <2> QED
    BY <2>3 DEF Good
<1>9. f \in [0 .. N -> T]
  BY <1>8
<1>10. FollowAll(base, seq) = f[N]
  <2>1. f[N] = g[1 .. N]
    BY <1>1
  <2> QED
    BY <1>1, <1>5, <2>1
<1> HIDE DEF f
<1> QED
  BY <1>6, <1>7, <1>9, <1>10 DEF N

\* The place of a node.
At(n) == IF n = NULL THEN {} ELSE {PathTo[n]}

\* A component leads to the same by names and by pointers.
LEMMA FollowIs ==
  ASSUME TreeInv, NEW n \in allocated \cup {NULL}, NEW comp \in Name
  PROVE  Follow(At(n), comp) = At(Walk(n, comp))
<1>1. CASE n = NULL
  BY <1>1 DEF Follow, At, Walk
<1>2. CASE n # NULL /\ comp \in {"", "."}
  BY <1>2 DEF Follow, At, Walk
<1>3. CASE n # NULL /\ comp = ".."
  <2>1. At(n) # {} /\ comp \notin {"", "."} /\ At(n) = {PathTo[n]} /\ n \in allocated
    BY <1>3 DEF At
  <2>2. Follow(At(n), comp) = {IF PathTo[n] = <<>> THEN PathTo[n] ELSE Front(PathTo[n])}
    BY <1>3, <2>1 DEF Follow
  <2>3. CASE n = Root
    BY <1>3, <2>2, <2>3, ParentIs, PathToIs DEF Walk, At
  <2>4. CASE n # Root
    <3>1. Walk(n, comp) = node[n].parent /\ node[n].parent # NULL
      BY <1>3, <2>1, <2>4, ParentIs DEF Walk
    <3> QED
      BY <2>1, <2>2, <2>4, <3>1, PathToIs DEF At
  <2> QED
    BY <2>3, <2>4
<1>4. CASE n # NULL /\ comp \notin {"", ".", ".."}
  <2>1. At(n) # {} /\ At(n) = {PathTo[n]} /\ n \in allocated /\ n \in Node
    BY <1>4, NodeIs DEF At
  <2>2. Follow(At(n), comp) = {Append(PathTo[n], comp)} \cap DOMAIN Tree
    BY <1>4, <2>1 DEF Follow
  <2>3. Walk(n, comp) = ramfs_find(n, comp)
    BY <1>4 DEF Walk
  <2>4. NULL \notin Range(node[n].children)
    BY <2>1, NodeIs
  <2>5. CASE /\ ramfs_find(n, comp) = NULL
             /\ IsDir(n) => \A c \in Range(node[n].children) : node[c].name # comp
    <3>1. \A c \in Range(node[n].children) : node[c].name # comp
      BY <2>1, <2>5, EntryIs
    <3>2. Append(PathTo[n], comp) \notin DOMAIN Tree
      BY <2>1, <3>1, ChildIs
    <3> QED
      BY <2>2, <2>3, <2>5, <3>2 DEF At
  <2>6. CASE /\ ramfs_find(n, comp) \in Range(node[n].children)
             /\ node[ramfs_find(n, comp)].name = comp
    <3>1. PathTo[ramfs_find(n, comp)] = Append(PathTo[n], comp)
      BY <2>1, <2>6, ChildIs
    <3>2. Append(PathTo[n], comp) \in DOMAIN Tree
      BY <2>1, <2>6, ChildIs
    <3> QED
      BY <2>2, <2>3, <2>4, <2>6, <3>1, <3>2 DEF At
  <2> QED
    BY <2>1, <2>5, <2>6, FoundIs
<1> QED
  BY <1>1, <1>2, <1>3, <1>4, Zenon

\* Following names and resolving a path end at the same node.
LEMMA FollowedIs ==
  ASSUME TreeInv, NEW abs \in BOOLEAN, NEW comps \in Seq(Component)
  PROVE  FollowAll(At(Start(abs)), comps) = At(ramfs_resolve([abs |-> abs, comps |-> comps]))
<1> DEFINE N == Len(comps)
           T == {At(n) : n \in allocated \cup {NULL}}
           base == At(Start(abs))
<1>1. N \in Nat /\ \A i \in 1 .. N : comps[i] \in Name
  <2>1. \A i \in 1 .. Len(comps) : comps[i] \in Component
    OBVIOUS
  <2>2. Component \subseteq Name
    BY DEF Name
  <2> QED
    BY <2>1, <2>2
<1>2. base \in T
  BY DEF TreeInv, TreeOK, Start
<1>3. \A v \in T : \A i \in 1 .. N : Follow(v, comps[i]) \in T
  BY <1>1, FollowIs, WalkStays
<1>4. PICK f : /\ f \in [0 .. N -> allocated \cup {NULL}] /\ f[0] = Start(abs)
               /\ \A n \in 1 .. N : f[n] = Walk(f[n - 1], comps[n])
               /\ ramfs_resolve([abs |-> abs, comps |-> comps]) = f[N]
  BY ResolveTurns
<1> HIDE DEF T, base
<1>5. PICK g : /\ g[0] = base
               /\ \A n \in 1 .. N : g[n] = Follow(g[n - 1], comps[n])
               /\ FollowAll(base, comps) = g[N]
  <2>1. \E g \in [0 .. Len(comps) -> T] :
          /\ g[0] = base
          /\ \A n \in 1 .. Len(comps) : g[n] = Follow(g[n - 1], comps[n])
          /\ FollowAll(base, comps) = g[Len(comps)]
    BY <1>2, <1>3, FollowTurns, SMTT(60)
  <2> QED
    BY <2>1
<1> DEFINE Good == {n \in 0 .. N : g[n] = At(f[n])}
<1> HIDE DEF N
<1>6. 0 \in Good
  BY <1>1, <1>4, <1>5 DEF base
<1>7. ASSUME NEW n \in 0 .. N - 1, n \in Good PROVE n + 1 \in Good
  <2>1. n + 1 \in 1 .. N /\ (n + 1) - 1 = n /\ n \in 0 .. N /\ n + 1 \in 0 .. N
    BY <1>1
  <2>2. /\ f[n + 1] = Walk(f[n], comps[n + 1]) /\ g[n + 1] = Follow(g[n], comps[n + 1])
        /\ f[n] \in allocated \cup {NULL} /\ comps[n + 1] \in Name
    BY <1>1, <1>4, <1>5, <2>1
  <2>3. g[n] = At(f[n])
    BY <1>7
  <2>4. g[n + 1] = At(f[n + 1])
    BY <2>2, <2>3, FollowIs
  <2> QED
    BY <2>1, <2>4
<1>8. N \in Good
  <2> HIDE DEF Good
  <2>1. \A n \in 0 .. N : n \in Good
    BY <1>1, <1>6, <1>7, UpTo
  <2> QED
    BY <1>1, <2>1
<1> QED
  BY <1>4, <1>5, <1>8 DEF base

\* Files follows a path so.
LEMMA PlaceFollows ==
  /\ \A p : Files!Place(p) = FollowAll({IF p.abs THEN <<>> ELSE Here}, p.comps)
  /\ \A p \in Path : Files!Parent(p) = FollowAll({IF p.abs THEN <<>> ELSE Here}, Front(p.comps))
<1>1. \A p : Files!Place(p) = FollowAll({IF p.abs THEN <<>> ELSE Here}, p.comps)
  BY DEF Files!Place, Files!FoldLeft, Files!MapThenFoldSet, Files!Follow, Files!Max, Files!Front,
         FollowAll, FoldLeft, MapThenFoldSet, Follow, Max, Front, Here, Tree
<1>2. ASSUME NEW p \in Path
      PROVE  Files!Parent(p) = FollowAll({IF p.abs THEN <<>> ELSE Here}, Front(p.comps))
  <2>1. Files!Parent(p) = Files!Place([p EXCEPT !.comps = Front(@)])
    BY DEF Files!Parent, Files!Front, Front
  <2>2. [p EXCEPT !.comps = Front(@)] = [abs |-> p.abs, comps |-> Front(p.comps)]
    BY PathIs
  <2> DEFINE q == [abs |-> p.abs, comps |-> Front(p.comps)]
  <2>3. Files!Place(q) = FollowAll({IF q.abs THEN <<>> ELSE Here}, q.comps)
    BY <1>1
  <2> QED
    BY <2>1, <2>2, <2>3
<1> QED
  BY <1>1, <1>2

\* A path names the place of the node it leads to.
LEMMA PlaceOfPath ==
  ASSUME TreeInv, NEW p \in Path
  PROVE  /\ Files!Place(p) = At(ramfs_resolve(p))
         /\ Files!Parent(p) = At(Directory(p))
<1>1. /\ p = [abs |-> p.abs, comps |-> p.comps] /\ p.abs \in BOOLEAN /\ p.comps \in Seq(Component)
      /\ Front(p.comps) \in Seq(Component)
      /\ Directory(p) = ramfs_resolve([abs |-> p.abs, comps |-> Front(p.comps)])
  BY PathIs DEF Directory
<1>2. {IF p.abs THEN <<>> ELSE Here} = At(Start(p.abs))
  <2>1. Root # NULL /\ cwd # NULL
    BY NodeIs DEF TreeInv, TreeOK
  <2> QED
    BY <1>1, <2>1, PathToIs DEF At, Start, Here
<1>3. Files!Place(p) = FollowAll(At(Start(p.abs)), p.comps)
  BY <1>2, PlaceFollows
<1>4. Files!Parent(p) = FollowAll(At(Start(p.abs)), Front(p.comps))
  BY <1>2, PlaceFollows
<1> QED
  BY <1>1, <1>3, <1>4, FollowedIs

\* What ls lists.
LEMMA EntriesAre ==
  ASSUME TreeInv, NEW n \in allocated
  PROVE  Files!Entries(PathTo[n]) = {PathTo[c] : c \in Range(node[n].children)}
<1>1. Files!Entries(PathTo[n]) = {m \in DOMAIN Tree : m # <<>> /\ Front(m) = PathTo[n]}
  BY DEF Files!Entries, Files!Front, Front, Tree
<1>2. ASSUME NEW c \in Range(node[n].children)
      PROVE  PathTo[c] \in DOMAIN Tree /\ PathTo[c] # <<>> /\ Front(PathTo[c]) = PathTo[n]
  <2>1. c \in allocated \ {Root} /\ node[c].parent = n
    BY EntryIs
  <2> QED
    BY <2>1, PathToIs, TreeIs
<1>3. ASSUME NEW m \in allocated, PathTo[m] # <<>>, Front(PathTo[m]) = PathTo[n]
      PROVE  m \in Range(node[n].children)
  <2>1. m # Root
    BY <1>3, PathToIs
  <2>2. node[m].parent = n
    BY <1>3, <2>1, PathToIs, ParentIs, PathsDiffer
  <2> QED
    BY <2>1, <2>2, ParentIs
<1>4. DOMAIN Tree = {PathTo[m] : m \in allocated}
  BY TreeIs
<1> QED
  BY <1>1, <1>2, <1>3, <1>4
-----------------------------------------------------------------------------
(* The file system: the map after a command.                               *)

\* The paths and the map, node by node.
Mapped ==
  /\ PathTo[Root] = <<>>
  /\ \A n \in allocated \ {Root} : PathTo[n] = Append(PathTo[node[n].parent], node[n].name)
  /\ Tree = [q \in DOMAIN Tree |-> Tree[q]]
  /\ DOMAIN Tree = {PathTo[n] : n \in allocated}
  /\ \A n \in allocated : Tree[PathTo[n]] = Entry(node[n].type, node[n].data)

\* It is so now and after a command.
LEMMA MapIs == (TreeInv => Mapped) /\ (TreeInv' => Mapped')
<1>1. TreeInv => Mapped
  <2>1. Tree = [q \in DOMAIN Tree |-> Tree[q]]
    BY DEF Tree
  <2> QED
    BY <2>1, PathToIs, TreeIs DEF Mapped
<1> QED
  BY <1>1, PTL

\* A node that stays and keeps its name and its parent keeps its path.
LEMMA PathsStay ==
  ASSUME TreeInv, TreeInv',
         \A n \in allocated' : n \in allocated /\ n # Root =>
           /\ node'[n].parent = node[n].parent /\ node'[n].name = node[n].name
           /\ node[n].parent \in allocated'
  PROVE  \A n \in allocated : n \in allocated' => PathTo'[n] = PathTo[n]
<1> DEFINE Good == {n \in allocated : n \in allocated' => PathTo'[n] = PathTo[n]}
<1>1. /\ PathTo'[Root] = <<>>
      /\ \A n \in allocated' \ {Root} : PathTo'[n] = Append(PathTo'[node'[n].parent], node'[n].name)
  BY MapIs DEF Mapped
<1>2. Root \in Good
  BY <1>1, ParentIs, PathToIs
<1>3. ASSUME NEW n \in allocated \ {Root}, node[n].parent \in Good PROVE n \in Good
  <2> SUFFICES ASSUME n \in allocated' PROVE PathTo'[n] = PathTo[n]
    OBVIOUS
  <2>1. /\ node'[n].parent = node[n].parent /\ node'[n].name = node[n].name
        /\ node[n].parent \in allocated'
    OBVIOUS
  <2>2. PathTo'[node[n].parent] = PathTo[node[n].parent]
    BY <1>3, <2>1
  <2>3. PathTo[n] = Append(PathTo[node[n].parent], node[n].name)
    BY PathToIs
  <2> QED
    BY <1>1, <2>1, <2>2, <2>3, SMTT(30)
<1>4. \A n \in allocated : n \in Good
  <2> HIDE DEF Good
  <2> QED
    BY <1>2, <1>3, FromRoot
<1> QED
  BY <1>4

Same == Tree' = Tree /\ Here' = Here

\* A command that changes no node changes nothing of the map; cd goes elsewhere in it.
LEMMA NodesStay ==
  ASSUME node' = node, allocated' = allocated
  PROVE  Tree' = Tree /\ PathTo' = PathTo /\ Here' = PathTo[cwd']
BY DEF Tree, PathTo, Here

\* What a command does to the map: an entry more, one less, one with another text.
MapGains(new, entry) ==
  /\ Here' = Here
  /\ Tree' = [q \in DOMAIN Tree \cup {new} |-> IF q = new THEN entry ELSE Tree[q]]

MapLoses(old) ==
  /\ Here' = Here
  /\ Tree' = [q \in DOMAIN Tree \ {old} |-> Tree[q]]

MapSets(at, entry) ==
  /\ Here' = Here
  /\ Tree' = [Tree EXCEPT ![at] = entry]

\* mkdir and touch add an entry.
LEMMA AddedMaps ==
  ASSUME TreeInv, NEW n, NEW d, NEW name, NEW type, Added(n, d, name, type)
  PROVE  MapGains(Append(PathTo[d], name), Entry(type, NULL))
<1> DEFINE new == Append(PathTo[d], name)
<1>1. Gained(n, d, name, type) /\ TreeInv'
  BY AddedIs, AddedKeepsTree
<1>2. Mapped /\ Mapped'
  BY <1>1, MapIs
<1>3. allocated' = allocated \cup {n} /\ d \in allocated /\ n \notin allocated /\ cwd' = cwd
  BY DEF Added
<1>4. \A m \in allocated : PathTo'[m] = PathTo[m]
  <2>1. \A m \in allocated' : m \in allocated /\ m # Root =>
           /\ node'[m].parent = node[m].parent /\ node'[m].name = node[m].name
           /\ node[m].parent \in allocated'
    BY <1>1, <1>3, ParentIs DEF Gained
  <2> QED
    BY <1>1, <1>3, <2>1, PathsStay
<1>5. PathTo'[n] = new
  BY <1>1, <1>2, <1>3, <1>4 DEF Mapped, Gained
<1>6. Here' = Here
  BY <1>3, <1>4 DEF Here, TreeInv, TreeOK
<1>7. \A m \in allocated : PathTo[m] # new
  <2>1. name \in Name /\ \A c \in Range(node[d].children) : node[c].name # name
    BY DEF Added, Name
  <2>2. new \notin DOMAIN Tree
    BY <1>3, <2>1, ChildIs
  <2> QED
    BY <1>2, <2>2 DEF Mapped
<1>8. DOMAIN Tree' = DOMAIN Tree \cup {new}
  <2>1. DOMAIN Tree' = {PathTo'[m] : m \in allocated'} /\ DOMAIN Tree = {PathTo[m] : m \in allocated}
    BY <1>2 DEF Mapped
  <2> HIDE DEF new
  <2> QED
    BY <1>3, <1>4, <1>5, <2>1
<1>9. ASSUME NEW q \in DOMAIN Tree \cup {new}
      PROVE  Tree'[q] = IF q = new THEN Entry(type, NULL) ELSE Tree[q]
  <2> HIDE DEF new
  <2>1. CASE q = new
    BY <1>1, <1>2, <1>3, <1>5, <2>1 DEF Mapped, Gained
  <2>2. CASE q # new
    <3>1. PICK m \in allocated : q = PathTo[m]
      BY <1>2, <2>2 DEF Mapped
    <3>2. Tree'[PathTo'[m]] = Entry(node'[m].type, node'[m].data)
      BY <1>2, <1>3 DEF Mapped
    <3>3. Tree[PathTo[m]] = Entry(node[m].type, node[m].data)
      BY <1>2 DEF Mapped
    <3>4. node'[m].type = node[m].type /\ node'[m].data = node[m].data
      BY <1>1 DEF Gained
    <3> QED
      BY <1>4, <2>2, <3>1, <3>2, <3>3, <3>4
  <2> QED
    BY <2>1, <2>2
<1>10. Tree' = [q \in DOMAIN Tree' |-> Tree'[q]]
  BY <1>2 DEF Mapped
<1> HIDE DEF new
<1>11. Tree' = [q \in DOMAIN Tree \cup {new} |-> IF q = new THEN Entry(type, NULL) ELSE Tree[q]]
  BY <1>8, <1>9, <1>10
<1> QED
  BY <1>6, <1>11 DEF MapGains, new

\* rm takes one away.
LEMMA RemovedMaps ==
  ASSUME TreeInv, NEW n, NEW d, Removed(n, d)
  PROVE  MapLoses(PathTo[n])
<1> DEFINE old == PathTo[n]
<1>1. Shrunk(n, d) /\ TreeInv'
  BY RemovedIs, RemovedKeepsTree
<1>2. Mapped /\ Mapped'
  BY <1>1, MapIs
<1>3. allocated' = allocated \ {n} /\ n \in allocated /\ cwd' = cwd /\ n # cwd
  BY DEF Removed
<1>4. \A m \in allocated \ {n} : PathTo'[m] = PathTo[m]
  <2>1. \A m \in allocated' : m \in allocated /\ m # Root =>
           /\ node'[m].parent = node[m].parent /\ node'[m].name = node[m].name
           /\ node[m].parent \in allocated'
    BY <1>1, <1>3, ParentIs DEF Shrunk
  <2> QED
    BY <1>1, <1>3, <2>1, PathsStay
<1>5. Here' = Here
  BY <1>3, <1>4 DEF Here, TreeInv, TreeOK
<1>6. \A m \in allocated \ {n} : PathTo[m] # old
  BY <1>3, PathsDiffer
<1>7. DOMAIN Tree' = DOMAIN Tree \ {old}
  <2>1. DOMAIN Tree' = {PathTo'[m] : m \in allocated'} /\ DOMAIN Tree = {PathTo[m] : m \in allocated}
    BY <1>2 DEF Mapped
  <2>2. DOMAIN Tree' = {PathTo[m] : m \in allocated \ {n}}
    BY <1>3, <1>4, <2>1
  <2> QED
    BY <1>3, <1>6, <2>1, <2>2
<1>8. ASSUME NEW q \in DOMAIN Tree \ {old} PROVE Tree'[q] = Tree[q]
  <2>1. PICK m \in allocated \ {n} : q = PathTo[m]
    BY <1>2 DEF Mapped
  <2>2. Tree'[PathTo'[m]] = Entry(node'[m].type, node'[m].data)
    BY <1>2, <1>3 DEF Mapped
  <2>3. Tree[PathTo[m]] = Entry(node[m].type, node[m].data)
    BY <1>2 DEF Mapped
  <2>4. node'[m].type = node[m].type /\ node'[m].data = node[m].data
    BY <1>1 DEF Shrunk
  <2> QED
    BY <1>4, <2>1, <2>2, <2>3, <2>4
<1>9. Tree' = [q \in DOMAIN Tree' |-> Tree'[q]]
  BY <1>2 DEF Mapped
<1> HIDE DEF old
<1>10. Tree' = [q \in DOMAIN Tree \ {old} |-> Tree[q]]
  BY <1>7, <1>8, <1>9
<1> QED
  BY <1>5, <1>10 DEF MapLoses, old

\* A save changes a text.
LEMMA WrittenMaps ==
  ASSUME TreeInv, NEW n, NEW text, Written(n, text)
  PROVE  MapSets(PathTo[n], Entry("file", text))
<1> DEFINE at == PathTo[n]
<1>1. TreeInv' /\ n \in allocated /\ allocated' = allocated /\ cwd' = cwd
  BY WrittenKeepsTree DEF Written
<1>2. Mapped /\ Mapped'
  BY <1>1, MapIs
<1>3. /\ \A m \in allocated : m # n => node'[m] = node[m]
      /\ node'[n].name = node[n].name /\ node'[n].parent = node[n].parent
      /\ node'[n].type = "file" /\ node'[n].data = text
  <2>1. n \in Node /\ node \in [Node -> NodeType] /\ \A m \in allocated : m \in Node
    BY <1>1, NodeIs
  <2>2. node[n] \in NodeType /\ node[n].type = "file"
    BY <2>1 DEF Written, IsFile
  <2>3. node' = [node EXCEPT ![n].data = text]
    BY DEF Written
  <2>4. node'[n] = [node[n] EXCEPT !.data = text]
    BY <2>1, <2>3
  <2>5. /\ node'[n].name = node[n].name /\ node'[n].parent = node[n].parent
        /\ node'[n].type = "file" /\ node'[n].data = text
    BY <2>2, <2>4 DEF NodeType
  <2>6. \A m \in allocated : m # n => node'[m] = node[m]
    BY <2>1, <2>3
  <2> QED
    BY <2>5, <2>6
<1>4. \A m \in allocated : PathTo'[m] = PathTo[m]
  <2>1. \A m \in allocated' : m \in allocated /\ m # Root =>
           /\ node'[m].parent = node[m].parent /\ node'[m].name = node[m].name
           /\ node[m].parent \in allocated'
    BY <1>1, <1>3, ParentIs
  <2> QED
    BY <1>1, <2>1, PathsStay
<1>5. Here' = Here
  BY <1>1, <1>4 DEF Here, TreeInv, TreeOK
<1>6. DOMAIN Tree' = DOMAIN Tree
  <2>1. DOMAIN Tree' = {PathTo'[m] : m \in allocated'} /\ DOMAIN Tree = {PathTo[m] : m \in allocated}
    BY <1>2 DEF Mapped
  <2> QED
    BY <1>1, <1>4, <2>1
<1>7. ASSUME NEW q \in DOMAIN Tree PROVE Tree'[q] = IF q = at THEN Entry("file", text) ELSE Tree[q]
  <2>1. PICK m \in allocated : q = PathTo[m]
    BY <1>2 DEF Mapped
  <2>2. Tree'[PathTo'[m]] = Entry(node'[m].type, node'[m].data)
    BY <1>1, <1>2 DEF Mapped
  <2>3. Tree[PathTo[m]] = Entry(node[m].type, node[m].data)
    BY <1>2 DEF Mapped
  <2>4. q = at <=> m = n
    BY <1>1, <2>1, PathsDiffer
  <2>5. PathTo'[m] = q
    BY <1>4, <2>1
  <2> HIDE DEF at
  <2> QED
    BY <1>3, <2>1, <2>2, <2>3, <2>4, <2>5
<1>8. Tree' = [q \in DOMAIN Tree' |-> Tree'[q]] /\ Tree = [q \in DOMAIN Tree |-> Tree[q]]
  BY <1>2 DEF Mapped
<1> HIDE DEF at
<1>9. Tree' = [Tree EXCEPT ![at] = Entry("file", text)]
  BY <1>6, <1>7, <1>8
<1> QED
  BY <1>5, <1>9 DEF MapSets, at
-----------------------------------------------------------------------------
(* The file system: every command is a command of Files.                   *)

\* How a command of Files can end where its path leads to n.
LEMMA FilesAt ==
  ASSUME NEW p, NEW n, Files!Place(p) = {n}
  PROVE  /\ Tree[n].type # "dir" /\ Same /\ ret' = <<"not a directory">> =>
              Files!Enter(p) /\ Files!List(p)
         /\ n = <<>> /\ Same /\ ret' = <<"failed">> => Files!Delete(p)
         /\ n # <<>> /\ Files!Entries(n) # {} /\ Same /\ ret' = <<"not empty">> => Files!Delete(p)
         /\ n # <<>> /\ Files!Entries(n) = {} /\ MapLoses(n) /\ ret' = <<"ok">> => Files!Delete(p)
         /\ /\ Tree[n] = Entry("dir", NULL) /\ Tree' = Tree /\ Here' = n /\ ret' = <<"ok">>
            => Files!Enter(p)
         /\ /\ Tree[n] = Entry("dir", NULL) /\ Same
            /\ ret' = <<"list", {<<Last(m), Tree[m].type>> : m \in Files!Entries(n)}>>
            => Files!List(p)
         /\ Tree[n] = Entry("dir", NULL) /\ Same /\ ret' = <<"not a file">> => Files!Show(p)
         /\ Tree[n].type # "dir" /\ Same /\ ret' = <<"failed">> =>
              Files!Show(p) /\ \A text : Files!Edit(p, text)
         /\ Tree[n].type # "dir" /\ Same /\ ret' = <<"text", Tree[n].text>> => Files!Show(p)
         /\ Tree[n] = Entry("dir", NULL) /\ Same /\ ret' = <<"could not open">> =>
              \A text : Files!Edit(p, text)
         /\ \A text : /\ Tree[n].type # "dir" /\ ret' = <<"ok">>
                      /\ MapSets(n, Entry("file", text))
                      => Files!Edit(p, text)
         /\ \A text : /\ Tree[n].type # "dir" /\ ret' = <<"failed">> /\ text # NULL
                      /\ MapSets(n, Entry("file", NULL))
                      => Files!Edit(p, text)
<1>1. Files!Dir = Entry("dir", NULL) /\ \A text : Files!File(text) = Entry("file", text)
  BY DEF Files!Dir, Files!File, Entry
<1>2. Entry("dir", NULL).type = "dir"
  BY DEF Entry
<1> QED
  BY <1>1, <1>2 DEF Files!Enter, Files!List, Files!Delete, Files!Show, Files!Edit, Files!NotDir, Files!Answer, Files!Done, Tree, Here, Same, Files!Last, Last,
         MapLoses, MapSets

\* How a command of Files can end where its path leads nowhere.
LEMMA FilesNowhere ==
  ASSUME NEW p, Files!Place(p) = {}, Same
  PROVE  /\ ret' = <<"not found">> =>
              Files!Delete(p) /\ Files!Enter(p) /\ Files!List(p) /\ Files!Show(p)
         /\ ret' = <<"could not open">> => \A text : Files!Edit(p, text)
BY DEF Files!Delete, Files!Enter, Files!List, Files!Show, Files!Edit, Files!Missing, Files!Answer, Files!Done, Tree, Here, Same

\* How mkdir and touch of Files can end.
LEMMA FilesCreate ==
  ASSUME NEW p, NEW entry
  PROVE  /\ Files!Parent(p) = {} /\ Same /\ ret' = <<"not found">> => Files!Create(p, entry)
         /\ \A d : Files!Parent(p) = {d} =>
              /\ Tree[d].type # "dir" /\ Same /\ ret' = <<"not a directory">> => Files!Create(p, entry)
              /\ /\ Last(p.comps) = "" /\ Tree[d] = Entry("dir", NULL) /\ Same
                 /\ ret' = <<"missing name">>
                 => Files!Create(p, entry)
              /\ Append(d, Last(p.comps)) \in DOMAIN Tree /\ Same /\ ret' = <<"exists">> =>
                   Files!Create(p, entry)
              /\ /\ Tree[d] = Entry("dir", NULL) /\ Last(p.comps) # ""
                 /\ Append(d, Last(p.comps)) \notin DOMAIN Tree
                 => /\ Same /\ ret' = <<"failed">> => Files!Create(p, entry)
                    /\ MapGains(Append(d, Last(p.comps)), entry) /\ ret' = <<"ok">> =>
                         Files!Create(p, entry)
<1>1. Files!Dir = Entry("dir", NULL)
  BY DEF Files!Dir, Entry
<1>2. Entry("dir", NULL).type = "dir"
  BY DEF Entry
<1>3. Files!Last(p.comps) = Last(p.comps)
  BY DEF Files!Last, Last
<1>4. Files!Parent(p) = {} /\ Same /\ ret' = <<"not found">> => Files!Create(p, entry)
  BY DEF Files!Create, Files!Answer, Tree, Here, Same
<1> SUFFICES ASSUME NEW d, Files!Parent(p) = {d}
             PROVE  /\ Tree[d].type # "dir" /\ Same /\ ret' = <<"not a directory">> => Files!Create(p, entry)
                    /\ /\ Last(p.comps) = "" /\ Tree[d] = Entry("dir", NULL) /\ Same
                       /\ ret' = <<"missing name">>
                       => Files!Create(p, entry)
                    /\ Append(d, Last(p.comps)) \in DOMAIN Tree /\ Same /\ ret' = <<"exists">> =>
                         Files!Create(p, entry)
                    /\ /\ Tree[d] = Entry("dir", NULL) /\ Last(p.comps) # ""
                       /\ Append(d, Last(p.comps)) \notin DOMAIN Tree
                       => /\ Same /\ ret' = <<"failed">> => Files!Create(p, entry)
                          /\ MapGains(Append(d, Last(p.comps)), entry) /\ ret' = <<"ok">> =>
                               Files!Create(p, entry)
  BY <1>4
<1>5. Tree[d].type # "dir" /\ Same /\ ret' = <<"not a directory">> => Files!Create(p, entry)
  BY <1>1, <1>2 DEF Files!Create, Files!Answer, Tree, Here, Same
<1>6. /\ Last(p.comps) = "" /\ Tree[d] = Entry("dir", NULL) /\ Same
      /\ ret' = <<"missing name">>
      => Files!Create(p, entry)
  BY <1>1, <1>3 DEF Files!Create, Files!Answer, Tree, Here, Same
<1>7. Append(d, Last(p.comps)) \in DOMAIN Tree /\ Same /\ ret' = <<"exists">> => Files!Create(p, entry)
  BY <1>3 DEF Files!Create, Files!Answer, Tree, Here, Same
<1>8. /\ Tree[d] = Entry("dir", NULL) /\ Last(p.comps) # ""
      /\ Append(d, Last(p.comps)) \notin DOMAIN Tree
      => Files!NewIn(d, p)
  BY <1>1, <1>3 DEF Files!NewIn, Tree
<1>9. Files!NewIn(d, p) /\ Same /\ ret' = <<"failed">> => Files!Create(p, entry)
  BY DEF Files!Create, Files!Answer, Tree, Here, Same
<1>10. Files!NewIn(d, p) /\ MapGains(Append(d, Last(p.comps)), entry) /\ ret' = <<"ok">> =>
         Files!Create(p, entry)
  <2> DEFINE new == Append(d, Last(p.comps))
  <2>1. Files!With(new, entry) = [q \in DOMAIN Tree \cup {new} |-> IF q = new THEN entry ELSE Tree[q]]
    BY DEF Files!With, Tree
  <2> SUFFICES ASSUME Files!NewIn(d, p), Here' = Here, ret' = <<"ok">>,
                      Tree' = Files!With(new, entry)
               PROVE  Files!Create(p, entry)
    BY <2>1 DEF MapGains
  <2>2. Append(d, Files!Last(p.comps)) = new
    BY <1>3
  <2> HIDE DEF new
  <2>3. d \in Files!Parent(p) /\ Files!Done
    BY DEF Files!Done
  <2> QED
    BY <2>2, <2>3 DEF Files!Create, Tree, Here
<1> QED
  BY <1>5, <1>6, <1>7, <1>8, <1>9, <1>10

\* What the map says of a node, told by type.
LEMMA NodeAt ==
  ASSUME TreeInv, NEW n \in allocated
  PROVE  /\ IsDir(n) => Tree[PathTo[n]] = Entry("dir", NULL)
         /\ IsFile(n) => Tree[PathTo[n]] = Entry("file", node[n].data)
         /\ ~IsDir(n) <=> IsFile(n)
         /\ ~IsDir(n) => Tree[PathTo[n]].type # "dir"
         /\ Tree[PathTo[n]].text = node[n].data
         /\ n = Root <=> PathTo[n] = <<>>
         /\ Files!Entries(PathTo[n]) = {} <=> node[n].children = <<>>
         /\ n # NULL
<1>1. n \in Node /\ node[n].type \in {"dir", "file"} /\ node[n].children \in Seq(Node) /\ n # NULL
  BY NodeIs DEF NodeType
<1>2. Tree[PathTo[n]] = Entry(node[n].type, node[n].data)
  BY TreeIs
<1>3. IsDir(n) => node[n].data = NULL
  BY DEF TreeInv, TreeOK, EntriesOrText
<1>4. n = Root <=> PathTo[n] = <<>>
  BY PathToIs
<1>5. Files!Entries(PathTo[n]) = {} <=> node[n].children = <<>>
  <2>1. Files!Entries(PathTo[n]) = {PathTo[c] : c \in Range(node[n].children)}
    BY EntriesAre
  <2>2. Range(node[n].children) = {} <=> node[n].children = <<>>
    <3> DEFINE s == node[n].children
    <3>1. s \in Seq(Node)
      BY <1>1
    <3> HIDE DEF s
    <3>2. s = <<>> => Range(s) = {}
      BY DEF Range
    <3>3. ASSUME s # <<>> PROVE Range(s) # {}
      <4>1. 1 \in DOMAIN s
        BY <3>1, <3>3
      <4> QED
        BY <4>1 DEF Range
    <3> QED
      BY <3>2, <3>3 DEF s
  <2> QED
    BY <2>1, <2>2
<1> QED
  BY <1>1, <1>2, <1>3, <1>4, <1>5 DEF IsDir, IsFile, Entry

\* A command that only answers.
LEMMA SaysSame ==
  ASSUME NEW a, Says(a)
  PROVE  Same /\ ret' = a
BY NodesStay DEF Says, Answer, Same, Here

\* The answers of mkdir and touch to a path they refuse.
LEMMA RefusedIs ==
  ASSUME TreeInv, NEW p \in Path, CreateRefused(p) # "no"
  PROVE  \/ CreateRefused(p) = "not found" /\ Directory(p) = NULL
         \/ /\ Directory(p) \in allocated
            /\ \/ CreateRefused(p) = "not a directory" /\ ~IsDir(Directory(p))
               \/ CreateRefused(p) = "missing name" /\ IsDir(Directory(p)) /\ Last(p.comps) = ""
               \/ CreateRefused(p) = "exists" /\ ramfs_find(Directory(p), Last(p.comps)) # NULL
<1>1. Directory(p) \in allocated \cup {NULL}
  BY ResolveIs
<1>2. \/ CreateRefused(p) = "not found" /\ Directory(p) = NULL
      \/ /\ Directory(p) # NULL
         /\ \/ CreateRefused(p) = "not a directory" /\ ~IsDir(Directory(p))
            \/ CreateRefused(p) = "missing name" /\ IsDir(Directory(p)) /\ Last(p.comps) = ""
            \/ CreateRefused(p) = "exists" /\ ramfs_find(Directory(p), Last(p.comps)) # NULL
  BY Zenon DEF CreateRefused
<1> QED
  BY <1>1, <1>2

\* mkdir and touch.
LEMMA CreateIsCreate ==
  ASSUME TreeInv, NEW p \in Path, NEW type \in {"dir", "file"}, Create(p, type)
  PROVE  Files!Create(p, Entry(type, NULL))
<1> DEFINE d == Directory(p)
           name == Last(p.comps)
           entry == Entry(type, NULL)
<1>1. Files!Parent(p) = At(d)
  BY PlaceOfPath
<1>2. name \in Name
  BY PathIs DEF Name
<1>3. ASSUME CreateRefused(p) # "no", Says(<<CreateRefused(p)>>)
      PROVE  Files!Create(p, entry)
  <2>1. Same /\ ret' = <<CreateRefused(p)>>
    BY <1>3, SaysSame
  <2>2. CASE CreateRefused(p) = "not found" /\ d = NULL
    BY <1>1, <2>1, <2>2, FilesCreate DEF At
  <2>3. CASE d \in allocated
    <3>1. Files!Parent(p) = {PathTo[d]}
      BY <1>1, <2>3, NodeIs DEF At
    <3>2. CASE CreateRefused(p) = "not a directory" /\ ~IsDir(d)
      <4>1. Tree[PathTo[d]].type # "dir"
        BY <2>3, <3>2, NodeAt
      <4> QED
        BY <2>1, <3>1, <3>2, <4>1, FilesCreate
    <3>3. CASE CreateRefused(p) = "missing name" /\ IsDir(d) /\ name = ""
      <4>1. Tree[PathTo[d]] = Entry("dir", NULL)
        BY <2>3, <3>3, NodeAt
      <4> QED
        BY <2>1, <3>1, <3>3, <4>1, FilesCreate
    <3>4. CASE CreateRefused(p) = "exists" /\ ramfs_find(d, name) # NULL
      <4>1. Append(PathTo[d], name) \in DOMAIN Tree
        BY <1>2, <2>3, <3>4, NodeIs, FoundIs, ChildIs
      <4> QED
        BY <2>1, <3>1, <3>4, <4>1, FilesCreate
    <3> QED
      BY <1>3, <2>2, <2>3, <3>2, <3>3, <3>4, RefusedIs, NodeIs
  <2> QED
    BY <1>3, <2>2, <2>3, RefusedIs
<1>4. ASSUME CreateRefused(p) = "no"
      PROVE  /\ Files!Parent(p) = {PathTo[d]} /\ Tree[PathTo[d]] = Entry("dir", NULL)
             /\ name # "" /\ Append(PathTo[d], name) \notin DOMAIN Tree
  <2>1. /\ d \in allocated /\ IsDir(d) /\ name # ""
        /\ \A c \in Range(node[d].children) : node[c].name # name
    BY <1>4, NothingRefused
  <2>2. Append(PathTo[d], name) \notin DOMAIN Tree
    BY <1>2, <2>1, ChildIs
  <2> QED
    BY <1>1, <2>1, <2>2, NodeAt DEF At
<1>5. ASSUME CreateRefused(p) = "no", Says(<<"failed">>)
      PROVE  Files!Create(p, entry)
  <2>1. Same /\ ret' = <<"failed">>
    BY <1>5, SaysSame
  <2> QED
    BY <1>4, <1>5, <2>1, FilesCreate
<1>6. ASSUME CreateRefused(p) = "no", NEW n \in Node \ allocated,
             allocated' = allocated \cup {n}, cwd' = cwd,
             node' = [node EXCEPT
               ![n] = [create_vfs_node(Last(p.comps), type) EXCEPT !.parent = Directory(p)],
               ![Directory(p)].children = <<n>> \o @],
             ret' = <<"ok">>
      PROVE  Files!Create(p, entry)
  <2>1. Added(n, d, name, type)
    BY <1>6, CreateAdds
  <2>2. MapGains(Append(PathTo[d], name), entry)
    <3> HIDE DEF d, name
    <3> QED
      BY <2>1, AddedMaps
  <2> QED
    BY <1>4, <1>6, <2>2, FilesCreate
<1> QED
  BY <1>3, <1>5, <1>6 DEF Create, Answer

\* rm.
LEMMA RmIsDelete ==
  ASSUME TreeInv, ~MayRemoveCwd, NEW p \in Path, cmd_rm(p)
  PROVE  Files!Delete(p)
<1> DEFINE n == ramfs_resolve(p)
<1>1. Files!Place(p) = At(n) /\ n \in allocated \cup {NULL}
  BY PlaceOfPath, ResolveIs
<1>2. CASE n = NULL /\ Says(<<"not found">>)
  BY <1>1, <1>2, SaysSame, FilesNowhere DEF At
<1>3. CASE n # NULL /\ DeleteRefused(n) # "no" /\ Says(<<DeleteRefused(n)>>)
  <2>1. Files!Place(p) = {PathTo[n]} /\ n \in allocated
    BY <1>1, <1>3 DEF At
  <2>2. Same /\ ret' = <<DeleteRefused(n)>>
    BY <1>3, SaysSame
  <2>3. \/ DeleteRefused(n) = "failed" /\ n = Root
        \/ DeleteRefused(n) = "not empty" /\ n # Root /\ node[n].children # <<>>
    BY <1>3, Zenon DEF DeleteRefused
  <2> HIDE DEF n
  <2> QED
    BY <2>1, <2>2, <2>3, NodeAt, FilesAt
<1>4. CASE n # NULL /\ DeleteRefused(n) = "no" /\ ramfs_delete(n) /\ Answer(<<"ok">>)
  <2>1. Files!Place(p) = {PathTo[n]} /\ n \in allocated
    BY <1>1, <1>4 DEF At
  <2> HIDE DEF n
  <2>2. Removed(n, node[n].parent)
    BY <1>4, <2>1, DeleteRemoves
  <2>3. MapLoses(PathTo[n])
    BY <2>2, RemovedMaps
  <2>4. n # Root /\ node[n].children = <<>>
    BY <2>2 DEF Removed
  <2>5. PathTo[n] # <<>> /\ Files!Entries(PathTo[n]) = {}
    BY <2>1, <2>4, NodeAt
  <2> QED
    BY <1>4, <2>1, <2>3, <2>5, FilesAt DEF Answer
<1> QED
  BY <1>2, <1>3, <1>4 DEF cmd_rm

\* cd.
LEMMA CdIsEnter ==
  ASSUME TreeInv, NEW p \in Path, cmd_cd(p)
  PROVE  Files!Enter(p)
<1> DEFINE n == ramfs_resolve(p)
<1>1. Files!Place(p) = At(n) /\ n \in allocated \cup {NULL}
  BY PlaceOfPath, ResolveIs
<1>2. CASE n = NULL /\ Says(<<"not found">>)
  BY <1>1, <1>2, SaysSame, FilesNowhere DEF At
<1>3. CASE n # NULL /\ ~IsDir(n) /\ Says(<<"not a directory">>)
  <2>1. Files!Place(p) = {PathTo[n]} /\ n \in allocated
    BY <1>1, <1>3 DEF At
  <2>2. Same /\ ret' = <<"not a directory">> /\ Tree[PathTo[n]].type # "dir"
    BY <1>3, <2>1, SaysSame, NodeAt
  <2> QED
    BY <2>1, <2>2, FilesAt
<1>4. CASE n # NULL /\ IsDir(n) /\ cwd' = n /\ Answer(<<"ok">>) /\ UNCHANGED <<node, allocated>>
  <2>1. Files!Place(p) = {PathTo[n]} /\ n \in allocated
    BY <1>1, <1>4 DEF At
  <2>2. Tree' = Tree /\ Here' = PathTo[n] /\ ret' = <<"ok">>
    BY <1>4, NodesStay DEF Answer
  <2>3. Tree[PathTo[n]] = Entry("dir", NULL)
    BY <1>4, <2>1, NodeAt
  <2> QED
    BY <2>1, <2>2, <2>3, FilesAt
<1> QED
  BY <1>2, <1>3, <1>4 DEF cmd_cd

\* pwd.
LEMMA PwdIsWhere ==
  ASSUME cmd_pwd
  PROVE  Files!Where
<1>1. Same /\ ret' = <<"path", PathTo[cwd]>>
  BY SaysSame DEF cmd_pwd
<1> QED
  BY <1>1 DEF Files!Where, Files!Answer, Same, Tree, Here

\* ls.
LEMMA LsIsList ==
  ASSUME TreeInv, NEW p \in Path, cmd_ls(p)
  PROVE  Files!List(p)
<1> DEFINE n == ramfs_resolve(p)
<1>1. Files!Place(p) = At(n) /\ n \in allocated \cup {NULL}
  BY PlaceOfPath, ResolveIs
<1>2. CASE n = NULL /\ Says(<<"not found">>)
  BY <1>1, <1>2, SaysSame, FilesNowhere DEF At
<1>3. CASE n # NULL /\ ~IsDir(n) /\ Says(<<"not a directory">>)
  <2>1. Files!Place(p) = {PathTo[n]} /\ n \in allocated
    BY <1>1, <1>3 DEF At
  <2>2. Same /\ ret' = <<"not a directory">> /\ Tree[PathTo[n]].type # "dir"
    BY <1>3, <2>1, SaysSame, NodeAt
  <2> QED
    BY <2>1, <2>2, FilesAt
<1>4. CASE /\ n # NULL /\ IsDir(n)
           /\ Says(<<"list", {<<node[c].name, node[c].type>> : c \in Range(node[n].children)}>>)
  <2>1. Files!Place(p) = {PathTo[n]} /\ n \in allocated
    BY <1>1, <1>4 DEF At
  <2> DEFINE listed == {<<node[c].name, node[c].type>> : c \in Range(node[n].children)}
  <2>2. Same /\ ret' = <<"list", listed>>
    BY <1>4, SaysSame
  <2>3. Tree[PathTo[n]] = Entry("dir", NULL)
    BY <1>4, <2>1, NodeAt
  <2>4. Files!Entries(PathTo[n]) = {PathTo[c] : c \in Range(node[n].children)}
    BY <2>1, EntriesAre
  <2>5. ASSUME NEW c \in Range(node[n].children)
        PROVE  Last(PathTo[c]) = node[c].name /\ Tree[PathTo[c]].type = node[c].type
    <3>1. c \in allocated \ {Root}
      BY <2>1, EntryIs
    <3>2. Tree[PathTo[c]] = Entry(node[c].type, node[c].data)
      BY <3>1, TreeIs
    <3>3. Last(PathTo[c]) = node[c].name
      BY <3>1, PathToIs
    <3> QED
      BY <3>2, <3>3 DEF Entry
  <2>6. {<<Last(m), Tree[m].type>> : m \in Files!Entries(PathTo[n])} = listed
    <3> HIDE DEF n
    <3> QED
      BY <2>4, <2>5
  <2> HIDE DEF listed
  <2> QED
    BY <2>1, <2>2, <2>3, <2>6, FilesAt
<1> QED
  BY <1>2, <1>3, <1>4 DEF cmd_ls

\* cat.
LEMMA CatIsShow ==
  ASSUME TreeInv, NEW p \in Path, cmd_cat(p)
  PROVE  Files!Show(p)
<1> DEFINE n == ramfs_resolve(p)
<1>1. Files!Place(p) = At(n) /\ n \in allocated \cup {NULL}
  BY PlaceOfPath, ResolveIs
<1>2. CASE n = NULL /\ Says(<<"not found">>)
  BY <1>1, <1>2, SaysSame, FilesNowhere DEF At
<1>3. CASE n # NULL /\ ~IsFile(n) /\ Says(<<"not a file">>)
  <2>1. Files!Place(p) = {PathTo[n]} /\ n \in allocated
    BY <1>1, <1>3 DEF At
  <2>2. Same /\ ret' = <<"not a file">> /\ Tree[PathTo[n]] = Entry("dir", NULL)
    BY <1>3, <2>1, SaysSame, NodeAt
  <2> QED
    BY <2>1, <2>2, FilesAt
<1>4. CASE n # NULL /\ IsFile(n) /\ (Says(<<"failed">>) \/ Says(<<"text", node[n].data>>))
  <2>1. Files!Place(p) = {PathTo[n]} /\ n \in allocated
    BY <1>1, <1>4 DEF At
  <2>2. Tree[PathTo[n]].type # "dir" /\ Tree[PathTo[n]].text = node[n].data
    BY <1>4, <2>1, NodeAt
  <2>3. Same /\ (ret' = <<"failed">> \/ ret' = <<"text", node[n].data>>)
    BY <1>4, SaysSame
  <2> QED
    BY <2>1, <2>2, <2>3, FilesAt
<1> QED
  BY <1>2, <1>3, <1>4 DEF cmd_cat

\* sn of what is no file ...
LEMMA OpenIsEdit ==
  ASSUME TreeInv, NEW p \in Path, Open(p)
  PROVE  \A text : Files!Edit(p, text)
<1> DEFINE n == ramfs_resolve(p)
<1>1. Files!Place(p) = At(n) /\ n \in allocated \cup {NULL}
  BY PlaceOfPath, ResolveIs
<1>2. Same /\ ret' = <<"could not open">>
  BY SaysSame DEF Open
<1>3. CASE n = NULL
  BY <1>1, <1>2, <1>3, FilesNowhere DEF At
<1>4. CASE n # NULL
  <2>1. Files!Place(p) = {PathTo[n]} /\ n \in allocated
    BY <1>1, <1>4 DEF At
  <2>2. Tree[PathTo[n]] = Entry("dir", NULL)
    BY <1>4, <2>1, NodeAt DEF Open
  <2> QED
    BY <1>2, <2>1, <2>2, FilesAt
<1> QED
  BY <1>3, <1>4

\* ... and a save.
LEMMA SaveIsEdit ==
  ASSUME TreeInv, NEW p \in Path, NEW text \in Content \cup {NULL}, Save(p, text)
  PROVE  Files!Edit(p, text)
<1> DEFINE n == ramfs_resolve(p)
<1>1. Files!Place(p) = {PathTo[n]} /\ n \in allocated /\ IsFile(n)
  BY PlaceOfPath, ResolveIs DEF At, Save
<1> HIDE DEF n
<1>2. Tree[PathTo[n]].type # "dir"
  BY <1>1, NodeAt
<1>3. CASE Says(<<"failed">>)
  BY <1>1, <1>2, <1>3, SaysSame, FilesAt
<1>4. ASSUME NEW t \in {text, NULL}, node' = [node EXCEPT ![n].data = t],
             allocated' = allocated, cwd' = cwd
      PROVE  MapSets(PathTo[n], Entry("file", t))
  <2>1. Written(n, t)
    BY <1>1, <1>4 DEF Written
  <2> QED
    BY <2>1, WrittenMaps
<1>5. CASE /\ text # NULL /\ node' = [node EXCEPT ![n].data = NULL] /\ ret' = <<"failed">>
           /\ UNCHANGED <<allocated, cwd>>
  BY <1>1, <1>2, <1>4, <1>5, FilesAt
<1>6. CASE /\ node' = [node EXCEPT ![n].data = text] /\ ret' = <<"ok">>
           /\ UNCHANGED <<allocated, cwd>>
  BY <1>1, <1>2, <1>4, <1>6, FilesAt
<1> QED
  BY <1>3, <1>5, <1>6 DEF Save, Answer, n

\* At first there is the root.
LEMMA FilesAtFirst ==
  ASSUME FSInit
  PROVE  Files!FilesInit
<1>1. TreeInv /\ allocated = {Root} /\ cwd = Root /\ ret = <<"welcome">>
  BY TreeInitially DEF FSInit
<1>2. Mapped /\ IsDir(Root) /\ Root \in allocated
  BY <1>1, MapIs DEF TreeInv, TreeOK
<1>3. Tree[<<>>] = Entry("dir", NULL) /\ PathTo[Root] = <<>>
  BY <1>1, <1>2, NodeAt DEF Mapped
<1>4. Tree = [q \in {<<>>} |-> Entry("dir", NULL)]
  BY <1>1, <1>2, <1>3 DEF Mapped
<1>5. Here = <<>>
  BY <1>1, <1>3 DEF Here
<1> QED
  BY <1>1, <1>4, <1>5 DEF Files!FilesInit, Files!Dir, Entry, Tree, Here

\* Every command is a command of Files.
LEMMA CommandIsStep ==
  ASSUME TreeInv, ~MayRemoveCwd, [FSNext]_fsVars
  PROVE  [Files!FilesNext]_(Files!filesVars)
<1>1. CASE UNCHANGED fsVars
  <2>1. Tree' = Tree /\ Here' = Here /\ ret' = ret
    BY <1>1, NodesStay DEF fsVars, Here
  <2> QED
    BY <2>1 DEF Files!filesVars, Tree, Here
<1>2. Entry("dir", NULL) = Files!Dir /\ Entry("file", NULL) = Files!File(NULL)
  BY DEF Entry, Files!Dir, Files!File
<1>3. ASSUME NEW p \in Path,
             \/ cmd_mkdir(p) \/ cmd_touch(p) \/ cmd_rm(p) \/ cmd_cd(p)
             \/ cmd_ls(p) \/ cmd_cat(p)
      PROVE  \/ Files!Create(p, Files!Dir) \/ Files!Create(p, Files!File(NULL))
             \/ Files!Delete(p) \/ Files!Enter(p) \/ Files!List(p) \/ Files!Show(p)
  <2>1. CASE cmd_mkdir(p)
    BY <1>2, <2>1, CreateIsCreate DEF cmd_mkdir
  <2>2. CASE cmd_touch(p)
    BY <1>2, <2>2, CreateIsCreate DEF cmd_touch
  <2> QED
    BY <1>3, <2>1, <2>2, RmIsDelete, CdIsEnter, LsIsList, CatIsShow
<1>4. ASSUME NEW p \in Path, NEW text \in Content \cup {NULL}, Open(p) \/ Save(p, text)
      PROVE  Files!Edit(p, text)
  BY <1>4, OpenIsEdit, SaveIsEdit
<1>5. CASE cmd_pwd
  BY <1>5, PwdIsWhere DEF Files!FilesNext
<1>6. CASE \E p \in Path : \/ cmd_mkdir(p) \/ cmd_touch(p) \/ cmd_rm(p) \/ cmd_cd(p)
                           \/ cmd_ls(p) \/ cmd_cat(p)
  BY <1>3, <1>6, Zenon DEF Files!FilesNext
<1>7. CASE \E p \in Path, text \in Content \cup {NULL} : Open(p) \/ Save(p, text)
  BY <1>4, <1>7, Zenon DEF Files!FilesNext
<1>8. CASE FSNext
  <2>1. NULL \in Content \cup {NULL}
    OBVIOUS
  <2>2. \/ \E p \in Path : \/ cmd_mkdir(p) \/ cmd_touch(p) \/ cmd_rm(p) \/ cmd_cd(p)
                           \/ cmd_ls(p) \/ cmd_cat(p)
        \/ \E p \in Path, text \in Content \cup {NULL} : Open(p) \/ Save(p, text)
        \/ cmd_pwd
    BY <1>8, <2>1, Zenon DEF FSNext
  <2> QED
    BY <1>5, <1>6, <1>7, <2>2
<1> QED
  BY <1>1, <1>8

\* The nodes with their parents, children and texts implement a map from paths to
\* texts, for every set of paths, however deep the tree and wherever memory fails
\* (ramfs.c, shell.c:700-961), as long as nobody removes the directory they are in.
THEOREM FSImplementsFiles ==
  ASSUME ~MayRemoveCwd
  PROVE  FSSpec => ImplementsFiles
<1>1. FSInit => Files!FilesInit /\ TreeInv
  BY FilesAtFirst, TreeInitially
<1>2. TreeInv /\ [FSNext]_fsVars => TreeInv' /\ [Files!FilesNext]_(Files!filesVars)
  BY TreeInvStep, CommandIsStep
<1> QED
  BY <1>1, <1>2, PTL DEF FSSpec, ImplementsFiles, Files!FilesSpec
=============================================================================
