-------------------------------- MODULE Files --------------------------------
(***************************************************************************)
(* What a user may rely on of the file system: files and directories are   *)
(* known by the names on the way to them, and a path is its own            *)
(* normal form read from left to right.  There are no nodes, pointers or   *)
(* memory here; a command that needs memory may fail and then changes      *)
(* nothing, except that a failed save may leave the file empty.            *)
(***************************************************************************)
EXTENDS Naturals, SequencesExt

CONSTANTS Path, Content, NULL

VARIABLES
  tree,   \* from the sequence of names leading to an entry to its type and text
  here,   \* the working directory's
  ret     \* the answer to the last command

filesVars == <<tree, here, ret>>

Dir        == [type |-> "dir", text |-> NULL]
File(text) == [type |-> "file", text |-> text]
Entries(d) == {n \in DOMAIN tree : n # <<>> /\ Front(n) = d}

\* The tree with the entry at n.
With(n, entry) == [m \in DOMAIN tree \cup {n} |-> IF m = n THEN entry ELSE tree[m]]

FilesInit ==
  /\ tree = [n \in {<<>>} |-> Dir]
  /\ here = <<>>
  /\ ret = <<"welcome">>

\* The set of the one place that comp leads to from place, or of none: a name
\* must be there, ".." takes the last name off.
Follow(place, comp) ==
  CASE place = {}                                  -> {}
    [] place # {} /\ comp \in {"", "."}            -> place
    [] place # {} /\ comp = ".."                   -> {IF n = <<>> THEN n ELSE Front(n) : n \in place}
    [] place # {} /\ comp \notin {"", ".", ".."} ->
         {Append(n, comp) : n \in place} \cap DOMAIN tree

\* The set of the one place a path names, or the empty set.
Place(p) == FoldLeft(Follow, {IF p.abs THEN <<>> ELSE here}, p.comps)
Parent(p) == Place([p EXCEPT !.comps = Front(@)])

\* Directory d has no entry yet of the name p ends with.
NewIn(d, p) == /\ tree[d] = Dir /\ Last(p.comps) # ""
               /\ Append(d, Last(p.comps)) \notin DOMAIN tree

Answer(a) == ret' = a /\ UNCHANGED <<tree, here>>
Done      == ret' = <<"ok">>

Missing(p) == Answer(<<"not found">>) /\ Place(p) = {}
NotDir(p)  == Answer(<<"not a directory">>) /\ \E n \in Place(p) : tree[n] # Dir

Create(p, entry) ==
  \/ Answer(<<"not found">>) /\ Parent(p) = {}
  \/ Answer(<<"not a directory">>) /\ \E d \in Parent(p) : tree[d] # Dir
  \/ Answer(<<"missing name">>) /\ Last(p.comps) = "" /\ \E d \in Parent(p) : tree[d] = Dir
  \/ Answer(<<"exists">>) /\ \E d \in Parent(p) : Append(d, Last(p.comps)) \in DOMAIN tree
  \/ Answer(<<"failed">>) /\ \E d \in Parent(p) : NewIn(d, p)
  \/ Done /\ \E d \in Parent(p) :
       /\ NewIn(d, p)
       /\ tree' = With(Append(d, Last(p.comps)), entry)
       /\ UNCHANGED here

Delete(p) ==
  \/ Missing(p)
  \/ Answer(<<"failed">>) /\ Place(p) = {<<>>}
  \/ Answer(<<"not empty">>) /\ \E n \in Place(p) \ {<<>>} : Entries(n) # {}
  \/ Done /\ \E n \in Place(p) \ {<<>>} :
       /\ Entries(n) = {}
       /\ tree' = [m \in DOMAIN tree \ {n} |-> tree[m]]
       /\ UNCHANGED here

Enter(p) ==
  \/ Missing(p) \/ NotDir(p)
  \/ Done /\ \E n \in Place(p) : tree[n] = Dir /\ here' = n /\ UNCHANGED tree

Where == Answer(<<"path", here>>)

List(p) ==
  \/ Missing(p) \/ NotDir(p)
  \/ \E n \in Place(p) :
       /\ Answer(<<"list", {<<Last(m), tree[m].type>> : m \in Entries(n)}>>)
       /\ tree[n] = Dir

Show(p) ==
  \/ Missing(p)
  \/ Answer(<<"not a file">>) /\ \E n \in Place(p) : tree[n] = Dir
  \/ Answer(<<"failed">>) /\ \E n \in Place(p) : tree[n] # Dir
  \/ \E n \in Place(p) : tree[n] # Dir /\ Answer(<<"text", tree[n].text>>)

Edit(p, text) ==
  \/ Answer(<<"could not open">>) /\ \A n \in Place(p) : tree[n] = Dir
  \/ Answer(<<"failed">>) /\ \E n \in Place(p) : tree[n] # Dir
  \/ \E t \in {text, NULL} :
       /\ ret' = <<IF t = text THEN "ok" ELSE "failed">>
       /\ \E n \in Place(p) : tree[n] # Dir /\ tree' = [tree EXCEPT ![n] = File(t)]
       /\ UNCHANGED here

FilesNext ==
  \/ \E p \in Path : \/ Create(p, Dir) \/ Create(p, File(NULL)) \/ Delete(p) \/ Enter(p)
                     \/ List(p) \/ Show(p)
  \/ \E p \in Path, text \in Content \cup {NULL} : Edit(p, text)
  \/ Where

FilesSpec == FilesInit /\ [][FilesNext]_filesVars
=============================================================================
