-------------------------------- MODULE RamFS --------------------------------
(***************************************************************************)
(* The RAM file system (fs/ramfs.c) under the shell commands that use it   *)
(* (cmd_ls ... cmd_touch in kernel/shell.c) and the editor's saves         *)
(* (snake.c).  Every command runs to its end before the next is read, so   *)
(* each is one step; ret is what it tells the user.                        *)
(*                                                                         *)
(* A path is what the user types split at its slashes: a slash at the end  *)
(* and doubled slashes give empty components.  kmalloc may fail at any     *)
(* call.  TreeOK shows that a node is not read once it is freed, so what   *)
(* it holds then is left out.                                              *)
(***************************************************************************)
EXTENDS Naturals, SequencesExt

CONSTANTS
  Node,          \* the blocks of memory a vfs_node_t may occupy
  Root,          \* the one ramfs_init gets
  NULL,
  Path,          \* the paths users type: [abs, comps]
  Content,       \* what users save, but for the empty text
  MayRemoveCwd   \* whether users remove the directory they are in

Component == UNION {Range(p.comps) : p \in Path}

ASSUME FSAssumption ==
  /\ Root \in Node /\ NULL \notin Node \cup Content
  /\ \A p \in Path : p \in [abs : BOOLEAN, comps : Seq(Component)] /\ p.comps # <<>>
  /\ MayRemoveCwd \in BOOLEAN

VARIABLES
  node,          \* the vfs_node_t in each block that is allocated
  allocated,     \* the blocks the heap has handed out
  cwd,           \* shell_cwd and ramfs_cwd, which are always set together
  ret            \* what the last command printed

fsVars == <<node, allocated, cwd, ret>>

\* A new node; data = NULL stands for size = 0 as well.
create_vfs_node(name, type) ==
  [name |-> name, type |-> type, parent |-> NULL, children |-> <<>>, data |-> NULL]

IsDir(n)  == node[n].type = "dir"
IsFile(n) == node[n].type = "file"

\* The root, and a block that is not in use.
Blank == create_vfs_node("", "dir")

FSInit ==
  /\ node = [n \in Node |-> Blank]
  /\ allocated = {Root}
  /\ cwd = Root
  /\ ret = <<"welcome">>
-----------------------------------------------------------------------------
(* Finding nodes.                                                          *)

\* Faulty: only the first entry of a directory is compared.
FindsFirst(dir, name) ==
  IF IsDir(dir) /\ node[dir].children # <<>> /\ node[Head(node[dir].children)].name = name
  THEN Head(node[dir].children) ELSE NULL

\* default_finddir: the first entry of that name in a directory.
ramfs_find(dir, name) ==
  LET k == SelectInSeq(node[dir].children, LAMBDA c : node[c].name = name)
  IN  IF IsDir(dir) /\ k # 0 THEN node[dir].children[k] ELSE NULL

\* One turn of the loop in vfs_resolve_path: also from a file ".." leads to the
\* parent and "." nowhere.
Walk(n, comp) ==
  CASE n = NULL                            -> NULL
    [] n # NULL /\ comp \in {"", "."}      -> n
    [] n # NULL /\ comp = ".."             -> IF node[n].parent # NULL THEN node[n].parent ELSE n
    [] n # NULL /\ comp \notin {"", ".", ".."} -> ramfs_find(n, comp)

ramfs_resolve(p) == FoldLeft(Walk, IF p.abs THEN Root ELSE cwd, p.comps)

\* mkdir and touch cut the path at its last slash.
Directory(p) == ramfs_resolve([p EXCEPT !.comps = Front(@)])

\* The path print_path prints.
PathTo == LET path[n \in Node] ==
                IF node[n].parent = NULL THEN <<>>
                ELSE Append(path[node[n].parent], node[n].name)
          IN  path
-----------------------------------------------------------------------------
(* The commands.                                                           *)

\* A command ends with an answer.  What the machine does once its working
\* directory is gone is not followed.
Answer(a) == cwd \in allocated /\ ret' = a
Says(a)   == Answer(a) /\ UNCHANGED <<node, allocated, cwd>>

\* Why mkdir or touch refuses a path, in the order of its checks.
CreateRefused(p) ==
  LET dir == Directory(p)
  IN  CASE dir = NULL                                -> "not found"
        [] dir # NULL /\ ~IsDir(dir)                 -> "not a directory"
        [] dir # NULL /\ IsDir(dir) /\ Last(p.comps) = "" -> "missing name"
        [] OTHER -> IF ramfs_find(dir, Last(p.comps)) # NULL THEN "exists" ELSE "no"

\* cmd_mkdir and cmd_touch with ramfs_create and add_child.
Create(p, type) ==
  \/ CreateRefused(p) # "no" /\ Says(<<CreateRefused(p)>>)
  \/ CreateRefused(p) = "no" /\ Says(<<"failed">>)
  \/ CreateRefused(p) = "no" /\ \E n \in Node \ allocated :
       /\ allocated' = allocated \cup {n}
       /\ node' = [node EXCEPT
            ![n] = [create_vfs_node(Last(p.comps), type) EXCEPT !.parent = Directory(p)],
            ![Directory(p)].children = <<n>> \o @]
       /\ Answer(<<"ok">>)
       /\ UNCHANGED cwd

cmd_mkdir(p) == Create(p, "dir")
cmd_touch(p) == Create(p, "file")

\* Faulty: a directory is removed with what is in it.
DeleteRefusedNever(n) == IF n = Root THEN "failed" ELSE "no"

\* ramfs_delete refuses the root and a directory that is not empty.
DeleteRefused(n) ==
  CASE n = Root                                              -> "failed"
    [] n # Root /\ IsDir(n) /\ node[n].children # <<>>       -> "not empty"
    [] n # Root /\ ~(IsDir(n) /\ node[n].children # <<>>)    -> "no"

\* ramfs_delete of a node it does not refuse, with remove_child.  It does not ask
\* whether the node is the working directory.
ramfs_delete(n) ==
  /\ MayRemoveCwd \/ n # cwd
  /\ node' = [node EXCEPT ![node[n].parent].children = RemoveFirst(@, n),
                         ![n] = Blank]
  /\ allocated' = allocated \ {n}
  /\ UNCHANGED cwd

cmd_rm(p) ==
  LET n == ramfs_resolve(p)
  IN  \/ n = NULL /\ Says(<<"not found">>)
      \/ n # NULL /\ DeleteRefused(n) # "no" /\ Says(<<DeleteRefused(n)>>)
      \/ /\ n # NULL /\ DeleteRefused(n) = "no"
         /\ ramfs_delete(n)
         /\ Answer(<<"ok">>)

\* Faulty: a path that leads nowhere is not refused.
CdUnchecked(p) ==
  /\ cwd' = ramfs_resolve(p)
  /\ Answer(<<"ok">>)
  /\ UNCHANGED <<node, allocated>>

\* cmd_cd; "cd" alone is "cd /".
cmd_cd(p) ==
  LET n == ramfs_resolve(p)
  IN  \/ n = NULL /\ Says(<<"not found">>)
      \/ n # NULL /\ ~IsDir(n) /\ Says(<<"not a directory">>)
      \/ n # NULL /\ IsDir(n) /\ cwd' = n /\ Answer(<<"ok">>)
           /\ UNCHANGED <<node, allocated>>

\* cmd_pwd and print_path
cmd_pwd == Says(<<"path", PathTo[cwd]>>)

\* cmd_ls of a path; "ls" alone is "ls .".
cmd_ls(p) ==
  LET n == ramfs_resolve(p)
  IN  \/ n = NULL /\ Says(<<"not found">>)
      \/ n # NULL /\ ~IsDir(n) /\ Says(<<"not a directory">>)
      \/ n # NULL /\ IsDir(n)
           /\ Says(<<"list", {<<node[c].name, node[c].type>> : c \in Range(node[n].children)}>>)

\* cmd_cat: the open file is read to its end and closed within the command.
cmd_cat(p) ==
  LET n == ramfs_resolve(p)
  IN  \/ n = NULL /\ Says(<<"not found">>)
      \/ n # NULL /\ ~IsFile(n) /\ Says(<<"not a file">>)
      \/ n # NULL /\ IsFile(n) /\ (Says(<<"failed">>) \/ Says(<<"text", node[n].data>>))

\* sn of a path: the file is opened (fs_read_file) ...
Open(p) ==
  LET n == ramfs_resolve(p)
  IN  /\ IF n = NULL THEN TRUE ELSE ~IsFile(n)
      /\ Says(<<"could not open">>)

\* ... and saved any number of times.  fs_write_file frees the old text before it
\* gets memory for the new one, and has none to get for an empty text.
Save(p, text) ==
  LET n == ramfs_resolve(p)
  IN  /\ n # NULL /\ IsFile(n)
      /\ \/ Says(<<"failed">>)              \* of editor_load or editor_save
         \/ /\ text # NULL                  \* of fs_write_file
            /\ node' = [node EXCEPT ![n].data = NULL]
            /\ Answer(<<"failed">>)
            /\ UNCHANGED <<allocated, cwd>>
         \/ /\ node' = [node EXCEPT ![n].data = text]
            /\ Answer(<<"ok">>)
            /\ UNCHANGED <<allocated, cwd>>

FSNext ==
  \/ \E p \in Path : \/ cmd_mkdir(p) \/ cmd_touch(p) \/ cmd_rm(p) \/ cmd_cd(p)
                     \/ cmd_ls(p) \/ cmd_cat(p) \/ Open(p)
  \/ \E p \in Path, text \in Content \cup {NULL} : Save(p, text)
  \/ cmd_pwd

FSSpec == FSInit /\ [][FSNext]_fsVars
-----------------------------------------------------------------------------
(* Properties.                                                             *)

\* Types of the variables.
FSTypeOK ==
  /\ node \in [Node -> [name : Component \cup {""}, type : {"dir", "file"},
                        parent : Node \cup {NULL}, children : Seq(Node),
                        data : Content \cup {NULL}]]
  /\ allocated \subseteq Node
  /\ cwd \in Node

\* Parents and children are two records of one relation ...
ParentsAgree ==
  \A n \in allocated :
    /\ \A c \in Range(node[n].children) : c \in allocated /\ node[c].parent = n
    /\ n # Root => /\ node[n].parent \in allocated
                   /\ n \in Range(node[node[n].parent].children)

\* ... no entry is in a directory twice, nor any name ...
EntriesDiffer ==
  \A n \in allocated : \A i, j \in DOMAIN node[n].children :
    i # j => node[node[n].children[i]].name # node[node[n].children[j]].name

\* ... and every node hangs from the root: from any set of others a parent leads
\* out of the set ...
AllHangFromRoot ==
  \A S \in SUBSET (allocated \ {Root}) : S # {} => \E n \in S : node[n].parent \notin S

\* ... only directories have entries and only files have a text ...
EntriesOrText ==
  \A n \in allocated : /\ IsDir(n) => node[n].data = NULL
                       /\ IsFile(n) => node[n].children = <<>>

\* ... so that what is freed is not linked and what is linked is not freed, no
\* node is lost and no directory is inside itself; and the working directory is a
\* directory of the tree (ramfs.c:130-217).
TreeOK ==
  /\ FSTypeOK /\ ParentsAgree /\ EntriesDiffer /\ AllHangFromRoot /\ EntriesOrText
  /\ Root \in allocated /\ node[Root].parent = NULL
  /\ cwd \in allocated /\ IsDir(cwd)

\* "ls - List files in current directory" (shell.c:481): there is one, and not
\* the remains of one in freed memory.
CurrentDirectoryExists == cwd \in allocated

\* The tree of nodes with its pointers implements a map from paths to texts, as
\* far as any command shows: what mkdir, touch, rm and saves changed is what
\* ls, cat, cd and pwd see (ramfs.c, shell.c:700-961).
Files == INSTANCE Files WITH
  tree <- [p \in {PathTo[n] : n \in allocated} |->
             LET n == CHOOSE m \in allocated : PathTo[m] = p
             IN  [type |-> node[n].type, text |-> node[n].data]],
  here <- PathTo[cwd]

ImplementsFiles == Files!FilesSpec
=============================================================================
