------------------------------- MODULE FileTree -------------------------------
(***************************************************************************)
(* What a mounted volume promises the shell: a tree of directories and     *)
(* files, a current directory, and commands that change one path of the    *)
(* tree, or, when they report an error, leave the tree alone.  A write     *)
(* makes a file as long as its text, or longer by it.  The one exception   *)
(* is a write that runs out of space, which may leave a part of its text.  *)
(* Which path, text and kind of node a command asked for is not part of    *)
(* the state, so any one may be the one that changes.                      *)
(* Ext4.tla is shown to implement this.                                    *)
(***************************************************************************)
EXTENDS Integers, Sequences, SequencesExt

CONSTANTS TreeNames,     \* names of files and directories
          TreeTexts      \* lengths of the texts that are written

VARIABLES tree,     \* path -> node; a path is the sequence of its names
          here,     \* the path of the current directory
          answer    \* what the last command returned

treeVars == <<tree, here, answer>>

Dir        == [dir |-> TRUE, size |-> 0]
File(size) == [dir |-> FALSE, size |-> size]

root == <<>>

TreeInit == tree = [p \in {root} |-> Dir] /\ here = root /\ answer = "ok"

IsDirectory(path) == path \in DOMAIN tree /\ tree[path].dir
IsEmpty(path)     == \A q \in DOMAIN tree : q # root => Front(q) # path

\* The paths a new file or directory may get.
Vacant == {Append(p, n) : p \in {q \in DOMAIN tree : tree[q].dir}, n \in TreeNames} \ DOMAIN tree

Files == {p \in DOMAIN tree : ~tree[p].dir}

With(path, node) == [p \in DOMAIN tree \cup {path} |-> IF p = path THEN node ELSE tree[p]]
Without(path)    == [p \in DOMAIN tree \ {path} |-> tree[p]]

\* Where the text of a write to a path may begin: an append goes on behind the text
\* that is there.
Starts(path) == IF path \in Files THEN {0, tree[path].size} ELSE {0}

\* A command that changes one path, and says so.
Create == \E p \in Vacant, node \in {Dir, File(0)} : answer' = "ok" /\ tree' = With(p, node)

Write == \E p \in Vacant \cup Files, n \in TreeTexts : \E from \in Starts(p) :
           answer' = "ok" /\ tree' = With(p, File(from + n))

\* The text of a write that ran out of space is cut short.
WriteCutShort ==
  \E p \in Vacant \cup Files, n \in TreeTexts : \E from \in Starts(p) : \E size \in from .. from + n - 1 :
    answer' = "noSpace" /\ tree' = With(p, File(size))

Delete == \E p \in DOMAIN tree \ {root, here} :
            /\ tree[p].dir => IsEmpty(p)
            /\ answer' = "ok" /\ tree' = Without(p)

Change == /\ \/ Create \/ Write \/ WriteCutShort \/ Delete
          /\ UNCHANGED here

\* To create a file that is there changes nothing.
Touch == Files # {} /\ answer' = "ok" /\ UNCHANGED <<tree, here>>

Move == /\ \E p \in DOMAIN tree : IsDirectory(p) /\ here' = p
        /\ answer' = "ok"
        /\ UNCHANGED tree

Refuse == answer' # "ok" /\ UNCHANGED <<tree, here>>

TreeNext == Change \/ Touch \/ Move \/ Refuse

TreeSpec == TreeInit /\ [][TreeNext]_treeVars
==============================================================================
