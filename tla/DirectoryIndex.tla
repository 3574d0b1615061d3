--------------------------- MODULE DirectoryIndex ---------------------------
(***************************************************************************)
(* The directory index of a container: directories and files as entries    *)
(* linked by first-child, next-sibling, first-file and next-file handles,  *)
(* and the walk that turns them into paths.  A path is the sequence of its *)
(* names; the mount point and the separators are left out.                 *)
(***************************************************************************)
EXTENDS Integers, Sequences, SequencesExt

InvalidHandle == -1
RootHandle == 0

(* [dirs  |-> by handle: [Name, FirstChildEntry, NextSiblingEntry,         *)
(*                        FirstFileEntry],                                 *)
(*  files |-> by handle: [Name, NextFileEntry, UserData]]                  *)

\* The visits of one directory's files, in the order of the list.
FilesFrom(index, first) ==
  LET from[f \in DOMAIN index.files \cup {InvalidHandle}] ==
        IF f = InvalidHandle THEN <<>>
        ELSE LET file == index.files[f]
             IN <<[path |-> <<file.Name>>, entry |-> file.UserData]>>
                  \o from[file.NextFileEntry]
  IN from[first]

Below(name, visits) ==
  [i \in DOMAIN visits |-> [visits[i] EXCEPT !.path = <<name>> \o @]]

(* Every file of the index with its path: a directory's own files, then    *)
(* those of each child.  No visitor of the program stops the walk.         *)
IterateDirectoryIndex(index) ==
  LET Children[d \in DOMAIN index.dirs \cup {InvalidHandle}] ==
        IF d = InvalidHandle THEN <<>>
        ELSE LET dir == index.dirs[d]
             IN Below(dir.Name, FilesFrom(index, dir.FirstFileEntry)
                                  \o Children[dir.FirstChildEntry])
                  \o Children[dir.NextSiblingEntry]
      root == index.dirs[RootHandle]
  IN FilesFrom(index, root.FirstFileEntry) \o Children[root.FirstChildEntry]

\* IndexToFileName: insert keeps the first path of an entry.
FileNames(index) ==
  LET visits == IterateDirectoryIndex(index)
      First(e) == CHOOSE i \in DOMAIN visits :
                    visits[i].entry = e /\ \A j \in 1 .. i - 1 : visits[j].entry # e
  IN [e \in {visits[i].entry : i \in DOMAIN visits} |-> visits[First(e)].path]

-----------------------------------------------------------------------------
(***************************************************************************)
(* The game's writer of such an index, and what it writes it for: a parent *)
(* for each directory but the root, a directory for each file.  The file   *)
(* or directory added last comes first in its list.                        *)
(***************************************************************************)
Youngest(S) == IF S = {} THEN InvalidHandle ELSE CHOOSE x \in S : \A y \in S : y <= x

Linked(tree) ==
  LET Dirs == DOMAIN tree.parent \cup {RootHandle}
      Kids(d) == {k \in DOMAIN tree.parent : tree.parent[k] = d}
      Own(d) == {f \in DOMAIN tree.dir : tree.dir[f] = d}
      Older(S, x) == Youngest({y \in S : y < x})
  IN [dirs |-> [d \in Dirs |->
        [Name |-> d,
         FirstChildEntry |-> Youngest(Kids(d)),
         NextSiblingEntry |-> IF d = RootHandle THEN InvalidHandle
                              ELSE Older(Kids(tree.parent[d]), d),
         FirstFileEntry |-> Youngest(Own(d))]],
      files |-> [f \in DOMAIN tree.dir |->
        [Name |-> f, NextFileEntry |-> Older(Own(tree.dir[f]), f), UserData |-> f]]]

\* The paths themselves, read off the tree.
TreePaths(tree) ==
  LET Way[d \in DOMAIN tree.parent \cup {RootHandle}] ==
        IF d = RootHandle THEN <<>> ELSE Append(Way[tree.parent[d]], d)
  IN [f \in DOMAIN tree.dir |-> Append(Way[tree.dir[f]], f)]
=============================================================================
