---------------------------- MODULE MCPatchManager ----------------------------
(* Small instances of the patch manager.  Paths are only compared for        *)
(* equality, and so are contents.                                            *)
EXTENDS PatchManager, TLC

PatchSymmetry == Permutations(Paths) \cup Permutations(Contents)

(* Files with \n line ends are read as they are.                            *)
UnixText == [content \in Contents |-> content]

(* Every change that can succeed on some file, with and without the content *)
(* of a deleted one, and one of a type the patch manager does not know.      *)
MCChanges ==
    {c \in [path : Paths, type : {"modified"}, old : Contents, new : Contents] : c.old # c.new}
    \cup [path : Paths, type : {"added"}, old : {Nothing}, new : Contents]
    \cup [path : Paths, type : {"deleted"}, old : Contents \cup {Nothing}, new : {Nothing}]
    \cup [path : Paths, type : {"unknown"}, old : {Nothing}, new : {Nothing}]
=============================================================================
