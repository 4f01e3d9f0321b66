--------------------------- MODULE MCSupervision ----------------------------
(***************************************************************************)
(* Small trees for TLC: a flat one (the root and two plain actors) and a   *)
(* deep one (the root, a supervisor under it, and its child).              *)
(***************************************************************************)
EXTENDS Supervision

CONSTANTS root, a, b

All == {root, a, b}
FlatParent == [x \in All |-> root]
DeepParent == [x \in All |-> IF x = b THEN a ELSE root]
JustRoot == {root}
RootAndA == {root, a}
JustA == {a}
JustB == {b}
Leaves == {a, b}
None == {}
=============================================================================
