------------------------------ MODULE DataIndex -------------------------------
(***************************************************************************)
(* The index of the data pages of a tag, as CDataIndex (src/ec_dbindex.h)  *)
(* gives it to the data table: a map from index values to page numbers.    *)
(* This is exact for an index of one leaf, hundreds of pages; BPlusTree    *)
(* shows what larger trees make of it, and ObjFile how the dictionary of   *)
(* tags is kept.  Each call is one step.                                   *)
(***************************************************************************)
EXTENDS Integers, FiniteSetsExt, TLC

\* The dictionary has an entry for a tag as long as its map is not empty: the
\* index value 0 of the first page is there from the first to the last.
HasTag(ix) == DOMAIN ix # {}

\* find: the page with the greatest index value that is not above k.
GetIdx(ix, k) == ix[Max({i \in DOMAIN ix : i <= k})]

InsertIdx(ix, k, p) == [i \in DOMAIN ix \union {k} |-> IF i = k THEN p ELSE ix[i]]

\* erease takes an entry out if both its value and its page agree.
DelIdxRec(ix, k, p) ==
    [i \in {i \in DOMAIN ix : ~(i = k /\ ix[i] = p)} |-> ix[i]]

ClearIdxTree == [i \in {} |-> 0]

\* _rootdatapgno is set by the entry with value 0, and by no other.
GetRootDataPgNo(ix) == ix[0]
=============================================================================
