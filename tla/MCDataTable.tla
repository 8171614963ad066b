----------------------------- MODULE MCDataTable ------------------------------
(* Two tags, six keys; two records fill a page, or one that was updated and  *)
(* another.  Beside the table, whose few pages are in one leaf, stands a B+  *)
(* tree of pages with room for five items, and an object file that grows by  *)
(* three pages to six: a behaviour uses one of the three.                    *)
EXTENDS DataTable

SizeDef == (1 :> 3) @@ (2 :> 4)
PutsDef == {1 :> 1, 2 :> 1, 2 :> 2, 3 :> 1, 5 :> 1}
BatchesDef == {1 :> 1, (5 :> 1) @@ (6 :> 1), (1 :> 1) @@ (3 :> 2) @@ (4 :> 1)}
LoadsDef == {<<>>, <<{2}, {3, 4}, {6}>>,
             <<{1}, {2, 3}, {4}, {5}>>, <<{2, 3}, {4}, {5}, {6}>>}
TagsSymmetry == Permutations(Tags)

CONSTANTS Capacity, Entries, IndexPages, Faults, Histories, MaxOps
VARIABLES rootpgno, pages, leaked, damaged, done, ops
treevars == <<rootpgno, pages, leaked, damaged, done, ops>>
Tree == INSTANCE BPlusTree

\* Values 0 to 7, one of them also with another page, and one more.
EntriesDef == {<<k, k>> : k \in 0..7} \union {<<3, 33>>, <<26, 26>>, <<34, 34>>}
\* Trees of one to four rows.  In the last but one a leaf is too full for its
\* neighbour; in the last one value 26 is the last one in an index page that
\* neither neighbour has room for.
HistoriesDef ==
    {<<>>, <<0, 1, 2>>, <<0, 1, 2, 3, 4, 5, 6, 7>>, <<0, 7, 6, 5, 4, 3, 2, 1>>,
     <<0, 1, 2, 4, 5, 6, 3, -1>>,
     <<0, 41, 31, 27, 45, 51, 3, 29, 9, 26, 20, 25, 58, 36, 6, -25, 2, 13, 16, 44, 59, 33,
       25, 40, -36, -29, -27, 29, -25, -29, 17, 18, 4, 5>>}
IndexPagesDef == 11..29

CONSTANTS Contents, Parts, Grow, MaxPages, Files, Breaks, MaxWrites
VARIABLES info, saved, heads, map, found, broke, todo
filevars == <<info, saved, heads, map, found, broke, todo>>
File == INSTANCE ObjFile

\* Content 3 needs two pages.
PartsDef == <<1, 1, 2>>
\* A new file; one whose pages are all taken; and one where an object shrank,
\* another one took the page that was left, and then the first one went.
FilesDef ==
    LET Full(t, u) == << <<t, 1>>, <<u, 3>>, <<t, 2>> >>
        Turned(t, u) == << <<t, 3>>, <<u, 1>>, <<t, 1>>, <<u, 3>>, <<t, 0>> >>
        pairs == {pair \in Tags \X Tags : pair[1] # pair[2]}
    IN  {<<>>} \union {Full(pair[1], pair[2]) : pair \in pairs}
               \union {Turned(pair[1], pair[2]) : pair \in pairs}

NoTable ==
    /\ disk = [p \in PageNos |-> Absent] /\ dirty = << >> /\ free = <<>>
    /\ index = [t \in Tags |-> ClearIdxTree]
    /\ reply = [call |-> "none"] /\ calls = 0
NoTree == Tree!AtRest(Tree!NoTree) /\ ops = 0
NoFile == File!AtRest(File!NewFile) /\ todo = 0

StoreInit ==
    \/ Init /\ NoTree /\ NoFile
    \/ NoTable /\ Tree!Init /\ NoFile
    \/ NoTable /\ NoTree /\ File!Init
StoreNext ==
    \/ UNCHANGED <<treevars, filevars>> /\ Next
    \/ UNCHANGED <<vars, filevars>> /\ Tree!Next
    \/ UNCHANGED <<vars, treevars>> /\ File!Next
StoreSpec == StoreInit /\ [][StoreNext]_<<vars, treevars, filevars>>

\* The pages of the index form a sorted and linked tree, every taken page is in
\* it unless the storage failed to take it back, and find answers the index
\* value asked for or a neighbour of it, whatever call of the storage failed
\* (ec_bptree.h).  What ends this is said at BPlusTree!Sound.
TreeSound == Tree!Sound

\* To InsertIdx, DelIdxRec and ClearIdxTree the tree is the map from index
\* values to pages that DataIndex says it is; what GetIdx finds in it, which
\* may be above the index value asked for, is in TreeSound.
TreeKeepsMap == Tree!MapKept

\* In the object file the free pages are a list, by the information in memory
\* and by the saved one; the objects of the tags have pages of their own, and
\* none is on disk that no tag in memory stands for (ec_objfile.h).
DictionarySound == File!Sound

\* The dictionary of tags in the object file is a map with a copy on disk: what
\* a call says of one tag is in both, and only at a tag at which the storage
\* failed, or the process died, may the copy be one call behind.
DictionaryKept == File!KeptSpec
=============================================================================
