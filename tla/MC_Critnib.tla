----------------------------- MODULE MC_Critnib -----------------------------
(* Model-checking instance of Critnib: 8-bit words (two nibbles), so a    *)
(* tree has at most an inner node at shift 4 above nodes at shift 0.      *)
EXTENDS Critnib, TLC

CONSTANTS n1, n2, n3, l1, l2, l3, l4, v1, v2, r1, f1

\* Keys 0x30, 0x31 split at shift 0 below a node at shift 4 that also
\* holds 0x50.
MCKeys == {16, 48, 49, 80}
\* The reader looks up 0x30: nibble 3 at shift 4, nibble 0 at shift 0.
MCReadKeys == {48}
\* Enough for a node at shift 4 above a node at shift 0.
MCLoopKeys == {48, 49, 80}
\* Two keys that differ in the top nibble: the root is a node at shift 4.
MCIterKeys == {16, 80}
MCNodeIds == {n1, n2}
MCLeafIds == {l1, l2, l3}
MCVals == {v1}
\* A pool of one node, so that a second split fails with ENOMEM.
MCOneNode == {n1}
MCReaders == {r1}
\* Writers only: the pool and the abstract map do not depend on readers.
MCNoReaders == {}

MCFinders == {f1}
MCNoFinders == {}
MCNoFindArgs == {}
\* Calls that take every branch of find_le/find_ge over {0x30, 0x31, 0x50}:
\* <= 0x4f scans left from the empty slot 4 into the node of 0x3x and
\* needs find_predecessor; < 0x21 (<= 0x20) ends empty; > 0x20 (>= 0x21)
\* scans right into that node for find_successor, or, before 0x50 is in,
\* finds the root at shift 0 outside its key; > 0x50 (>= 0x51) exhausts
\* the scan; == 0x31 walks; the strict calls at 0 and 0xff return at once.
MCFindArgs ==
  {[op |-> "find", key |-> 79, dir |-> -1], [op |-> "find", key |-> 33, dir |-> -2],
   [op |-> "find", key |-> 32, dir |-> 2],  [op |-> "find", key |-> 80, dir |-> 2],
   [op |-> "find", key |-> 49, dir |-> 0],  [op |-> "find", key |-> 0, dir |-> -2],
   [op |-> "find", key |-> 255, dir |-> 2], [op |-> "le", key |-> 63, dir |-> -1]}
\* Two keys under one node at shift 0, which removes and inserts recycle.
MCPairKeys == {48, 49}
\* Fewer calls, for runs with removes: <= 0x4f, >= 0x21, == 0x31.
MCFindArgsRm ==
  {[op |-> "find", key |-> 79, dir |-> -1], [op |-> "find", key |-> 32, dir |-> 2],
   [op |-> "find", key |-> 49, dir |-> 0]}
\* 12-bit words: 0x010 and the node of 0x030, 0x031 under a node at shift
\* 4, beside 0x200 under the root at shift 8, so that find_predecessor
\* meets a node below a node.
MCDeepKeys == {16, 48, 49, 512}
MCDeepNodeIds == {n1, n2, n3}
MCDeepLeafIds == {l1, l2, l3, l4}
\* <= 0x1ff scans left from the root's empty slot 1 into the node at shift
\* 4 and descends twice, or meets that node, as root, outside its key;
\* >= 0x21 scans right into the node of 0x03x, or meets it outside its key
\* before 0x010 is in; >= 0x201 exhausts the root's slots; <= 0x2f scans
\* left onto the leaf 0x010; == 0x31 walks; strict calls at 0 and 0xfff
\* return at once.
MCDeepArgs ==
  {[op |-> "find", key |-> 511, dir |-> -1], [op |-> "find", key |-> 32, dir |-> 2],
   [op |-> "find", key |-> 512, dir |-> 2],  [op |-> "find", key |-> 49, dir |-> 0],
   [op |-> "find", key |-> 0, dir |-> -2],   [op |-> "find", key |-> 4095, dir |-> 2],
   [op |-> "le", key |-> 47, dir |-> -1]}
\* critnib_find_le(0x4f) over {0x30, 0x31, 0x50}: its answer is 0x31 or,
\* once 0x31 is removed, 0x30.
MCPredArgs == {[op |-> "le", key |-> 79, dir |-> -1]}

\* Loop scenario: the writers insert, then only remove (no insert is
\* started once remove_count has moved), a schedule a program can follow.
InsertsThenRemoves ==
  remove_count > 0 => wpc \notin {"ins_descend", "ins_clear", "ins_fill", "ins_link"}

\* Ranges for critnib_iter: inside the key space (0x11-0x4f) and from 1 up.
MCIterRanges == {<<17, 79>>, <<1, 255>>}

Symmetry == Permutations(MCNodeIds) \cup Permutations(MCLeafIds)
DeepSymmetry == Permutations(MCDeepNodeIds) \cup Permutations(MCDeepLeafIds)
=============================================================================
