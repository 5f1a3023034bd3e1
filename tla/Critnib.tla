------------------------------- MODULE Critnib -------------------------------
(***************************************************************************)
(* The critnib tree of src/src/critnib/critnib.c: a crit-nibble radix tree *)
(* over W-bit keys, its pool of retired nodes and leaves with the          *)
(* DELETED_LIFE grace ring, the writers (critnib_insert, critnib_remove)   *)
(* serialised by the map's mutex, and lock-free readers (critnib_get)      *)
(* that walk the tree with single loads and retry when remove_count has    *)
(* advanced by DELETED_LIFE or more.                                       *)
(*                                                                         *)
(* Memory is a heap of node and leaf identities.  A pointer is NULL, a     *)
(* NodeId or a LeafId (the tag bit of is_leaf).  Storage handed out by     *)
(* umf_ba_global_alloc is taken from the identities not yet `allocated`;   *)
(* when none is left the allocation fails (ENOMEM).  Every shared store    *)
(* that a reader can observe in between is a step of its own; the stores  *)
(* a writer makes to storage no reader can reach are grouped.              *)
(***************************************************************************)
EXTENDS Integers, Sequences, FiniteSets, Bitwise
LOCAL INSTANCE SequencesExt

CONSTANTS
  W,             \* bits in a word (uintptr_t)
  Keys,          \* keys the writers insert and remove
  ReadKeys,      \* keys the readers look up
  Vals,          \* opaque values (void *) stored with a key
  NodeIds,       \* storage for struct critnib_node
  LeafIds,       \* storage for struct critnib_leaf
  Readers,       \* lock-free reader threads
  NULL,
  DELETED_LIFE,  \* length of the grace ring
  MaxRemoves,    \* bound on remove_count
  IterRanges,    \* <<min, max>> arguments of critnib_iter
  Finders,       \* lock-free threads calling critnib_find and critnib_find_le
  FindArgs       \* their calls: [op : {"find", "le"}, key : Word, dir : -2 .. 2]

ASSUME W \in {8, 12, 16} /\ DELETED_LIFE \in Nat \ {0}
ASSUME NodeIds \cap LeafIds = {} /\ NULL \notin NodeIds \cup LeafIds \cup Vals

SLICE == 4
NIB == 2^SLICE - 1
SLNODES == 2^SLICE
Slots == 0 .. NIB
WORD == 2^W
Word == 0 .. WORD - 1
Shifts == {s \in 0 .. W - 1 : s % SLICE = 0}
Ref == NodeIds \cup LeafIds \cup {NULL}
MaxDepth == W \div SLICE + 1      \* inner levels of a well-formed tree, plus the leaf

is_leaf(n) == n \in LeafIds

\* ~NIB << shift, truncated to the word
path_mask(sh) == ((WORD - 1 - NIB) * 2^sh) % WORD

slice_index(k, sh) == (k \div 2^sh) % SLNODES

\* utils_msb64: index of the highest set bit of x # 0
RECURSIVE Msb(_)
Msb(x) == IF x < 2 THEN 0 ELSE 1 + Msb(x \div 2)

VARIABLES
  root, child, path, shift,        \* struct critnib_node fields and c->root
  key, value,                      \* struct critnib_leaf fields
  deleted_node, deleted_leaf,      \* heads of the free lists
  pending_del_nodes, pending_del_leaves,  \* the grace ring
  remove_count,
  allocated,                       \* storage ever taken from the byte allocator
  wpc, wkey, wval, wupd,           \* the writer holding the mutex, its arguments
  wk, wm, wloc, wn, wnp, wdel,     \* and its locals (k/kn, m, parent, n, n_parent, del)
  rpc, rkey, rn, rwrs1, rres,      \* each reader's pc, key, n, wrs1, result
  seen,                            \* history: answers current since the call began
  fr                               \* each finder's frame (see FindIdle), with history

heap == <<root, child, path, shift, key, value>>
pool == <<deleted_node, deleted_leaf, pending_del_nodes, pending_del_leaves,
          remove_count, allocated>>
wvars == <<wpc, wkey, wval, wupd, wk, wm, wloc, wn, wnp, wdel>>
rvars == <<rpc, rkey, rn, rwrs1, rres, seen>>
vars == <<heap, pool, wvars, rvars, fr>>

\* A store target: &c->root, or &n->child[slot].
Locs == [node : NodeIds \cup {NULL}, slot : Slots]
RootLoc == [node |-> NULL, slot |-> 0]
At(n, i) == [node |-> n, slot |-> i]

-----------------------------------------------------------------------------
(* The tree as the readers' and writers' pointers make it.                 *)

RECURSIVE LeavesUnder(_, _)
LeavesUnder(n, d) ==
  IF n = NULL \/ d = 0 THEN {}
  ELSE IF is_leaf(n) THEN {n}
  ELSE UNION {LeavesUnder(child[n][i], d - 1) : i \in Slots}

RECURSIVE NodesUnder(_, _)
NodesUnder(n, d) ==
  IF n \in NodeIds /\ d > 0
  THEN {n} \cup UNION {NodesUnder(child[n][i], d - 1) : i \in Slots}
  ELSE {}

LiveLeaves == LeavesUnder(root, MaxDepth)
LiveNodes == NodesUnder(root, MaxDepth)

\* The map the tree holds: key of each reachable leaf to its value.
Map == [k \in {key[l] : l \in LiveLeaves} |->
          value[CHOOSE l \in LiveLeaves : key[l] = k]]

\* What critnib_get(k) should return in the current state.
Answer(k) == IF k \in DOMAIN Map THEN Map[k] ELSE NULL

\* The free list of nodes (chained through child[0]) or leaves (through value).
RECURSIVE NodeChain(_, _)
NodeChain(n, d) ==
  IF n \in NodeIds /\ d > 0 THEN {n} \cup NodeChain(child[n][0], d - 1) ELSE {}
RECURSIVE LeafChain(_, _)
LeafChain(l, d) ==
  IF l \in LeafIds /\ d > 0 THEN {l} \cup LeafChain(value[l], d - 1) ELSE {}

\* What a call c of critnib_find should find in map m: the greatest key
\* below (dir -2) or at most (-1) c.key, the least key at least (+1) or
\* above (+2) it, or the key itself (0); NoRes when there is none.
NoRes == [key |-> NULL, val |-> NULL]
Asked(x, c) ==
  CASE c.dir < -1 -> x < c.key  [] c.dir = -1 -> x <= c.key  [] c.dir = 0 -> x = c.key
    [] c.dir = 1 -> x >= c.key  [] c.dir > 1 -> x > c.key
FindAnswerIn(m, c) ==
  LET S == {x \in DOMAIN m : Asked(x, c)}
      x == IF c.dir < 0 THEN Max(S) ELSE Min(S)
  IN  IF S = {} THEN NoRes ELSE [key |-> x, val |-> m[x]]

\* The key-value bindings of map m.
Bindings(m) == {[key |-> x, val |-> m[x]] : x \in DOMAIN m}

\* critnib_find_le reports the value only.
Reported(op, a) == IF op = "le" THEN [a EXCEPT !.key = NULL] ELSE a

\* Every writer step adds the answer it makes current to the record of
\* each reader and finder that is inside a call, and the finder's record
\* of keys present during the call.
Observe ==
  /\ UNCHANGED <<rpc, rkey, rn, rwrs1, rres>>
  /\ seen' = [r \in Readers |->
               IF rpc[r] \in {"walk", "retry"}
               THEN seen[r] \cup {Answer(rkey[r])'}
               ELSE seen[r]]
  /\ fr' = [r \in Finders |->
             IF fr[r].pc \in {"idle", "done"} THEN fr[r]
             ELSE [fr[r] EXCEPT
                     !.seen = @ \cup {Reported(fr[r].call.op, FindAnswerIn(Map', fr[r].call))},
                     !.present = @ \cup Bindings(Map')]]

-----------------------------------------------------------------------------
(* Pool helpers: free_node, free_leaf (lines 242-282) and the byte         *)
(* allocator.                                                              *)

FreshNodes == NodeIds \ allocated
FreshLeaves == LeafIds \ allocated

\* The writer releases the mutex and forgets its locals.
Unlock ==
  /\ wpc' = "idle"
  /\ wkey' = NULL /\ wval' = NULL /\ wupd' = FALSE
  /\ wk' = NULL /\ wm' = NULL /\ wloc' = RootLoc
  /\ wn' = NULL /\ wnp' = RootLoc /\ wdel' = 0

\* Store x at location loc (utils_atomic_store_release_ptr).
StoreAt(loc, x, ch) ==
  IF loc.node = NULL
  THEN root' = x /\ child' = ch
  ELSE root' = root /\ child' = [ch EXCEPT ![loc.node][loc.slot] = x]

-----------------------------------------------------------------------------
(* critnib_insert, lines 310-397.                                           *)

\* Lines 311-325: lock, alloc_leaf, store key and value into the new leaf.
\* When no leaf can be had (lines 313-318, ENOMEM) the call changes nothing:
\* it is a stuttering step.
InsertLeaf(k, v, u) ==
  /\ wpc = "idle"
  /\ \/ /\ deleted_leaf # NULL                       \* reuse a pooled leaf
        /\ deleted_leaf' = value[deleted_leaf]
        /\ key' = [key EXCEPT ![deleted_leaf] = k]
        /\ value' = [value EXCEPT ![deleted_leaf] = v]
        /\ wk' = deleted_leaf
        /\ UNCHANGED allocated
     \/ /\ deleted_leaf = NULL
        /\ \E f \in FreshLeaves :
             /\ allocated' = allocated \cup {f}
             /\ key' = [key EXCEPT ![f] = k]
             /\ value' = [value EXCEPT ![f] = v]
             /\ wk' = f
        /\ UNCHANGED deleted_leaf
  /\ wpc' = "ins_descend" /\ wkey' = k /\ wval' = v /\ wupd' = u
  /\ UNCHANGED <<root, child, path, shift, deleted_node, pending_del_nodes,
                 pending_del_leaves, remove_count, wm, wloc, wn, wnp, wdel>>
  /\ Observe

\* Lines 334-341: descend while the node is inner and its path is a prefix
\* of the key; the result is [parent, prev, n] as the loop leaves them.
RECURSIVE InsDescend(_, _, _, _, _)
InsDescend(k, par, prev, n, d) ==
  IF n # NULL /\ ~is_leaf(n) /\ (k & path_mask(shift[n])) = path[n] /\ d > 0
  THEN InsDescend(k, At(n, slice_index(k, shift[n])), n,
                  child[n][slice_index(k, shift[n])], d - 1)
  ELSE [parent |-> par, prev |-> prev, n |-> n]

\* Lines 327-332: empty tree, the leaf becomes the root.
InsertRoot ==
  /\ wpc = "ins_descend" /\ root = NULL
  /\ root' = wk
  /\ Unlock
  /\ UNCHANGED <<child, path, shift, key, value, pool>>
  /\ Observe

\* Lines 343-351: the descent ended at an empty slot of prev; publish there.
InsertSlot ==
  /\ wpc = "ins_descend" /\ root # NULL
  /\ LET d == InsDescend(wkey, RootLoc, root, root, MaxDepth) IN
       /\ d.n = NULL
       /\ child' = [child EXCEPT ![d.prev][slice_index(wkey, shift[d.prev])] = wk]
  /\ Unlock
  /\ UNCHANGED <<root, path, shift, key, value, pool>>
  /\ Observe

\* Mutation: the scratch leaf of an update/EEXIST insert is not freed.
InsertExistsLeaks ==
  /\ wpc = "ins_descend" /\ root # NULL
  /\ LET n == InsDescend(wkey, RootLoc, root, root, MaxDepth).n IN
       /\ n # NULL /\ is_leaf(n) /\ (key[n] ^^ wkey) = 0
       /\ value' = [value EXCEPT ![n] = IF wupd THEN wval ELSE @]
  /\ Unlock
  /\ UNCHANGED <<root, child, path, shift, key, deleted_node, deleted_leaf,
                 pending_del_nodes, pending_del_leaves, remove_count, allocated>>
  /\ Observe

\* Lines 353-368: the key is present.  The new leaf goes back to the pool;
\* with update the existing leaf gets the new value, else EEXIST.
InsertExists ==
  /\ wpc = "ins_descend" /\ root # NULL
  /\ LET n == InsDescend(wkey, RootLoc, root, root, MaxDepth).n IN
       /\ n # NULL /\ is_leaf(n) /\ (key[n] ^^ wkey) = 0
       /\ value' = [value EXCEPT ![wk] = deleted_leaf,
                                 ![n] = IF wupd THEN wval ELSE @]
       /\ deleted_leaf' = wk
  /\ Unlock
  /\ UNCHANGED <<root, child, path, shift, key, deleted_node, pending_del_nodes,
                 pending_del_leaves, remove_count, allocated>>
  /\ Observe

\* Lines 353-371: the nibble where the new key and the key or path of n
\* first differ.
NodeKey(n) == IF is_leaf(n) THEN key[n] ELSE path[n]
SplitShift(k, n) ==
  LET at == NodeKey(n) ^^ k IN Msb(at) - (Msb(at) % SLICE)

\* Lines 353-390: the key leaves the subtree at n.  A new node m is taken
\* from the pool (or the allocator) and filled with the new leaf and n at
\* the nibble where their paths first differ; ENOMEM if there is none.  A
\* node from the allocator is out of every reader's reach, so its stores
\* are one step; a node from the pool may still hold a stalled reader, so
\* its refill goes on in InsertClear and InsertFill.
InsertSplit ==
  /\ wpc = "ins_descend" /\ root # NULL
  /\ LET d == InsDescend(wkey, RootLoc, root, root, MaxDepth)
         n == d.n
         sh == SplitShift(wkey, n)
     IN
       /\ n # NULL /\ (NodeKey(n) ^^ wkey) # 0
       /\ wloc' = d.parent /\ wn' = n
       /\ \/ /\ deleted_node # NULL                   \* alloc_node from the pool
             /\ deleted_node' = child[deleted_node][0]
             /\ wm' = deleted_node /\ wpc' = "ins_clear"
             /\ UNCHANGED <<child, path, shift, allocated>>
          \/ /\ deleted_node = NULL
             /\ \E f \in FreshNodes :
                  /\ allocated' = allocated \cup {f}
                  /\ child' = [child EXCEPT ![f] =
                                 [[i \in Slots |-> NULL] EXCEPT
                                    ![slice_index(wkey, sh)] = wk,
                                    ![slice_index(NodeKey(n), sh)] = n]]
                  /\ shift' = [shift EXCEPT ![f] = sh]
                  /\ path' = [path EXCEPT ![f] = wkey & path_mask(sh)]
                  /\ wm' = f /\ wpc' = "ins_link"
             /\ UNCHANGED deleted_node
  /\ UNCHANGED <<root, key, value, deleted_leaf, pending_del_nodes, pending_del_leaves,
                 remove_count, wkey, wval, wupd, wk, wnp, wdel>>
  /\ Observe

\* Lines 381-386 on a node from the pool: the stores of NULL reach the
\* slots that still point somewhere one at a time (a store over NULL is
\* not seen); then the new leaf is stored at its nibble.
InsertClear ==
  /\ wpc = "ins_clear"
  /\ LET held == {i \in Slots : child[wm][i] # NULL}
     IN \/ held # {} /\ child' = [child EXCEPT ![wm][Min(held)] = NULL]
                     /\ UNCHANGED wpc
        \/ /\ held = {}
           /\ child' = [child EXCEPT ![wm][slice_index(wkey, SplitShift(wkey, wn))] = wk]
           /\ wpc' = "ins_fill"
  /\ UNCHANGED <<root, path, shift, key, value, pool, wkey, wval, wupd, wk, wm,
                 wloc, wn, wnp, wdel>>
  /\ Observe

\* Lines 387-389: n is stored at its nibble, then the shift and the path.
InsertFill ==
  /\ wpc = "ins_fill"
  /\ LET sh == SplitShift(wkey, wn)
     IN /\ child' = [child EXCEPT ![wm][slice_index(NodeKey(wn), sh)] = wn]
        /\ shift' = [shift EXCEPT ![wm] = sh]
        /\ path' = [path EXCEPT ![wm] = wkey & path_mask(sh)]
  /\ wpc' = "ins_link"
  /\ UNCHANGED <<root, key, value, pool, wkey, wval, wupd, wk, wm, wloc, wn, wnp, wdel>>
  /\ Observe

\* Mutation: on ENOMEM the new leaf is not given back (line 375 dropped).
InsertNoNodeLeaks ==
  /\ wpc = "ins_descend" /\ root # NULL
  /\ LET n == InsDescend(wkey, RootLoc, root, root, MaxDepth).n
     IN  n # NULL /\ (NodeKey(n) ^^ wkey) # 0
  /\ deleted_node = NULL /\ FreshNodes = {}
  /\ Unlock
  /\ UNCHANGED <<root, child, path, shift, key, value, deleted_node, deleted_leaf,
                 pending_del_nodes, pending_del_leaves, remove_count, allocated>>
  /\ Observe

\* Lines 373-380: no node can be had; the new leaf goes back to the pool, ENOMEM.
InsertNoNode ==
  /\ wpc = "ins_descend" /\ root # NULL
  /\ LET n == InsDescend(wkey, RootLoc, root, root, MaxDepth).n
     IN  n # NULL /\ (NodeKey(n) ^^ wkey) # 0
  /\ deleted_node = NULL /\ FreshNodes = {}
  /\ value' = [value EXCEPT ![wk] = deleted_leaf]
  /\ deleted_leaf' = wk
  /\ Unlock
  /\ UNCHANGED <<root, child, path, shift, key, deleted_node, pending_del_nodes,
                 pending_del_leaves, remove_count, allocated>>
  /\ Observe

\* Lines 392-396: publish m into the slot the descent left from.
InsertLink ==
  /\ wpc = "ins_link"
  /\ StoreAt(wloc, wm, child)
  /\ Unlock
  /\ UNCHANGED <<path, shift, key, value, pool>>
  /\ Observe

-----------------------------------------------------------------------------
(* critnib_remove, lines 402-480.                                           *)

\* Mutation: remove_count advanced twice per remove.
RemoveBeginTwice(k) ==
  /\ wpc = "idle" /\ remove_count < MaxRemoves
  /\ root # NULL
  /\ remove_count' = remove_count + 2
  /\ wdel' = remove_count % DELETED_LIFE
  /\ wkey' = k /\ wpc' = "rm_free"
  /\ UNCHANGED <<heap, deleted_node, deleted_leaf, pending_del_nodes,
                 pending_del_leaves, allocated, wval, wupd, wk, wm, wloc,
                 wn, wnp>>
  /\ Observe

\* Lines 406-414: lock, take the next ring slot by incrementing remove_count.
\* On an empty tree (lines 408-411) the call changes nothing: a stuttering step.
RemoveBegin(k) ==
  /\ wpc = "idle" /\ remove_count < MaxRemoves
  /\ root # NULL
  /\ remove_count' = remove_count + 1
  /\ wdel' = remove_count % DELETED_LIFE
  /\ wkey' = k /\ wpc' = "rm_free"
  /\ UNCHANGED <<heap, deleted_node, deleted_leaf, pending_del_nodes,
                 pending_del_leaves, allocated, wval, wupd, wk, wm, wloc,
                 wn, wnp>>
  /\ Observe

\* Lines 415-418: what the slot held DELETED_LIFE removes ago goes to the
\* free lists (free_node writes child[0], free_leaf writes value).
RemoveFree ==
  /\ wpc = "rm_free"
  /\ LET on == pending_del_nodes[wdel]
         ol == pending_del_leaves[wdel]
     IN /\ child' = IF on = NULL THEN child
                    ELSE [child EXCEPT ![on][0] = deleted_node]
        /\ deleted_node' = IF on = NULL THEN deleted_node ELSE on
        /\ value' = IF ol = NULL THEN value ELSE [value EXCEPT ![ol] = deleted_leaf]
        /\ deleted_leaf' = IF ol = NULL THEN deleted_leaf ELSE ol
  /\ pending_del_nodes' = [pending_del_nodes EXCEPT ![wdel] = NULL]
  /\ pending_del_leaves' = [pending_del_leaves EXCEPT ![wdel] = NULL]
  /\ wpc' = "rm_unlink"
  /\ UNCHANGED <<root, path, shift, key, remove_count, allocated, wkey,
                 wval, wupd, wk, wm, wloc, wn, wnp, wdel>>
  /\ Observe

\* Mutation: the root leaf is removed without comparing its key.
RemoveRootLeafAnyKey ==
  /\ wpc = "rm_unlink" /\ is_leaf(root)
  /\ root' = NULL /\ pending_del_leaves' = [pending_del_leaves EXCEPT ![wdel] = root]
  /\ Unlock
  /\ UNCHANGED <<child, path, shift, key, value, deleted_node, deleted_leaf,
                 pending_del_nodes, remove_count, allocated>>
  /\ Observe

\* Lines 420-428: the root is a leaf; if it holds the key the root is
\* cleared and the leaf retired into the slot.
RemoveRootLeaf ==
  /\ wpc = "rm_unlink" /\ is_leaf(root)
  /\ IF key[root] = wkey
     THEN root' = NULL /\ pending_del_leaves' = [pending_del_leaves EXCEPT ![wdel] = root]
     ELSE UNCHANGED <<root, pending_del_leaves>>
  /\ Unlock
  /\ UNCHANGED <<child, path, shift, key, value, deleted_node, deleted_leaf,
                 pending_del_nodes, remove_count, allocated>>
  /\ Observe

\* Lines 433-446: descend by nibbles only, remembering n, n_parent and the
\* leaf kn; [n, np, kn] with kn = NULL when a slot on the way is empty.
RECURSIVE RmDescend(_, _, _, _, _, _)
RmDescend(k, kpar, npar, n, kn, d) ==
  IF kn = NULL \/ is_leaf(kn) \/ d = 0
  THEN [n |-> n, np |-> npar, kn |-> kn]
  ELSE RmDescend(k, At(kn, slice_index(k, shift[kn])), kpar, kn,
                 child[kn][slice_index(k, shift[kn])], d - 1)

RmFound == RmDescend(wkey, RootLoc, RootLoc, root, root, MaxDepth)

\* Lines 437-451: no leaf with the key; nothing but the ring slot changed.
RemoveNotFound ==
  /\ wpc = "rm_unlink" /\ root \in NodeIds
  /\ LET kn == RmFound.kn IN kn = NULL \/ (kn # NULL /\ key[kn] # wkey)
  /\ Unlock
  /\ UNCHANGED <<heap, pool>>
  /\ Observe

\* Lines 448-454: the leaf is found; its slot in the parent n is cleared.
RemoveUnlink ==
  /\ wpc = "rm_unlink" /\ root \in NodeIds
  /\ LET f == RmFound IN
       /\ f.kn # NULL /\ key[f.kn] = wkey
       /\ child' = [child EXCEPT ![f.n][slice_index(wkey, shift[f.n])] = NULL]
       /\ wn' = f.n /\ wnp' = f.np /\ wk' = f.kn
  /\ wpc' = "rm_splice"
  /\ UNCHANGED <<root, path, shift, key, value, pool, wkey, wval, wupd,
                 wm, wloc, wdel>>
  /\ Observe

\* Mutation: a node left with one child is never spliced out.
RemoveSpliceNever ==
  /\ wpc = "rm_splice"
  /\ {i \in Slots : child[wn][i] # NULL} # {}
  /\ pending_del_leaves' = [pending_del_leaves EXCEPT ![wdel] = wk]
  /\ Unlock
  /\ UNCHANGED <<root, child, pending_del_nodes, path, shift, key, value,
                 deleted_node, deleted_leaf, remove_count, allocated>>
  /\ Observe

\* Lines 456-479: if n is left with one child it is spliced out (n_parent
\* gets the child) and retired; the leaf is retired; unlock.
RemoveSplice ==
  /\ wpc = "rm_splice"
  /\ LET rest == {i \in Slots : child[wn][i] # NULL} IN
       /\ rest # {}
       /\ IF Cardinality(rest) = 1
          THEN /\ StoreAt(wnp, child[wn][CHOOSE i \in rest : TRUE], child)
               /\ pending_del_nodes' = [pending_del_nodes EXCEPT ![wdel] = wn]
          ELSE UNCHANGED <<root, child, pending_del_nodes>>
  /\ pending_del_leaves' = [pending_del_leaves EXCEPT ![wdel] = wk]
  /\ Unlock
  /\ UNCHANGED <<path, shift, key, value, deleted_node, deleted_leaf,
                 remove_count, allocated>>
  /\ Observe

-----------------------------------------------------------------------------
(* critnib_get, lines 492-519: a reader thread.                            *)

\* Lines 496-500: (re)start: load remove_count into wrs1, then the root.
\* A new call also starts the record of the answers current during it.
GetCall(r, k) ==
  /\ rpc[r] = "idle"
  /\ rkey' = [rkey EXCEPT ![r] = k]
  /\ seen' = [seen EXCEPT ![r] = {Answer(k)}]
  /\ rwrs1' = [rwrs1 EXCEPT ![r] = remove_count]
  /\ rn' = [rn EXCEPT ![r] = root]
  /\ rpc' = [rpc EXCEPT ![r] = "walk"]
  /\ UNCHANGED <<heap, pool, wvars, fr, rres>>

GetRetry(r) ==
  /\ rpc[r] = "retry"
  /\ rwrs1' = [rwrs1 EXCEPT ![r] = remove_count]
  /\ rn' = [rn EXCEPT ![r] = root]
  /\ rpc' = [rpc EXCEPT ![r] = "walk"]
  /\ UNCHANGED <<heap, pool, wvars, fr, rkey, rres, seen>>

\* Lines 507-510: one load of n->child[slice_index(key, n->shift)].
GetWalk(r) ==
  /\ rpc[r] = "walk" /\ rn[r] \in NodeIds
  /\ rn' = [rn EXCEPT ![r] = child[rn[r]][slice_index(rkey[r], shift[rn[r]])]]
  /\ UNCHANGED <<heap, pool, wvars, fr, rpc, rkey, rwrs1, rres, seen>>

\* Mutation: the reader retries only after more than DELETED_LIFE removes.
GetEndLateRetry(r) ==
  /\ rpc[r] = "walk" /\ rn[r] \notin NodeIds
  /\ LET n == rn[r]
         res == IF n # NULL /\ key[n] = rkey[r] THEN value[n] ELSE NULL
     IN IF rwrs1[r] + DELETED_LIFE < remove_count
        THEN rpc' = [rpc EXCEPT ![r] = "retry"] /\ UNCHANGED rres
        ELSE rpc' = [rpc EXCEPT ![r] = "done"] /\ rres' = [rres EXCEPT ![r] = res]
  /\ UNCHANGED <<heap, pool, wvars, fr, rkey, rn, rwrs1, seen>>

\* Lines 513-516: read the leaf, load remove_count into wrs2; retry if
\* DELETED_LIFE or more removes happened since wrs1.
GetEnd(r) ==
  /\ rpc[r] = "walk" /\ rn[r] \notin NodeIds
  /\ LET n == rn[r]
         res == IF n # NULL /\ key[n] = rkey[r] THEN value[n] ELSE NULL
     IN IF rwrs1[r] + DELETED_LIFE <= remove_count
        THEN rpc' = [rpc EXCEPT ![r] = "retry"] /\ UNCHANGED rres
        ELSE rpc' = [rpc EXCEPT ![r] = "done"] /\ rres' = [rres EXCEPT ![r] = res]
  /\ UNCHANGED <<heap, pool, wvars, fr, rkey, rn, rwrs1, seen>>

\* Line 518: return to the caller, which may call again.
GetReturn(r) ==
  /\ rpc[r] = "done"
  /\ rpc' = [rpc EXCEPT ![r] = "idle"]
  /\ rn' = [rn EXCEPT ![r] = NULL]
  /\ rres' = [rres EXCEPT ![r] = NULL]
  /\ seen' = [seen EXCEPT ![r] = {}]
  /\ UNCHANGED <<heap, pool, wvars, fr, rkey, rwrs1>>

-----------------------------------------------------------------------------
(* critnib_find (lines 726-784) and critnib_find_le (lines 629-643): a     *)
(* finder thread.  find_le and find_ge (lines 555-622, 678-721) recurse;   *)
(* the model keeps the activations that wait for their recursive call in   *)
(* `stack`, each with its node and the nibble it has scanned down (or up)  *)
(* to; `n` and `nib` are the node the running activation or                *)
(* find_predecessor/find_successor (lines 525-550, 648-673) is at.  Every  *)
(* load of a child pointer is a step; the reads of a node's path and shift *)
(* and of a leaf's key are taken with the load that reached it.  find_ge   *)
(* mirrors find_le, so one set of actions serves both with dir = -1 or +1. *)

FindIdle == [pc |-> "idle", call |-> [op |-> "find", key |-> 0, dir |-> 0], key |-> 0, dir |-> 0, n |-> NULL,
             nib |-> 0, stack |-> <<>>, wrs1 |-> 0, leaf |-> NULL, res |-> NoRes,
             seen |-> {}, present |-> {}]

\* The direction's order on keys (lines 563, 686), which side of the key a
\* subtree lies on (lines 581, 690), where a scan for the extreme leaf
\* starts (lines 528, 651) and where a scan ends.
InOrder(a, k, dir) == IF dir < 0 THEN a <= k ELSE a >= k
Beyond(p, k, dir) == IF dir < 0 THEN p < k ELSE p > k
FirstSlot(dir) == IF dir < 0 THEN NIB ELSE 0
LastSlot(dir) == IF dir < 0 THEN 0 ELSE NIB

\* Lines 576, 689: the key differs from the node's path above its nibble.
Outside(k, n) == ((k ^^ path[n]) \div 2^shift[n]) & (WORD - 1 - NIB) # 0

\* The running activation returns leaf l (or NULL) to its caller: a leaf
\* ends the search (lines 598-600), NULL resumes the waiting activation's
\* scan of its siblings (line 608), or ends the search if there is none.
Back(f, l) ==
  IF l # NULL \/ f.stack = <<>>
  THEN [f EXCEPT !.pc = "end", !.leaf = l, !.stack = <<>>]
  ELSE [f EXCEPT !.pc = "scan"]

\* Lines 733-744 (critnib_find_le: 629-632): a strict direction moves the
\* key by one; no key is below 0 or above the greatest word.  A new call
\* starts the records of the answers and the keys current during it.
FindCall(r, c) ==
  /\ fr[r].pc = "idle"
  /\ LET early == (c.dir < -1 /\ c.key = 0) \/ (c.dir > 1 /\ c.key = WORD - 1)
         k == IF early THEN c.key ELSE IF c.dir < -1 THEN c.key - 1
              ELSE IF c.dir > 1 THEN c.key + 1 ELSE c.key
         d == IF c.dir < 0 THEN -1 ELSE IF c.dir > 0 THEN 1 ELSE 0
     IN  fr' = [fr EXCEPT ![r] = [FindIdle EXCEPT
                  !.pc = IF early THEN "done" ELSE "start", !.call = c,
                  !.key = k, !.dir = d,
                  !.seen = {Reported(c.op, FindAnswerIn(Map, c))},
                  !.present = Bindings(Map)]]
  /\ UNCHANGED <<heap, pool, wvars, rvars>>

\* Lines 746-749 (633-636): (re)start: load remove_count into wrs1, then
\* the root, and call find_le, find_ge or walk to the exact key.
FindStart(r) ==
  /\ fr[r].pc = "start"
  /\ fr' = [fr EXCEPT ![r].pc = IF fr[r].dir = 0 THEN "exact" ELSE "node",
                      ![r].wrs1 = remove_count, ![r].n = root, ![r].stack = <<>>]
  /\ UNCHANGED <<heap, pool, wvars, rvars>>

\* Mutation: a subtree outside the key is searched for its extreme leaf
\* when it lies on the far side (the test of line 581 inverted).
FindNodeWrongSide(r) ==
  /\ fr[r].pc = "node"
  /\ LET f == fr[r]
         n == f.n
     IN \/ n = NULL /\ fr' = [fr EXCEPT ![r] = Back(f, NULL)]
        \/ /\ is_leaf(n)
           /\ fr' = [fr EXCEPT ![r] = Back(f, IF InOrder(key[n], f.key, f.dir) THEN n ELSE NULL)]
        \/ /\ n \in NodeIds /\ Outside(f.key, n)
           /\ fr' = [fr EXCEPT ![r] = IF ~Beyond(path[n], f.key, f.dir)
                                      THEN [f EXCEPT !.pc = "pred", !.nib = FirstSlot(f.dir)]
                                      ELSE Back(f, NULL)]
        \/ /\ n \in NodeIds /\ ~Outside(f.key, n)
           /\ LET nib == slice_index(f.key, shift[n])
              IN  fr' = [fr EXCEPT ![r].stack = Append(f.stack, [n |-> n, nib |-> nib]),
                                   ![r].n = child[n][nib]]
  /\ UNCHANGED <<heap, pool, wvars, rvars>>

\* Lines 557-597 (680-701): an activation of find_le or find_ge on n.
FindNode(r) ==
  /\ fr[r].pc = "node"
  /\ LET f == fr[r]
         n == f.n
     IN \/ n = NULL /\ fr' = [fr EXCEPT ![r] = Back(f, NULL)]
        \/ /\ is_leaf(n)
           /\ fr' = [fr EXCEPT ![r] = Back(f, IF InOrder(key[n], f.key, f.dir) THEN n ELSE NULL)]
        \/ /\ n \in NodeIds /\ Outside(f.key, n)
           /\ fr' = [fr EXCEPT ![r] = IF Beyond(path[n], f.key, f.dir)
                                      THEN [f EXCEPT !.pc = "pred", !.nib = FirstSlot(f.dir)]
                                      ELSE Back(f, NULL)]
        \/ /\ n \in NodeIds /\ ~Outside(f.key, n)
           /\ LET nib == slice_index(f.key, shift[n])
              IN  fr' = [fr EXCEPT ![r].stack = Append(f.stack, [n |-> n, nib |-> nib]),
                                   ![r].n = child[n][nib]]
  /\ UNCHANGED <<heap, pool, wvars, rvars>>

\* Lines 608-621 (707-720): the waiting activation loads its next sibling
\* slot; the first non-null one is returned if a leaf, or searched for its
\* extreme leaf, whose result the activation returns.  Past the last slot
\* it returns NULL.
FindScan(r) ==
  /\ fr[r].pc = "scan"
  /\ LET f == fr[r]
         top == Last(f.stack)
         i == top.nib + (IF f.dir < 0 THEN -1 ELSE 1)
         m == child[top.n][i]
     IN \/ /\ top.nib = LastSlot(f.dir)
           /\ fr' = [fr EXCEPT ![r] = Back([f EXCEPT !.stack = Front(f.stack)], NULL)]
        \/ /\ top.nib # LastSlot(f.dir) /\ m = NULL
           /\ fr' = [fr EXCEPT ![r].stack[Len(f.stack)].nib = i]
        \/ /\ top.nib # LastSlot(f.dir) /\ is_leaf(m)
           /\ fr' = [fr EXCEPT ![r] = Back(f, m)]
        \/ /\ top.nib # LastSlot(f.dir) /\ m \in NodeIds
           /\ fr' = [fr EXCEPT ![r] = [f EXCEPT !.pc = "pred", !.n = m,
                                        !.nib = FirstSlot(f.dir), !.stack = Front(f.stack)]]
  /\ UNCHANGED <<heap, pool, wvars, rvars>>

\* Lines 528-538 (651-661): find_predecessor (find_successor) loads the
\* slots from the high (low) end to the first non-null one.
FindPredecessor(r) ==
  /\ fr[r].pc = "pred"
  /\ LET f == fr[r]
     IN \/ child[f.n][f.nib] # NULL /\ fr' = [fr EXCEPT ![r].pc = "reload"]
        \/ /\ child[f.n][f.nib] = NULL /\ f.nib # LastSlot(f.dir)
           /\ fr' = [fr EXCEPT ![r].nib = f.nib + (IF f.dir < 0 THEN -1 ELSE 1)]
        \/ /\ child[f.n][f.nib] = NULL /\ f.nib = LastSlot(f.dir)
           /\ fr' = [fr EXCEPT ![r] = Back(f, NULL)]
  /\ UNCHANGED <<heap, pool, wvars, rvars>>

\* Lines 540-548 (663-671): it loads that slot again and returns what it
\* finds there if that is NULL or a leaf, or goes on down into the node.
FindReload(r) ==
  /\ fr[r].pc = "reload"
  /\ LET f == fr[r]
         m == child[f.n][f.nib]
     IN \/ m \notin NodeIds /\ fr' = [fr EXCEPT ![r] = Back(f, m)]
        \/ /\ m \in NodeIds
           /\ fr' = [fr EXCEPT ![r].pc = "pred", ![r].n = m, ![r].nib = FirstSlot(f.dir)]
  /\ UNCHANGED <<heap, pool, wvars, rvars>>

\* Lines 756-763: dir 0 walks like critnib_get and checks the leaf's key.
FindExact(r) ==
  /\ fr[r].pc = "exact"
  /\ LET f == fr[r]
         n == f.n
     IN \/ /\ n \in NodeIds
           /\ fr' = [fr EXCEPT ![r].n = child[n][slice_index(f.key, shift[n])]]
        \/ /\ n \notin NodeIds
           /\ fr' = [fr EXCEPT ![r].pc = "end",
                               ![r].leaf = IF n # NULL /\ key[n] = f.key THEN n ELSE NULL]
  /\ UNCHANGED <<heap, pool, wvars, rvars>>

\* Mutation: the finder retries only after more than DELETED_LIFE removes.
FindEndLateRetry(r) ==
  /\ fr[r].pc = "end"
  /\ LET f == fr[r]
         l == f.leaf
         res == IF l = NULL THEN NoRes ELSE Reported(f.call.op, [key |-> key[l], val |-> value[l]])
     IN fr' = [fr EXCEPT ![r] = IF f.wrs1 + DELETED_LIFE < remove_count
                                THEN [f EXCEPT !.pc = "start"]
                                ELSE [f EXCEPT !.pc = "done", !.res = res]]
  /\ UNCHANGED <<heap, pool, wvars, rvars>>

\* Lines 765-771 (637-640): read the found leaf's key and value, load
\* remove_count into wrs2, and retry if DELETED_LIFE or more removes
\* happened since wrs1.
FindEnd(r) ==
  /\ fr[r].pc = "end"
  /\ LET f == fr[r]
         l == f.leaf
         res == IF l = NULL THEN NoRes ELSE Reported(f.call.op, [key |-> key[l], val |-> value[l]])
     IN fr' = [fr EXCEPT ![r] = IF f.wrs1 + DELETED_LIFE <= remove_count
                                THEN [f EXCEPT !.pc = "start"]
                                ELSE [f EXCEPT !.pc = "done", !.res = res]]
  /\ UNCHANGED <<heap, pool, wvars, rvars>>

\* Lines 773-783 (642): return to the caller, which may call again.
FindReturn(r) ==
  /\ fr[r].pc = "done"
  /\ fr' = [fr EXCEPT ![r] = FindIdle]
  /\ UNCHANGED <<heap, pool, wvars, rvars>>

-----------------------------------------------------------------------------
(* critnib_iter, lines 791-827: under the mutex, so it sees a tree no      *)
(* writer is changing; it changes nothing itself.  The result is the keys *)
(* passed to func, in order, and whether iter returned 1 (line 803) to     *)
(* stop.  A non-zero return of func is modelled by its caller.             *)

NoKeys == [keys |-> <<>>, stop |-> FALSE]

RECURSIVE iter(_, _, _, _), IterChildrenReversed(_, _, _, _, _), IterChildren(_, _, _, _, _)

\* Lines 791-807: a leaf in [min, max] is visited; an inner node whose path
\* is above max stops the walk, one deemed below min is skipped.
iter(n, min, max, d) ==
  IF d = 0 THEN NoKeys
  ELSE IF is_leaf(n)
  THEN [keys |-> IF key[n] >= min /\ key[n] <= max THEN <<key[n]>> ELSE <<>>,
        stop |-> FALSE]
  ELSE IF path[n] > max THEN [keys |-> <<>>, stop |-> TRUE]
  ELSE IF (path[n] | path_mask(shift[n])) < min THEN NoKeys
  ELSE IterChildren(n, 0, min, max, d)

\* Mutation: the children are walked from the highest slot down.
IterChildrenReversed(n, i, min, max, d) ==
  IF i = SLNODES THEN NoKeys
  ELSE LET m == child[n][NIB - i]
           r == IF m = NULL THEN NoKeys ELSE iter(m, min, max, d - 1)
           rest == IterChildrenReversed(n, i + 1, min, max, d)
       IN IF r.stop THEN r ELSE [keys |-> r.keys \o rest.keys, stop |-> rest.stop]

\* Lines 809-814: the children in slot order; a stop ends the loop.
IterChildren(n, i, min, max, d) ==
  IF i = SLNODES THEN NoKeys
  ELSE LET m == child[n][i]
           r == IF m = NULL THEN NoKeys ELSE iter(m, min, max, d - 1)
           rest == IterChildren(n, i + 1, min, max, d)
       IN IF r.stop THEN r ELSE [keys |-> r.keys \o rest.keys, stop |-> rest.stop]

\* Lines 819-827.
critnib_iter(min, max) ==
  IF root = NULL THEN <<>> ELSE iter(root, min, max, MaxDepth).keys

\* The keys of the map in [min, max], ascending: what critnib_iter promises.
KeysInRange(min, max) ==
  SetToSortSeq({k \in DOMAIN Map : min <= k /\ k <= max}, <)

-----------------------------------------------------------------------------
(* critnib_delete, lines 187-232: the owner calls it once no thread uses   *)
(* the map, and it returns to the byte allocator the tree reachable from   *)
(* root, both free lists and the grace ring.  It ends the map, so it is an *)
(* operator: the bag of storage it frees if called in the current state    *)
(* (a free of NULL frees nothing).                                         *)

RECURSIVE delete_node(_, _), DeleteChildren(_, _, _)

\* Lines 187-202: a leaf is freed; a node frees the subtree of each
\* non-NULL child, then itself.
delete_node(n, d) ==
  IF is_leaf(n) THEN SetToBag({n})
  ELSE IF d = 0 THEN EmptyBag
  ELSE DeleteChildren(n, 0, d) (+) SetToBag({n})

DeleteChildren(n, i, d) ==
  IF i = SLNODES THEN EmptyBag
  ELSE (IF child[n][i] = NULL THEN EmptyBag ELSE delete_node(child[n][i], d - 1))
         (+) DeleteChildren(n, i + 1, d)

\* Lines 214-224: the free lists, walked to their NULL end (nodes chained
\* through child[0], leaves through value); d bounds a cyclic list.
RECURSIVE FreeNodeList(_, _), FreeLeafList(_, _)
FreeNodeList(m, d) ==
  IF m = NULL \/ d = 0 THEN EmptyBag ELSE SetToBag({m}) (+) FreeNodeList(child[m][0], d - 1)
FreeLeafList(k, d) ==
  IF k = NULL \/ d = 0 THEN EmptyBag ELSE SetToBag({k}) (+) FreeLeafList(value[k], d - 1)

\* Mutation: the ring loop stops one slot early.
RECURSIVE FreeRingShort(_)
FreeRingShort(i) ==
  IF i >= DELETED_LIFE - 1 THEN EmptyBag
  ELSE SetToBag({pending_del_nodes[i], pending_del_leaves[i]} \ {NULL}) (+) FreeRingShort(i + 1)

\* Lines 226-229: slots i .. DELETED_LIFE - 1 of the ring.
RECURSIVE FreeRing(_)
FreeRing(i) ==
  IF i = DELETED_LIFE THEN EmptyBag
  ELSE SetToBag({pending_del_nodes[i], pending_del_leaves[i]} \ {NULL}) (+) FreeRing(i + 1)

critnib_delete ==
  (IF root = NULL THEN EmptyBag ELSE delete_node(root, MaxDepth))
    (+) FreeNodeList(deleted_node, Cardinality(NodeIds) + 1)
    (+) FreeLeafList(deleted_leaf, Cardinality(LeafIds) + 1)
    (+) FreeRing(0)

-----------------------------------------------------------------------------
(* The specification.                                                      *)

Init ==
  /\ root = NULL
  /\ child = [n \in NodeIds |-> [i \in Slots |-> NULL]]
  /\ path = [n \in NodeIds |-> 0]
  /\ shift = [n \in NodeIds |-> 0]
  /\ key = [l \in LeafIds |-> 0]
  /\ value = [l \in LeafIds |-> NULL]
  /\ deleted_node = NULL /\ deleted_leaf = NULL
  /\ pending_del_nodes = [i \in 0 .. DELETED_LIFE - 1 |-> NULL]
  /\ pending_del_leaves = [i \in 0 .. DELETED_LIFE - 1 |-> NULL]
  /\ remove_count = 0 /\ allocated = {}
  /\ wpc = "idle" /\ wkey = NULL /\ wval = NULL /\ wupd = FALSE
  /\ wk = NULL /\ wm = NULL /\ wloc = RootLoc /\ wn = NULL /\ wnp = RootLoc
  /\ wdel = 0
  /\ rpc = [r \in Readers |-> "idle"]
  /\ rkey = [r \in Readers |-> CHOOSE k \in ReadKeys : TRUE]
  /\ rn = [r \in Readers |-> NULL]
  /\ rwrs1 = [r \in Readers |-> 0]
  /\ rres = [r \in Readers |-> NULL]
  /\ seen = [r \in Readers |-> {}]
  /\ fr = [r \in Finders |-> FindIdle]

ReaderStep(r) ==
  \/ \E k \in ReadKeys : GetCall(r, k)
  \/ GetRetry(r) \/ GetWalk(r) \/ GetEnd(r) \/ GetReturn(r)

Next ==
  \/ \E k \in Keys, v \in Vals, u \in BOOLEAN : InsertLeaf(k, v, u)
  \/ InsertRoot \/ InsertSlot \/ InsertExists \/ InsertSplit \/ InsertNoNode
  \/ InsertClear \/ InsertFill \/ InsertLink
  \/ \E k \in Keys : RemoveBegin(k)
  \/ RemoveFree \/ RemoveRootLeaf \/ RemoveNotFound \/ RemoveUnlink
  \/ RemoveSplice
  \/ \E r \in Readers : ReaderStep(r)
  \/ \E r \in Finders, c \in FindArgs : FindCall(r, c)
  \/ \E r \in Finders : FindStart(r)
  \/ \E r \in Finders : FindNode(r)
  \/ \E r \in Finders : FindScan(r)
  \/ \E r \in Finders : FindPredecessor(r)
  \/ \E r \in Finders : FindReload(r)
  \/ \E r \in Finders : FindExact(r)
  \/ \E r \in Finders : FindEnd(r)
  \/ \E r \in Finders : FindReturn(r)

\* A reader thread that is running keeps running.
Fairness == \A r \in Readers : WF_vars(ReaderStep(r))

SafetySpec == Init /\ [][Next]_vars

Spec == SafetySpec /\ Fairness

-----------------------------------------------------------------------------
(* Properties.                                                             *)

TypeOK ==
  /\ root \in Ref
  /\ child \in [NodeIds -> [Slots -> Ref]]
  /\ path \in [NodeIds -> Word] /\ shift \in [NodeIds -> Shifts]
  /\ key \in [LeafIds -> Word] /\ value \in [LeafIds -> Vals \cup LeafIds \cup {NULL}]
  /\ deleted_node \in NodeIds \cup {NULL} /\ deleted_leaf \in LeafIds \cup {NULL}
  /\ pending_del_nodes \in [0 .. DELETED_LIFE - 1 -> NodeIds \cup {NULL}]
  /\ pending_del_leaves \in [0 .. DELETED_LIFE - 1 -> LeafIds \cup {NULL}]
  /\ remove_count \in 0 .. MaxRemoves /\ allocated \subseteq NodeIds \cup LeafIds
  /\ wpc \in {"idle", "ins_descend", "ins_clear", "ins_fill", "ins_link", "rm_free", "rm_unlink", "rm_splice"}
  /\ wloc \in Locs /\ wnp \in Locs /\ wdel \in 0 .. DELETED_LIFE - 1
  /\ rpc \in [Readers -> {"idle", "walk", "retry", "done"}]
  /\ rn \in [Readers -> Ref]
  /\ \A r \in Finders :
       /\ fr[r].pc \in {"idle", "start", "node", "scan", "pred", "reload", "exact", "end", "done"}
       /\ fr[r].n \in Ref /\ fr[r].nib \in Slots /\ fr[r].leaf \in LeafIds \cup {NULL}
       /\ fr[r].stack \in Seq([n : NodeIds, nib : Slots]) /\ Len(fr[r].stack) < MaxDepth

Children(n) == {i \in Slots : child[n][i] # NULL}

(* Whenever no writer holds the mutex the reachable tree satisfies the     *)
(* structure invariants of critnib_insert and critnib_remove: every inner  *)
(* node has at least two children, a child's nibble sits strictly below   *)
(* its parent's, every leaf below a node agrees with the node's path above *)
(* its nibble and sits in the slot of its key's nibble, and no two         *)
(* reachable leaves share a key.  While a writer holds the mutex, the      *)
(* ASSERTs of critnib_insert (line 357: an equal path is a leaf) and       *)
(* critnib_remove (line 468: a child remains after the unlink) hold.       *)
TreeWellFormed ==
  /\ wpc = "idle" =>
       /\ \A n \in LiveNodes :
            /\ Cardinality(Children(n)) >= 2
            /\ \A i \in Children(n) :
                 /\ child[n][i] \in NodeIds => shift[child[n][i]] < shift[n]
                 /\ \A l \in LeavesUnder(child[n][i], MaxDepth) :
                      /\ (key[l] & path_mask(shift[n])) = path[n]
                      /\ slice_index(key[l], shift[n]) = i
       /\ \A l1, l2 \in LiveLeaves : key[l1] = key[l2] => l1 = l2
  /\ wpc = "ins_descend" /\ root # NULL =>
       LET n == InsDescend(wkey, RootLoc, root, root, MaxDepth).n
       IN  n \in NodeIds => (path[n] ^^ wkey) # 0
  /\ wpc = "rm_splice" => Children(wn) # {}

RetiredNodes == {pending_del_nodes[i] : i \in DOMAIN pending_del_nodes} \ {NULL}
RetiredLeaves == {pending_del_leaves[i] : i \in DOMAIN pending_del_leaves} \ {NULL}
FreeNodes == NodeChain(deleted_node, Cardinality(NodeIds))
FreeLeaves == LeafChain(deleted_leaf, Cardinality(LeafIds))

(* Whenever no writer holds the mutex, every piece of storage taken from   *)
(* the byte allocator is in exactly one place: the live tree, a slot of    *)
(* the grace ring, or a free list.  A node the pool hands out again is     *)
(* therefore never still live or still in its grace period, and nothing   *)
(* leaks (free_node/free_leaf, alloc_node/alloc_leaf, the ring rotation in *)
(* critnib_remove and the scratch leaf of an update or EEXIST insert).     *)
PoolOwnership ==
  wpc = "idle" =>
    /\ LiveNodes \cup RetiredNodes \cup FreeNodes = allocated \cap NodeIds
    /\ LiveLeaves \cup RetiredLeaves \cup FreeLeaves = allocated \cap LeafIds
    /\ LiveNodes \cap (RetiredNodes \cup FreeNodes) = {}
    /\ RetiredNodes \cap FreeNodes = {}
    /\ LiveLeaves \cap (RetiredLeaves \cup FreeLeaves) = {}
    /\ RetiredLeaves \cap FreeLeaves = {}
    /\ \A i, j \in DOMAIN pending_del_nodes :
         i # j => /\ pending_del_nodes[i] = NULL \/ pending_del_nodes[i] # pending_del_nodes[j]
                  /\ pending_del_leaves[i] = NULL \/ pending_del_leaves[i] # pending_del_leaves[j]

(* critnib_delete, called whenever no writer holds the mutex, frees every  *)
(* node and leaf the map ever took from the byte allocator exactly once:  *)
(* delete_node reaches the live tree through child pointers only, the     *)
(* free-list walks follow child[0] and value to NULL, and the ring loop   *)
(* covers every slot.  Storage reachable two ways -- a pooled node whose   *)
(* stale children are still set, a ring slot also on a free list -- would  *)
(* be freed twice; storage reachable no way would leak.                    *)
DeleteFreesEachOnce == wpc = "idle" => critnib_delete = SetToBag(allocated)

(* The guarantee stated above DELETED_LIFE (lines 79-84): the result of    *)
(* critnib_get is a value that was current at some point between the call *)
(* start and its end, even when the nodes the reader walks through are     *)
(* removed, pooled and reused by writers meanwhile.                        *)
GetReturnsCurrentValue ==
  \A r \in Readers : rpc[r] = "done" => rres[r] \in seen[r]

(* The guarantee critnib_find_le shares with critnib_get (line 627), and  *)
(* which critnib_find is meant to give as well: the result -- the value,   *)
(* or the key and value, of the greatest key <= the searched one, the      *)
(* least key >=, the key itself, or nothing -- was the right answer at     *)
(* some point between the call's start and its end, although find_le and   *)
(* find_ge scan siblings and descend into subtrees one load at a time     *)
(* while writers insert, remove and splice.                                *)
FindReturnsCurrent ==
  \A r \in Finders : fr[r].pc = "done" => fr[r].res \in fr[r].seen

(* critnib_find never reports a binding the map did not hold: a key and    *)
(* value it returns were a key of the map and its value at one instant     *)
(* during the call, and the key lies on the asked side of the searched     *)
(* key, even when the leaf it read was removed, pooled and reused for      *)
(* another key meanwhile (the DELETED_LIFE retry of lines 770-771).        *)
FindReportsBinding ==
  \A r \in Finders :
    LET f == fr[r] IN
      f.pc = "done" /\ f.call.op = "find" /\ f.res # NoRes =>
        f.res \in f.present /\ Asked(f.res.key, f.call)

(* critnib_iter(0, UINTPTR_MAX), the call add_resident_device and        *)
(* remove_resident_device make, passes every key of the map to func once, *)
(* in ascending order; and for any range, whatever it passes is in the    *)
(* range and the map and comes in ascending order.                         *)
IterFullRange ==
  wpc = "idle" =>
    /\ critnib_iter(0, WORD - 1) = KeysInRange(0, WORD - 1)
    /\ \A b \in IterRanges :
         LET s == critnib_iter(b[1], b[2]) IN
           /\ \A i \in 1 .. Len(s) : s[i] \in DOMAIN Map /\ b[1] <= s[i] /\ s[i] <= b[2]
           /\ \A i \in 1 .. Len(s) - 1 : s[i] < s[i + 1]

(* The call a writer holding the mutex is making, up to the step that     *)
(* changes the reachable leaves: for critnib_remove that is the clearing   *)
(* of the leaf's slot (line 451); the splice that follows is internal.     *)
Call ==
  CASE wpc \in {"ins_descend", "ins_clear", "ins_fill", "ins_link"} ->
         {[op |-> "insert", key |-> wkey, val |-> wval, upd |-> wupd]}
    [] wpc \in {"rm_free", "rm_unlink"} -> {[op |-> "remove", key |-> wkey]}
    [] OTHER -> {}

(* The writers implement the abstract map (CritnibMap): each call of       *)
(* critnib_insert and critnib_remove changes the map of reachable leaves  *)
(* in exactly one step, in the way its arguments ask -- insert adds an    *)
(* absent key and overwrites only with the update flag, remove deletes    *)
(* exactly its own key -- and every other step, node allocation, pool     *)
(* recycling and splicing included, leaves that map unchanged.            *)
AbsMap == INSTANCE CritnibMap WITH map <- Map, call <- Call
RefinesMap == AbsMap!Spec

(* Every critnib_get call returns: the walk of a reader that has been      *)
(* overtaken by removes ends, and its retry loop ends once removes stop.   *)
GetTerminates == \A r \in Readers : rpc[r] \in {"walk", "retry"} ~> rpc[r] = "done"

=============================================================================
