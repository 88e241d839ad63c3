------------------------------- MODULE DomTree -------------------------------
(***************************************************************************)
(* The dominator tree builder of include/graph/dom3.hh with the disjoint   *)
(* set forest of include/graph/dsu.hh, run on top of the search of DFS:    *)
(* make_dfs is the steps of that search, and m_dfs_nodes is the order in   *)
(* which it discovers the blocks.                                          *)
(*                                                                         *)
(* The builder works on arrival numbers (m_dfs_labels), so that a block is *)
(* its position in m_dfs_nodes here, counted from 1.  Only the buckets are *)
(* indexed by block ids, in a vector of as many entries as there are       *)
(* blocks; to index it with a larger id is undefined behaviour, after      *)
(* which nothing is said.                                                  *)
(***************************************************************************)
EXTENDS SearchState

VARIABLES
  made,      \* the order in which the terminators were made
  phase,     \* the loop the builder is in
  node,      \* the block of its current iteration
  preds,     \* its predecessors that min_sdom has not looked at
  m_sdoms, m_idoms,
  m_sdommed_bucket,
  bucket_it, \* how far the loop over a bucket is
  dsu,       \* m_parents and m_labels of the forest
  m_data     \* DomTree: block -> the blocks it immediately dominates

search == <<succs, m_visited, m_stack, parent, cur_it, discovered, finished, backEdges>>
vars == <<search, made, phase, node, preds, m_sdoms, m_idoms, m_sdommed_bucket,
          bucket_it, dsu, m_data>>

D == INSTANCE DFS

N == Len(discovered)
m_dfs_nodes == discovered
Arrived(b) == \E i \in 1 .. N : m_dfs_nodes[i] = b
m_dfs_labels(b) == CHOOSE i \in 1 .. N : m_dfs_nodes[i] = b

(* make_dfs records as the parent of a block the one discovered before it. *)
m_dfs_parents(i) == IF i = 1 THEN 1 ELSE i - 1

bb_id(i) == bb_ids[succs][m_dfs_nodes[i]]
HasBucket(i) == bb_id(i) < Cardinality(Nodes)

PredsOf(i) == m_preds(succs, made, m_dfs_nodes[i])

(***************************************************************************)
(* DSU::find(i) in forest f: the block it returns, and the forest it       *)
(* leaves.  Every block on the way up is hung below what find returned for *)
(* its parent.                                                             *)
(***************************************************************************)
Find_KeepsLargest(f, i) ==                                        \* mutant
  LET find[k \in 1 .. i] ==
        LET p == f.parent[k]
            up == find[p].block
        IN IF p = k THEN [block |-> k, forest |-> f]
           ELSE [block  |-> IF m_sdoms[up] > m_sdoms[k] THEN up ELSE k,
                 forest |-> f]
  IN find[i]
Find_HungBelowItsLabel(f, i) ==                                   \* mutant
  LET find[k \in 1 .. i] ==
        LET p == f.parent[k]
            up == find[p]
            label == IF m_sdoms[f.label[p]] < m_sdoms[f.label[k]] THEN f.label[p]
                     ELSE f.label[k]
        IN IF p = k THEN [block |-> k, forest |-> f]
           ELSE [block  |-> label,
                 forest |-> [parent |-> [up.forest.parent EXCEPT ![k] = label],
                             label  |-> [up.forest.label EXCEPT ![k] = label]]]
  IN find[i]
Find(f, i) ==
  LET find[k \in 1 .. i] ==
        LET p == f.parent[k]
        IN IF p = k THEN [block |-> k, forest |-> f]
           ELSE LET res    == find[p]
                    labels == res.forest.label
                    label  == IF m_sdoms[labels[p]] < m_sdoms[labels[k]]
                              THEN labels[p] ELSE labels[k]
                IN [block  |-> label,
                    forest |-> [parent |-> [res.forest.parent EXCEPT ![k] = res.block],
                                label  |-> [labels EXCEPT ![k] = label]]]
  IN find[i]

(* What the loop over a bucket writes to m_idoms, when find gave block. *)
BucketIdom_Swapped(dominatee, block) ==                           \* mutant
  IF m_sdoms[dominatee] = m_sdoms[block] THEN block ELSE m_sdoms[dominatee]
BucketIdom(dominatee, block) ==
  IF m_sdoms[dominatee] = m_sdoms[block] THEN m_sdoms[dominatee] ELSE block

Min2(a, b) == IF a < b THEN a ELSE b

-----------------------------------------------------------------------------
Init ==
  /\ D!Init
  /\ made \in MadeOrders
  /\ phase = "dfs"
  /\ node = 0 /\ preds = << >>
  /\ m_sdoms = << >> /\ m_idoms = << >> /\ m_sdommed_bucket = << >> /\ bucket_it = 1
  /\ dsu = [parent |-> << >>, label |-> << >>]
  /\ m_data = [b \in {} |-> {}]

MakeDfs ==
  /\ D!Step
  /\ UNCHANGED <<made, phase, node, preds, m_sdoms, m_idoms, m_sdommed_bucket,
                 bucket_it, dsu, m_data>>

(* build_sdoms is entered with what the visitor of make_dfs has set, and   *)
(* goes through the blocks from the last.                                  *)
Numbers == [i \in 1 .. N |-> i]
EnterSdoms ==
  /\ phase = "dfs"
  /\ Stopped
  /\ phase' = "preds"
  /\ node' = N /\ preds' = PredsOf(N)
  /\ m_sdoms' = Numbers /\ m_idoms' = Numbers
  /\ m_sdommed_bucket' = [id \in 0 .. Cardinality(Nodes) - 1 |-> << >>]
  /\ dsu' = [parent |-> Numbers, label |-> Numbers]
  /\ UNCHANGED <<search, made, bucket_it, m_data>>


(* min_sdom, one predecessor; at() throws for one the search did not reach. *)
EvalPred ==
  /\ phase = "preds"
  /\ preds # << >>
  /\ IF Arrived(Head(preds))
     THEN LET res == Find(dsu, m_dfs_labels(Head(preds)))
          IN /\ m_sdoms' = [m_sdoms EXCEPT ![node] = Min2(@, m_sdoms[res.block])]
             /\ dsu' = res.forest
             /\ preds' = Tail(preds)
             /\ UNCHANGED phase
     ELSE phase' = "threw" /\ UNCHANGED <<m_sdoms, dsu, preds>>
  /\ UNCHANGED <<search, made, node, m_idoms, m_sdommed_bucket, bucket_it, m_data>>

(* The block joins the bucket of its semidominator, and the bucket of the  *)
(* block itself is looked at.                                              *)
PushBucket ==
  /\ phase = "preds"
  /\ preds = << >>
  /\ HasBucket(node) /\ (node # 1 => HasBucket(m_sdoms[node]))
  /\ m_sdommed_bucket' = IF node = 1 THEN m_sdommed_bucket
                         ELSE [m_sdommed_bucket EXCEPT ![bb_id(m_sdoms[node])] =
                                 Append(@, node)]
  /\ phase' = "bucket" /\ bucket_it' = 1
  /\ UNCHANGED <<search, made, node, preds, m_sdoms, m_idoms, dsu, m_data>>

(* The same when one of the two ids is outside of the vector.              *)
NoSuchBucket ==
  /\ phase = "preds"
  /\ preds = << >>
  /\ ~HasBucket(node) \/ (node # 1 /\ ~HasBucket(m_sdoms[node]))
  /\ phase' = "undefined"
  /\ UNCHANGED <<search, made, node, preds, m_sdoms, m_idoms, m_sdommed_bucket, bucket_it,
                 dsu, m_data>>

(* One dominatee of the bucket of the block itself. *)
Bucket(i) == m_sdommed_bucket[bb_id(i)]
DrainBucket ==
  /\ phase = "bucket"
  /\ bucket_it <= Len(Bucket(node))
  /\ LET dominatee == Bucket(node)[bucket_it]
         res == Find(dsu, dominatee)
     IN /\ m_idoms' = [m_idoms EXCEPT ![dominatee] = BucketIdom(dominatee, res.block)]
        /\ dsu' = res.forest
  /\ bucket_it' = bucket_it + 1
  /\ UNCHANGED <<search, made, phase, node, preds, m_sdoms, m_sdommed_bucket, m_data>>

(* merge with the parent, and on to the next block. *)
Merge ==
  /\ phase = "bucket"
  /\ bucket_it > Len(Bucket(node))
  /\ IF node = 1
     THEN phase' = "idoms" /\ node' = 2 /\ UNCHANGED <<dsu, preds>>
     ELSE /\ dsu' = [dsu EXCEPT !.parent[node] = m_dfs_parents(node)]
          /\ node' = node - 1 /\ preds' = PredsOf(node - 1)
          /\ phase' = "preds"
  /\ UNCHANGED <<search, made, m_sdoms, m_idoms, m_sdommed_bucket, bucket_it, m_data>>

(* build_idoms, one block: its node of the tree is made. *)
BuildIdom ==
  /\ phase = "idoms"
  /\ node <= N
  /\ LET idom == IF m_idoms[node] # m_sdoms[node] THEN m_idoms[m_idoms[node]]
                                                  ELSE m_idoms[node]
         b == m_dfs_nodes[idom]
     IN /\ m_idoms' = [m_idoms EXCEPT ![node] = idom]
        /\ m_data' = [c \in DOMAIN m_data \cup {b} |->
                        (IF c \in DOMAIN m_data THEN m_data[c] ELSE {})
                        \cup (IF c = b THEN {m_dfs_nodes[node]} ELSE {})]
  /\ node' = node + 1
  /\ UNCHANGED <<search, made, phase, preds, m_sdoms, m_sdommed_bucket, bucket_it, dsu>>

Built ==
  /\ phase = "idoms"
  /\ node > N
  /\ phase' = "done"
  /\ UNCHANGED <<search, made, node, preds, m_sdoms, m_idoms, m_sdommed_bucket, bucket_it,
                 dsu, m_data>>

Returned == phase \in {"done", "threw", "undefined"}
Done == Returned /\ UNCHANGED vars

Step == MakeDfs \/ EnterSdoms \/ EvalPred \/ PushBucket \/ NoSuchBucket
        \/ DrainBucket \/ Merge \/ BuildIdom \/ Built
Next == Step \/ Done
Spec == Init /\ [][Next]_vars /\ WF_vars(Step)

(* DomTree::dominates(d, n): n is d or found going down the tree from d. *)
dominates(d, n) ==
  LET below[k \in 0 .. Cardinality(Nodes)] ==
        IF k = 0 THEN {d}
        ELSE below[k - 1] \cup UNION {m_data[b] : b \in below[k - 1] \cap DOMAIN m_data}
  IN n \in below[Cardinality(Nodes)]

-----------------------------------------------------------------------------
(* Properties                                                              *)

Block(i) == m_dfs_nodes[i]
Reached == {Block(i) : i \in 1 .. N}

(* Every variable has the type dom3.hh and dsu.hh give it. *)
TypeOK ==
  /\ phase \in {"dfs", "preds", "bucket", "idoms", "done", "threw", "undefined"}
  /\ phase # "dfs" =>
       /\ node \in 1 .. N + 1
       /\ preds \in Seq(Nodes)
       /\ m_sdoms \in [1 .. N -> 1 .. N] /\ m_idoms \in [1 .. N -> 1 .. N]
       /\ m_sdommed_bucket \in [0 .. Cardinality(Nodes) - 1 -> Seq(1 .. N)]
       /\ dsu \in [parent : [1 .. N -> 1 .. N], label : [1 .. N -> 1 .. N]]
  /\ DOMAIN m_data \subseteq Reached
  /\ \A b \in DOMAIN m_data : m_data[b] \subseteq Reached

(***************************************************************************)
(* The forest leads up: a block hangs below one that arrived before it,    *)
(* and is a root exactly as long as it is not merged, so that find ends at *)
(* the block build_sdoms is at or at one still to come; its label has a    *)
(* semidominator no larger than its own, and is not above the root         *)
(* (dsu.hh:58-77; path compression hangs it below a label, not a root).    *)
(***************************************************************************)
ForestLeadsUp ==
  phase \in {"preds", "bucket"} =>
    \A i \in 1 .. N :
      /\ dsu.parent[i] <= i
      /\ dsu.parent[i] = i <=> i <= node
      /\ m_sdoms[dsu.label[i]] <= m_sdoms[i]
      /\ i <= node => dsu.label[i] = i
      /\ i > node => dsu.label[i] >= node

(***************************************************************************)
(* No semidominator is computed too late: it arrived no later than any     *)
(* block with a path to i that runs through blocks after i only            *)
(* (dom3.hh:179-191).                                                      *)
(***************************************************************************)
IsSemiPath(j, i) ==
  \/ IsEdge(succs, Block(j), Block(i))
  \/ \E b \in ReachAvoiding(succs,
                            {v \in Reached : IsEdge(succs, Block(j), v)},
                            {Block(k) : k \in 1 .. i}) :
       IsEdge(succs, b, Block(i))
SemidominatorsEarlyEnough ==
  phase \in {"idoms", "done"} =>
    \A i \in 1 .. N : \A j \in 1 .. i : IsSemiPath(j, i) => m_sdoms[i] <= j

(***************************************************************************)
(* The tree built spans what the search reached: every block but the entry *)
(* has one parent, which arrived before it and no later than its           *)
(* semidominator, so DomTree::dominates ends and the entry dominates all   *)
(* (dom3.hh:233-255, 32-54).                                               *)
(***************************************************************************)
SpanningTree ==
  phase = "done" =>
    /\ UNION {m_data[b] : b \in DOMAIN m_data} = Reached \ {Entry}
    /\ \A b, c \in DOMAIN m_data : b # c => m_data[b] \cap m_data[c] = {}
    /\ \A i \in 2 .. N : m_idoms[i] < i /\ m_idoms[i] <= m_sdoms[i]
    /\ \A n \in Reached : dominates(Entry, n)

(***************************************************************************)
(* The builder returns, unless it throws for an edge from a block that is  *)
(* not reachable to one that is (m_dfs_labels.at, dsu.hh:81-83) or indexes *)
(* the buckets with the id of a reachable block that is too large for them *)
(* (dom3.hh:204-212), whichever it meets first; it never comes back on a   *)
(* graph that has either (dom3.hh:197-255).                                *)
(***************************************************************************)
EdgeFromNowhere ==
  \E u \in Nodes \ Reachable(succs, Entry), v \in Reachable(succs, Entry) : IsEdge(succs, u, v)
IdTooLarge ==
  \E b \in Reachable(succs, Entry) : bb_ids[succs][b] >= Cardinality(Nodes)
EndsAsItShould ==
  <>(\/ phase = "threw" /\ EdgeFromNowhere
     \/ phase = "undefined" /\ IdTooLarge
     \/ phase = "done" /\ ~EdgeFromNowhere /\ ~IdTooLarge)

(***************************************************************************)
(* What the builder is for: "label of immediate-dominator of the i'th      *)
(* node" (dom3.hh:120-121).  Does not hold.                                *)
(***************************************************************************)
ImmediateDominators ==
  phase = "done" =>
    \A i \in 2 .. N : IsIdom(succs, Entry, Block(m_idoms[i]), Block(i))

(***************************************************************************)
(* One direction of it, which the passes that delete checks rely on: what  *)
(* the tree calls a dominator is on every path.  Does not hold.            *)
(***************************************************************************)
DominatorsOnEveryPath ==
  phase = "done" =>
    \A d, n \in Reached : dominates(d, n) => Dominates(succs, Entry, d, n)
=============================================================================
