# A verification development for the jj_vm IR library

The repository is a header-only C++17 library (`src/include`) for the middle of
a small compiler: an SSA-like intermediate representation on intrusive lists,
graph algorithms over its basic blocks, analyses (loops, linear order,
liveness, register allocation) and optimisation passes.  It is sequential: no
threads, no I/O besides dumps, nothing persisted.  What makes it hard is
different: pointer structures that are changed while something walks them,
iterative versions of recursive algorithms, several views of one fact that must
agree (links and back links, inputs and users, successors and predecessors),
and passes that rely on what the analyses compute.

## Inventory

| Component | Source (`src/include/`) | State | Operations | Correct when |
|---|---|---|---|---|
| Intrusive list | `intrusive_list/` | two links per node, a sentinel per list | insert, remove/erase, erase range, splice, clear, move | both links agree, every node is in one list, the iterator of an erase survives |
| Def-use chains | `IR/instruction.hh`, `IR/instructions.hh` | `m_inputs` per instruction, `m_users` per value, the copies in `PhiInstr::m_vars` and `CastInstr::m_src_val` | add_input, set_input, clean_inputs, replace_users, erase, replace_instr | an instruction is a user of exactly its inputs |
| Blocks, functions, builder | `IR/basic_block.hh`, `IR/function.hh`, `IR/ir_builder.hh` | instruction list, `m_preds`, `m_succs`, parents, ids | create, link, remove_link, splice, update, split_bb_after | successors and predecessors agree and follow the terminator |
| Graph view | `graph/bb_graph.hh` | head and size of a function's blocks | head, nodes, succs, preds | (a wrapper) |
| Depth first search | `graph/dfs.hh` | colours, explicit stack of (iterator, block) | the loop with its visitor calls; pre-, post-, reverse postorder | makes the calls a recursive search makes |
| Dominator tree | `graph/dom3.hh`, `graph/dsu.hh`, `graph/dom3_base.hh` | arrival numbers, semidominators, buckets, a forest with labels | build, dominates | the tree holds the immediate dominators |
| Loop tree | `analysis/loop_analyzer.hh`, `analysis/loop_base.hh` | block -> loop, the loops, marks | collect back edges, populate, root loop | a loop is the natural loop of its back edges |
| Linear order | `analysis/linear_order.hh` | the order | linearise by loops | dominators first, loops contiguous |
| Liveness | `analysis/liveness_analyzer.hh` | live sets, intervals, numbers | number, walk the order backwards, extend over loops | a live value is inside its interval |
| Register allocation | `analysis/reg_alloc.hh` | pool, active set, locations | expire, take, spill | live values never share a location |
| Peephole | `opt_passes/peephole.hh` | a work list of instructions | patterns of mul, shr and xor | every value is what it was, users and inputs agree |
| Constant folding | `opt_passes/constant_fold.hh` | a work list | evaluate, replace | as above; what is folded is what the operation means |
| Check elimination | `opt_passes/checks_elimination.hh` | a work list, the dominator tree | remove a check | a check that is gone is covered by one before it |
| Inlining | `opt_passes/inlining.hh` | the calls, a builder | split, parameters, returns, merge, move | the caller does what it did with the calls carried out |
| Pass visitor and manager | `opt_passes/pass_*.hh` | registered passes | visit, run | what one pass leaves the next can read |

The analyses call each other downwards: register allocation builds liveness,
which builds the linear order, which builds the loop tree, which runs the
search; the dominator tree runs the search too.  The passes collect work with
the search (`PassVisitor`), then change blocks and def-use chains, and check
elimination asks the dominator tree.

## Modules and how they correspond to the code

The specification modules, from the bottom up; the arrows are `INSTANCE` or
`EXTENDS`.

    CFGraph <- SearchState <- DFS <- DomTree <- LoopTree <- LinearOrder <- Liveness
    ListSpec    <- (implemented by) IList
    OperandSpec <- (implemented by) DefUse
    Code <- ChecksElimination <- Passes
    Code <- Blocks <- Inlining -> RecursiveSearch <- MCDomTree
    RegAlloc

**RegAlloc** is `RegAllocAnalyzer`.  The intervals are chosen in `Init`.  One
turn of the loop of `linear_scan` is `Fetch`, `ExpireOne` for each interval that
`expire_old_intervals` removes, and one of `TakeRegister`, `SpillLastActive`,
`SpillCurrent`, or `TakeFromEmptyPool`: `back()` of an empty vector is undefined,
so the model stops there.  `m_active` is a `std::set` ordered by interval ends only; an
insertion that finds the same end there does nothing (`InsertActive`), and the register
of that interval never comes back.  The properties have no premise that excludes this:
`RegistersAccounted` says how many registers may be gone (one for each placed value
that shares its end with another, `SharedEnds`), and `EveryValuePlaced` that the scan
ends with every value placed unless too few are left for the values that are live
(`TooFewLeft`).

**IList** is the pair of links of every node and every sentinel.  `AfterInsert`,
`AfterRemove` and `AfterMove` are the assignments of `ilist_base`, in order,
including the tests for null.  The actions are the operations of `ilist_impl`;
`erase(first, last)`, which reads its iterator before it unlinks the node, is a
loop of steps, and everything that ends in such a loop (`clear`, the move
assignment) goes through it.  The guards are what a caller owes the list.
**ListSpec** is what the list promises: sequences that own their nodes.

**DFS** is `DFSImpl::dfs_impl` with a visitor that records its calls: `Start`,
then `Pop`, `Scan` for a successor that is in `m_visited`, `Finish` or `Descend`.
The return for a null head (`dfs.hh:53`) is left out: `Function::bb_graph` asserts that
there is a head.  The graph is chosen in `Init`.  **SearchState** holds the variables of the search
and what it promises, which `DomTree` keeps.  **CFGraph** holds the textbook definitions of
reachability and dominance the properties use, and one piece of code, `m_preds`:
the order and multiplicity in which `link_blocks` fills the predecessors when
the terminators are made in the order `made`.

**DomTree** is `DomTreeBuilder` on top of the steps of `DFS`.  A step handles
one predecessor, one bucket entry or one block of the three loops.  `Find` is the
recursive `DSU::find`, as a recursive function on the forest.  `at()` on a block
the search did not reach ends in `threw`.  Blocks are numbered by arrival, as in
`m_dfs_nodes`, but the buckets are indexed by the ids of the blocks, as in the code
(`bb_id`, chosen with the graph by the constant `bb_ids`): where an id is not below the number of
blocks, as after a block was removed, the subscript is out of range (`NoSuchBucket`)
and the builder ends as `undefined`.

**LoopTree** is `LoopTreeBuilder`: the steps of `DomTree`, a second search whose
visitor makes the loops (`BackEdge`, `FinishNode`), then `populate_loops` block
by block, with the recursive `loop_search` as a list `todo` of the calls still to
come (the next first), and `init_root_loop`.  The latches are in a `std::set` of
pointers, so their order is nondeterministic.

**LinearOrder** is `LinearOrderBuilder` on top of `LoopTree`: `linearize_graph`
for the blocks in reverse postorder, `linearize_loop` for a header.  **Liveness** is
`LivenessBuilder` on top of `LinearOrder`: numbering, the backward walk with one
step per instruction, the live sets and the intervals.  The earlier analyses look
at the graph only, so the program (which instruction is in which block and reads
what) is chosen when the walk starts; this keeps the states few.

**DefUse** is the two sides of a use: `m_inputs` of every instruction and
`m_users` of every value, under the constructors, `add_input`, `set_input`,
`clean_inputs`, `replace_users`, `erase` and `replace_instr`.  Callers owe `erase` that
nothing else uses the instruction.  They owe `replace_instr` nothing: it does not clean
the inputs of the instruction it deletes, so that one whose caller has not done it either
(`peephole.hh:199`) is left among the users of its operands.  The auxiliary variable
`abandoned` holds these, and a `replace_users` that comes to one writes through a deleted
instruction (`WriteThroughDeleted`), which is `undefined` and ends the model;
`NoDangling` says that there is no other way.  **OperandSpec** knows no user sets: replacing
a value replaces it in every instruction.

**Code** has the operations of `DefUse` as operators, for passes that apply
several of them in one step, and the order in which `PassVisitor` collects
instructions: a work list is a set of which the first is processed next.

**ChecksElimination** is the pass of that name, a step per check.  The answers of
the dominator tree are a constant `Tree`, of which the module assumes only that it
is a strict order; the functions are the constant `Programs`, whose members
`Source` turns into instructions, their places and operands.

**Passes** adds `Peephole` and `ConstantFold` and the loop of `PassManager`: the
passes of `order` run one after the other on the function the earlier ones left.
A step of `Optimize` or `Check` is one iteration of the loop of a pass.  Reading a
deleted instruction (`Stale`), the missing return of `fold_operation`, or the cast of the
64 bit zero that `process_xor` makes to a constant of another type (`MiscastOperand`) ends
the run as `undefined`.  The fallthroughs of `eval_binary_operation` (a division by
zero into the shift, a shift out of range into the xor) are those of a build
without asserts.  A replaced instruction leaves its place to a constant, an id of
`Ids` that had no opcode before.

**Blocks** is what inlining does to blocks and functions, as operators on a record
of lists and links: `remove_link` erases `end()` when a link is not there, which
clears `defined`, and `update` passes its two blocks in the swapped order of the code.
**Inlining** is the pass: `Skip` or `Split`, `update_parameters`, `update_return`,
`merge`, `make_inline`, the five stages of `optimize`, for one call after the other.
**RecursiveSearch** is the search as the recursive function that `DFS` is compared
with, and from which the passes take their reverse postorder.

The modules whose names start with `MC` give the instances: the set of graphs,
the orders in which terminators were made, the programs, symmetry.  The modules
whose names end in `Proofs` hold the theorems.  An operator marked `\* mutant`
is a variant of the one below it with a plausible mistake; no action uses it, and
it serves to see that a property notices the mistake.

## Runs

| Run | Instance | Shows |
|---|---|---|
| `reg_alloc` | 4 values, 2 registers, all intervals in 0..4 | no interference, the account of registers with those that equal ends cost, no needless spill, locations move once, the scan ends with every value placed or for want of these registers |
| `ilist` | 2 lists, 4 nodes | links inverse, every node in one list, the iterator of a running erase stays valid, erase ends; `IList` implements `ListSpec` |
| `dom_tree` | all graphs of 3 blocks, simple graphs of 4, two making orders | the search makes the calls of a recursive one and its reverse postorder sorts; shape of the forest; semidominators early enough; the tree spans; the builder returns, throws for an edge from an unreachable block, or leaves the buckets for an id that is too large, and returns on no graph with either |
| `linear_order` | simple graphs of 4 blocks | every block has a loop, inner and outer loops agree and form a tree where no block has two roles, bodies stay in natural loops, the search is bounded; the order has every block once and a single loop in one piece |
| `liveness` | graphs of 4 reachable blocks, 8 values | live sets respect dominance; intervals contain what is live |
| `def_use` | 4 instructions, 2 operands | users and inputs agree, nothing dangles but what `replace_instr` deleted with its inputs; `DefUse` implements `OperandSpec` |
| `passes` | 24944 pairs of a function and an order of three passes | every value stays what it was; the two sides of a use agree but for a replaced xor; when nothing can become undefined; removed checks stay covered |
| `inlining` | 6 shapes of callers, 8 of callees, with and without a value | the paths of the caller with the calls carried out; links and terminators; parameters, returns and phis |

The run `linear_order` has the steps of `LoopTree` in it, `dom_tree` those of `DFS`,
and each checks the properties of both modules.

Four more runs end in a counterexample.  Each checks one statement that a
comment or a test of the repository makes and the code does not keep:

| Run | Statement | What happens |
|---|---|---|
| `dom_tree_sound` | what the tree calls a dominator is one | `find` takes the label of the root of the set into account (`dsu.hh:67`) |
| `loop_tree_nest` | a block is in the innermost loop it is part of | outer loops are searched first (`loop_analyzer.hh:214`) |
| `liveness_phi` | the interval of a value reaches the phi that reads it | the phis of a header are skipped when its latch is processed (`liveness_analyzer.hh:208`), see below |
| `fold_comparison` | `cmp le` is `<=` | LE and GE are folded as `<` and `>` (`constant_fold.hh:99`) |

`liveness_phi` has one program, the shape of the `lecture_test` of the tests: a loop
of the blocks 1 and 2 with the phi `p0` of `w0` in its header 1.  The code gives `w0`, which
is made in the latch, the interval [14, 16), although the latch has the numbers 12 to 18 and
the phi reads `w0` at its end.  The tests are of two minds: the table
at `reg_alloc_analyzer.cc:66` has the corresponding v7 in `r2` to the end of its block, while
`liveness_analyzer.cc:30` expects `{18, 20}`, which is what the code computes.

Two more such statements are formulas of their modules and in no run:
`ImmediateDominators` of `DomTree` (the block discovered before stands in for the
parent, `dom3.hh:166`) and `ReducibleBackEdgesFiled` of `LoopTree` (a header that is
the latch of another loop already has an entry, `loop_analyzer.hh:194`).  As an
INVARIANT of `MCDomTree.cfg` and of `MCLoopTreeNest.cfg` each gives its
counterexample.  Type invariants of modules without one in the table are there to
read, and hold.

The positive counterparts name the condition under which the statement does hold,
and are checked by the passing runs: `OneRoleEach` (no block is a latch twice, or
a latch and a header), `Reducible`, `WellOrdered` and a single loop.  Two of these premises hide
consequences of the findings: a wrong answer of the dominator tree makes the loop
tree call a loop irreducible, and liveness then keeps nothing alive to its end
(`WellOrdered` asks that all loops are known to be reducible); and
`linearize_loop`, which is written to place inner loops, never meets one
(`InnersNeverEntered`), so that nothing keeps nested loops in one piece.  The inner
header then comes behind the latches of the outer loop, although it is before them on
every path: no graph with nested loops is `WellOrdered` (`WellOrderedIsFlat`), and
`LiveValuesCovered` says nothing about one.

The premises of the passes say where they go wrong:

- `MeaningKept` leaves out LE and GE of equal operands, and operations C++ gives no value.
- `DefinedOnSafe`: a function without an xor, in which anything foldable that is no
  binary operation depends on a phi.  An xor with both patterns
  (`x ^ 0` where `x` is 0) is erased and then tested again; one that was replaced by zero
  stays a user of its operands, and its zero has 64 bits whatever the type of what reads
  it; a null check of a constant is folded into nothing.
- `LeftBehind` of `ChainsKept` is that replaced xor.
- `OfItself` of `RemovedChecksCovered`: a bounds check of a value against itself goes on
  account of any check with this bound.
- `FitToInline`: a call in a block with successors makes `update` erase `end()`
  (`basic_block.hh:188`); a second call of a callee finds no blocks (they are moved,
  not copied); returns of a callee without a value are not replaced; a callee
  whose head is in a loop is merged into the call block, which leaves the branches
  back to the deleted head as they are.
- `Heads` of `LinksAgreeButForHeads`: the deleted head of a callee stays a predecessor.

**Bounds, and why they are enough.**  Two registers and four values give a full
set of active intervals, an expiry and a spill of either kind with one more value
still to come.  With two lists of four nodes in all, a range of two can move
before, after or between two others, in the same list or another.  A block has at
most two successors because a terminator has at most two targets.  Three blocks
with every multigraph contain self loops, parallel edges, edges to the entry and
unreachable predecessors; four without edges to the entry contain diamonds, two
exits, overlapping and nested loops and irreducible cycles; a wrong dominator
needs five blocks and no cycle, a nest with a block that is neither header nor
latch needs six (`Nests`).  The making orders matter for `m_preds` only: forwards
and backwards for the dominator tree, forwards above it, where the predecessors
only decide the order in which blocks join a body.  Some graphs of `dom_tree` have a
block with an id that is as large as the number of blocks, in the other runs the ids are those
a builder gives.  A program of `Liveness` has a
constant of the entry read by every `IF` and `RET`, a value `v0` made anywhere,
`w0` reading it anywhere below, and at any one join a phi of what reaches it;
these give every pair of a defining and a reading block.  Four instructions
suffice for a value with two users and a replacement of it, and for one that is replaced
after a user of it was deleted with its inputs.

The functions of `passes` are an operation on two leaves and one on its result, in
1, 8 and 64 bits, with constants at which a product or a sum wraps, a shift leaves its
range and a divisor is 0; three checks of two values in any blocks of a
graph with a fork; and checks mixed with arithmetic.  Two operations are a chain in
which what one pass replaces is the operand of what the next replaces, and three
checks the least of which one goes on account of one that goes itself.  64 bit
values stay small, as TLC has 32.  The callees of `inlining` return from
one block or two, directly or after a fork, a join or a loop, from the head itself, or
never; the callers call in one block, in two branches, twice in a row, in a
loop and in a block that goes on.  `kInlineInstrSize` is 7 so that one callee is too big.

**Fairness.**  The program is sequential and runs until it returns, so the only
assumption is weak fairness of its single step relation.  `IList` and `DefUse` are
libraries whose callers may stop at any time: `DefUse` has no fairness and `IList`
only that of a running `erase`.

**Deadlock** is checked everywhere but in `def_use`, where every
instruction may have been made and deleted and nothing is left to do, and in
`passes` and `inlining`, which end when all work is done or undefined behaviour is met;
the properties of these are about the states in which they end.

## What is proved

The theorems hold for every value of the constants, under the assumptions the
modules name: `RegsAssumption` (at least one register, finitely many values,
points are numbers), `ListAssumption` (nodes and sentinels are different,
finitely many nodes), `DFSAssumption` (successors are blocks; the set of blocks
need not be finite), and above it `TargetsAssumption` (finitely many blocks with at most
two successors each), `MadeAssumption` (the making orders hold each block once) and
`IdsAssumption` (different blocks have different ids; they need not be dense),
`DefUseAssumption`, `TreeAssumption`, `ProgramsAssumption`.

*RegAllocProofs*: `TypeCorrect`, `LocationsDoNotInterfere`, `LocationsMoveOnce`,
`EveryRegisterAccounted`, `UnderflowNeedsLoss`, `SpillsNeedPressure`.
Non-interference is not inductive: a value that has been removed from `m_active`
without a trace (equal ends) still owns its register.  `IInv` adds that
values are placed in scan order, that the pool has no register twice, that
active values are in registers which are not in the pool, and that a value placed
in a register and no longer active has either ended before everything that is
still to come, or its register is in nobody's hands (`Retired`).  `RegistersAccounted`
is inductive with it, for any intervals: an interval that joins `m_active` takes its register from the
pool, and one that does not has an end that is there already, so that the placed values become
one more and their ends do not (`InsertOrShare`).  `UnderflowNeedsLoss` is the safety half of
`EveryValuePlaced`: when the pool is empty though `m_active` is not full, the account leaves only
lost registers, and the active values, all live at the begin of the current
one, with the current one are too many for the rest.  The theorem on spilling comes from the same
count.

*IListProofs*: `TypeCorrect`, `LinksStayInverse`, `EraseIteratorStaysValid`,
`EveryLinkedNodeOnce`, `Refinement`.  The
invariant is that links of linked objects are inverse and lead to linked objects,
unlinked nodes link to nothing, and the range of a running erase is a segment; each
operation is first shown to have a closed form on the links.  That every linked node is
in a list does not follow from this: inverse links allow a ring without a
sentinel.  What excludes one is a number for each node, smaller than that of the
next one; an operation that cuts a segment out and pastes it elsewhere
leaves such numbers.  With them the walk from a node meets no node twice, and in a finite
set has to meet the sentinel of its list.
`Refinement` is the implementation of `ListSpec`.  Its mapping reads a list off its
links by recursion, so the proof does not compute it: `Leads` says that the
links lead through a sequence from sentinel to sentinel, `Determined` that there is
one such sequence at most, and `ContentsLead` that the mapping gives it.  Then
every operation is a cutting and pasting of sequences, for which `CutLeads`
and `PasteLeads` give the sequences afterwards, and each turn of a running erase,
the one inside a clear or a move assignment included, is a removal in `ListSpec`.

*DFSProofs*: `TypeCorrect`, `StackIsPath`, `NothingVisitedTwice`,
`AllReachableVisited`, `ReversePostorderSorts`, `BackEdgesAreExact`,
`DiscoveredAlongEdges`.  The invariant says that the
colours match the two recorded orders, that successors before an iterator have
been discovered, that every edge the scan has passed is a back edge or sorted
already, and that discovered blocks are in every closed set with the entry.
`BackEdgesAreExact`, that the edges reported to `back_edge` are
those to a block that encloses their source in both orders, or to the
source itself, adds that the path is in the order
of discovery, and that the source of a reported edge stays at or above its target on
the path until it is finished; that no such edge is missed follows from
`ReversePostorder`.  No run checks this formula: `SameAsRecursion` compares the
reported edges with those of the recursive search instead.

*DomTreeProofs*: `TypeCorrect`, `FindLeadsUp`, `SemidominatorsFound`, `TreeSpans`,
`EndsForAReason`.  It begins with lemmas on the operators of `CFGraph`, which the next two
modules use as well: reachability as the least closed set, the predecessors, and the forms of
induction the provers can be given (a least counterexample,
and the existence of a function defined by recursion over numbers).  The types of this
builder are not local: that `m_sdoms` and the forest are only asked for blocks they have, and that `find` ends, needs that the
forest never leads to a later block (`ForestLeadsUp`), whatever labels the path
compression hangs a block below.  Labels alone do not find the earliest semidominator,
since the compression hangs a block below the label that was found and not below a root;
but each block on the way that the label does not beat is beaten by one that the new
parent answers for, and that semidominators are early enough follows along a path through
later blocks.  The
tree spans because `m_idoms` leads to earlier blocks and each block but the
entry has one.  The buckets are found by the ids of blocks: `IdsInv` says that a block that was
handled has a bucket, and `BlockIds` that those of different blocks are different, so
that a bucket holds the blocks of one semidominator.
`EndsForAReason` is the safety half of `EndsAsItShould`: if the
builder throws, a block that is not reached has an edge to one that is; if it
leaves the buckets, a reached block has an id that is too large; and if it
returns, neither is so and the map has every reached block.

*LoopTreeProofs*: `LoopTypesCorrect`, `FiledUnderTheirHeader`, `BodiesInNaturalLoops`,
`RootHasTheRest`, `LoopsMakeATree`, `SearchesAreBounded`.  *LivenessProofs*, on top of it:
`LoopsNeverNest`, `OrderIsComplete`, `OneLoopOnePiece`, `LiveSetsAreDominated`,
`WellOrderedIsFlat`, `LiveValuesAreCovered`.  The analyses run one after the other on the
same state, and each proof needs the invariant of the one before: *LivenessProofs* is
about the steps of `Liveness`, `LinearOrder`, `LoopTree`, `DomTree` and `DFS` together.
The invariant has one part per question:

- types, and the order of the second search (`TypesInv`), where `TreeSteps` and
  `SearchSteps` reuse the invariants of *DFSProofs*; it needs that no edge enters the
  reached blocks from outside, which holds if the tree builder has not thrown;
- the books (`BooksInv`): what is in the body of a loop has this loop in `m_data`, or
  is a latch that was given to another loop since;
- the order of discovery (`OrderInv`), for `LoopsNeverNest`: a block in a body whose own loop
  has it as its header would need an edge to an earlier block, one to a later
  block and one more (`ThreeTargets`), and a terminator has two targets;
- reach (`ReachInv`): a search backwards from reached blocks stays in them, so that the
  order, which goes through the reverse postorder, finds a place for each;
- filing (`FiledInv`): without double roles `back_edge` finds the loop of a header
  if it exists, and no other;
- natural loops (`NaturalInv`): in a reducible graph each call of `loop_search` is for a block
  of the natural loop, because a predecessor of a block that is not the header is
  in the loop with it, and the header is marked;
- what the backward searches have been through (`RestsInv`, for `RootHasTheRest`): loops
  are searched in reverse finishing order (`QueueInv`), in which a block comes before
  everything it dominates, so that no header of an earlier search is in the natural loop
  of a later one; a search that has been left therefore has the whole natural loop of
  its header marked, because what is marked is closed under predecessors up to the
  headers searched so far (`SearchedInv`);
- the tree (`TiedInv`, for `LoopsMakeATree`): a search links a loop it comes to at
  the header, which its own header dominates, or at a latch that is not marked.  The latches of
  the loops searched so far are marked and, without double roles, not unmarked again
  (`LatchesInv`), so the linked loop is still to be searched and
  its header was finished first.  Going up, headers are finished ever later, which
  cannot go on for more steps than there are loops;
- one loop in one piece (`PieceInv`): no block of the loop is placed before the header,
  which reverse postorder has first, and from there on the call of `linearize_loop` places
  blocks of the loop only, until all have their place; that its body is
  the whole loop comes from `RestAtTheRoot` and `NaturalInv`;
- behind the header (`TrailInv`): between the header of a reducible loop and a block of its
  body the order has blocks of the body only, since the call of `linearize_loop` places
  nothing else and starts when no other call is under way.  In a well ordered graph the latches
  of a loop are in its body, so that a header in the natural loop of another would come
  before a latch of it and therefore be in its body, where no header of another loop is:
  `WellOrderedIsFlat`;
- live sets (`SetsInv`), under `ProgramsAssumption` of `Liveness` (the function is in SSA
  form: an instruction is in the code once, below what it reads, and no instruction reads
  a terminator; TLC checks this of the programs of the run): a value that is live
  is defined above, or in the part of the block that is still to be processed, since what is defined
  strictly above a block is above its predecessors, or in one of them;
- what the intervals contain (`CoverInv`, with `ProcessedInv` and `IntervalsInv`), for
  `LiveValuesAreCovered`; see below;
- the bound: each call under way stands for its own edge into a marked block.

`LiveValuesAreCovered` states `LiveValuesCovered` for every graph and program.  Its premise
concerns the final order only, so the invariant is an implication from `WellOrdered`: for every
block processed, what is live into its successors along other edges than back edges, and
what their phis read from it, has an interval that spans the block; what an instruction reads has
one that reaches it; and what is live into a header has one that reaches the end
of the body.  `ProcessedInv` says that the blocks processed are those behind
`ord_it`, so in a well ordered graph the live sets of all these successors are final.
An interval only grows, but for its begin, which goes up when
the definition is met (`Spans`, `Grow`); by `NumbersUp` and `LiveNumbers` the numbers go up along the
order, so nothing after the definition is lost.  When the walk is done
(`AllDone`), a value live into a block by `LiveIn` is in its live set or in
that of a header whose natural loop the block is in (`Into`): backwards along an
edge that is no back edge the live set grows, and along a back edge one is in the loop of
the header.  A header of a loop around the loop is not needed, because the loops are flat.
The blocks of the loop lie between the header and the last of the body, so either
live set gives the interval the whole block; within the block of the
definition, and after the last read, the numbers of the instructions decide.

*ChecksEliminationProofs*: `ChecksStayCovered`, `UsersStayLive`, under
`TreeAssumption` (a strict order of blocks) and `ProgramsAssumption` (a check has its
operands, places are different).  That the check on account of which
another went may go itself is met by the transitivity of `RunsBefore`; the
invariant adds that the two sides of every use agree, so that the user found is
still in its block.

*DefUseProofs*: `TypeCorrect`, `UsersAreReaders`, `NothingDangles`, and
`Refinement`: each step of `DefUse` is a step of `OperandSpec` or changes
nothing there.  The invariant lets a deleted instruction be a user only if it is `abandoned`,
and that users are readers is said of all others; it is enough, since a value is replaced in
live instructions.

**Only model-checked**:

- all liveness properties (`EveryValuePlaced`, `EraseTerminates`, `EndsAsItShould`);
- `SameAsRecursion` and the properties of `Inlining`, whose definitions are
  recursive operators, and those of `Passes` beyond `ChecksElimination`, which
  uses `Bitwise`: the prover does not take either.

## Not modelled

- Opcodes and types are enumerations; the driver builds a fragment of the IR as the
  tests do.
- The reverse iterators of the list, the splice of instructions into the middle of a
  block and the arguments of a function (`Function::m_args`): nothing uses them.
- `CastInstr::m_src_val`, which repeats the input and which nothing reads, and `m_lin`.
- A second run of the same pass object (`m_instrs` is never cleared) and of inlining
  (moved blocks keep the `m_parent` of the callee): `PassManager` runs each once.
- `m_vars` of a phi after a pass: `DataFlowKept` compares both copies of the operands of the
  phis inlining makes; a phi the caller already has keeps a call in `m_vars` that is replaced
  in its inputs (`replace_users` leaves `m_vars` alone), no program of `inlining` has
  one, and `Liveness` is given functions in which `m_vars` and inputs agree.
- 16 and 32 bit types: they differ from 8 bits in the width only.
- Assertions are off (the NDEBUG build): what they state is a guard where a
  caller owes it, and otherwise the code goes on.

## Plan

What could still be proved: the safety invariants of `Passes` and `Inlining`, if their
recursive operators were written as recursive functions and `Bitwise` as arithmetic.

What could still be modelled: `Liveness` composed with `RegAlloc` (the intervals the
allocator really gets, instead of all intervals), and `Passes` after `Inlining`.
