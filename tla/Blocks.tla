-------------------------------- MODULE Blocks --------------------------------
(***************************************************************************)
(* The operations of BasicBlock, Function and IRBuilder that a pass        *)
(* applies, on the record g:                                               *)
(*   blocks   function -> its list of blocks (m_basic_blocks)              *)
(*   parent   block -> its function (m_parent)                             *)
(*   bb_id    block -> m_bb_id                                             *)
(*   body     block -> its list of instructions (m_instr)                  *)
(*   preds, succs   block -> m_preds, m_succs                              *)
(*   defined  no operation had undefined behaviour                         *)
(* code gives an instruction its opcode and, for a terminator, the blocks  *)
(* it leads to, for a call the callee, for a phi its m_vars.               *)
(***************************************************************************)
EXTENDS Code, SequencesExt

TargetsOf(g, code, b) == IF g.body[b] = << >> THEN << >> ELSE code[Last(g.body[b])].to

link_blocks(g, succ, pred) ==
  [g EXCEPT !.succs[pred] = Append(@, succ), !.preds[succ] = Append(@, pred)]

(* erase(end()) when either side does not know the other. *)
remove_link(g, succ, pred) ==
  [g EXCEPT !.preds[succ] = RemoveFirst(@, pred), !.succs[pred] = RemoveFirst(@, succ),
            !.defined = @ /\ Contains(g.preds[succ], pred) /\ Contains(g.succs[pred], succ)]

LinkTargets(g, b, targets) == FoldLeft(LAMBDA h, t : link_blocks(h, t, b), g, targets)

(* The links of the block to its successors are to be removed, but it is   *)
(* passed as the successor of each; of one to itself the loop would change *)
(* the vector it runs over.                                                *)
update_NoNewLinks(g, code, b) == g                                \* mutant
update(g, code, b) ==
  LET removed == FoldLeft(LAMBDA h, s : remove_link(h, b, s), g, g.succs[b])
  IN LinkTargets([removed EXCEPT !.defined = @ /\ ~Contains(g.succs[b], b)],
                 b, TargetsOf(g, code, b))

(* push_back. *)
PushBack(g, code, b, i) == LinkTargets([g EXCEPT !.body[b] = Append(@, i)], b, code[i].to)
PushFront(g, b, i) == [g EXCEPT !.body[b] = <<i>> \o @]
EraseInstr(g, b, i) == [g EXCEPT !.body[b] = Remove(@, i)]

(* Function::create<BasicBlock>. *)
CreateBlock(g, f, new) ==
  [g EXCEPT !.blocks[f] = Append(@, new), !.parent[new] = f,
            !.bb_id[new] = IF g.blocks[f] = << >> THEN 0 ELSE g.bb_id[Last(g.blocks[f])] + 1]

(* BasicBlock::splice: what comes after place k of block from, to the end of block to. *)
SpliceToEnd(g, code, to, from, k) ==
  update([g EXCEPT !.body[to] = @ \o SubSeq(g.body[from], k + 1, Len(g.body[from])),
                   !.body[from] = SubSeq(@, 1, k)], code, to)

(* The new block goes to the end of the function the block says it is in. *)
split_bb_after(g, code, b, i, new) ==
  SpliceToEnd(CreateBlock(g, g.parent[b], new), code, new, b,
              CHOOSE k \in DOMAIN g.body[b] : g.body[b][k] = i)

(* Function::splice: the blocks of src, before block pos. *)
SpliceBlocks(g, f, pos, src) ==
  LET list == g.blocks[f]
      k    == CHOOSE k \in DOMAIN list : list[k] = pos
  IN [g EXCEPT !.blocks[f] = SubSeq(list, 1, k - 1) \o g.blocks[src] \o SubSeq(list, k, Len(list)),
               !.blocks[src] = << >>]
===============================================================================
