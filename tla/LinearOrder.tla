------------------------------ MODULE LinearOrder ------------------------------
(***************************************************************************)
(* The linear order of include/analysis/linear_order.hh, built on the loop *)
(* tree: the blocks in reverse postorder, but after the header of a loop   *)
(* comes what linearize_loop makes of its body.                            *)
(*                                                                         *)
(* m_rpo is a search of its own; it is the one LoopTree has just run on    *)
(* the same graph, so its result is taken from there.                      *)
(***************************************************************************)
EXTENDS LoopTree

VARIABLES
  rpo_it,         \* linearize_graph: how far it is in m_rpo
  calls,          \* the calls of linearize_loop, the innermost first
  visited,        \* the blocks that have their place
  m_linear_order

order_vars == <<rpo_it, calls, visited, m_linear_order>>
all_vars == <<vars, order_vars>>

m_rpo == D!reverse_postorder

Place_NotVisited(b) ==                                            \* mutant
  visited' = visited /\ m_linear_order' = Append(m_linear_order, b)
Place(b) ==
  /\ visited' = visited \cup {b}
  /\ m_linear_order' = Append(m_linear_order, b)

(* A call walks the body of its loop from the end. *)
Call_LastSkipped(l) == [loop |-> l, at |-> Len(m_loops[l].body) - 1]  \* mutant
Call(l) == [loop |-> l, at |-> Len(m_loops[l].body)]

LInit ==
  /\ Init
  /\ rpo_it = 1 /\ calls = << >> /\ visited = {} /\ m_linear_order = << >>

BuildLoopTree == Step /\ UNCHANGED order_vars

(* linearize_graph comes to a block; the header of a reducible loop is     *)
(* followed by the loop.                                                   *)
StartsLoop(b) == m_loops[loop_of[b]].header = b /\ m_loops[loop_of[b]].reducible
NextNode ==
  /\ stage = "done" /\ calls = << >> /\ rpo_it <= Len(m_rpo)
  /\ rpo_it' = rpo_it + 1
  /\ LET b == m_rpo[rpo_it]
     IN IF b \in visited THEN UNCHANGED <<calls, visited, m_linear_order>>
        ELSE Place(b) /\ calls' = IF StartsLoop(b) THEN <<Call(loop_of[b])>> ELSE << >>
  /\ UNCHANGED vars

(* linearize_loop comes to a block of the body; for the header of another  *)
(* loop it calls itself instead.                                           *)
NextBodyNode ==
  /\ calls # << >> /\ Head(calls).at > 0
  /\ LET c     == Head(calls)
         b     == m_loops[c.loop].body[c.at]
         inner == b \notin visited /\ loop_of[b] # c.loop /\ m_loops[loop_of[b]].header = b
     IN /\ calls' = (IF inner THEN <<Call(loop_of[b])>> ELSE << >>)
                       \o <<[c EXCEPT !.at = @ - 1]>> \o Tail(calls)
        /\ IF b \in visited \/ inner THEN UNCHANGED <<visited, m_linear_order>> ELSE Place(b)
  /\ UNCHANGED <<vars, rpo_it>>

Return ==
  /\ calls # << >> /\ Head(calls).at = 0
  /\ calls' = Tail(calls)
  /\ UNCHANGED <<vars, rpo_it, visited, m_linear_order>>

Ordered == stage = "done" /\ calls = << >> /\ rpo_it > Len(m_rpo)
LStopped == Ordered \/ (stage = "dom3" /\ phase \in {"threw", "undefined"})
LDone == LStopped /\ UNCHANGED all_vars

LStep == BuildLoopTree \/ NextNode \/ NextBodyNode \/ Return
LNext == LStep \/ LDone
LSpec == LInit /\ [][LNext]_all_vars /\ WF_all_vars(LStep)

-----------------------------------------------------------------------------
(* The type invariant, with that of the loop tree.                         *)
LTypeOK ==
  /\ TypeOK
  /\ rpo_it \in 1 .. Cardinality(Nodes) + 1
  /\ calls \in Seq([loop : Loops, at : 0 .. 2 * Cardinality(Nodes)])
  /\ visited \subseteq Nodes /\ m_linear_order \in Seq(visited)

Pos(b) == CHOOSE i \in DOMAIN m_linear_order : m_linear_order[i] = b
OneLoop == \A h, g \in Headers : h = g

(* The order has every reachable block once, although loop bodies hold     *)
(* blocks twice, or blocks of other loops, and both walks place blocks     *)
(* (linear_order.hh:39-70): liveness numbers the instructions along it.    *)
EveryBlockOnce ==
  Ordered => /\ {m_linear_order[i] : i \in DOMAIN m_linear_order} = Reached
             /\ Len(m_linear_order) = Cardinality(Reached)

(* If there is one loop it is in one piece, the header first: liveness     *)
(* extends what is live into a loop from the header to the last block of   *)
(* the body (liveness_analyzer.hh:140-155).  (The dominator tree has to    *)
(* know the loop as reducible, which it may not from six blocks on.)       *)
LoopInOnePiece ==
  Ordered /\ Reducible /\ KnownReducible /\ OneRoleEach /\ OneLoop =>
    \A h \in Headers : \A b \in NaturalLoop(h) :
      Pos(b) \in Pos(h) .. Pos(h) + Cardinality(NaturalLoop(h)) - 1

(* linearize_loop never calls itself, although it is written to            *)
(* (linear_order.hh:62-66): the header of an inner loop is never in the    *)
(* body of the outer one with its own loop in m_data.                      *)
InnersNeverEntered == Len(calls) <= 1
==============================================================================
