------------------------------ MODULE MCInlining ------------------------------
(***************************************************************************)
(* Model checking instances of Inlining: a caller of one of six shapes,    *)
(* that calls f, g or both, callees of eight shapes each.  A shape is a    *)
(* sequence of blocks, each a sequence of (name, opcode, targets, inputs). *)
(***************************************************************************)
EXTENDS Inlining

CalleeShape ==
  [straight |-> << << <<"x", "PARAM", << >>, << >> >>, <<"a", "ADD", << >>, <<"x">> >>,
                      <<"r", "RET", << >>, <<"a">> >> >> >>,
   identity |-> << << <<"x", "PARAM", << >>, << >> >>, <<"r", "RET", << >>, <<"x">> >> >> >>,
   fork     |-> << << <<"x", "PARAM", << >>, << >> >>, <<"i", "IF", <<2, 3>>, <<"x">> >> >>,
                   << <<"a", "ADD", << >>, <<"x">> >>, <<"r", "RET", << >>, <<"a">> >> >>,
                   << <<"b", "ADD", << >>, <<"x">> >>, <<"s", "RET", << >>, <<"b">> >> >> >>,
   join     |-> << << <<"x", "PARAM", << >>, << >> >>, <<"i", "IF", <<2, 3>>, <<"x">> >> >>,
                   << <<"a", "ADD", << >>, <<"x">> >>, <<"j", "BRANCH", <<4>>, << >> >> >>,
                   << <<"k", "BRANCH", <<4>>, << >> >> >>,
                   << <<"r", "RET", << >>, <<"x">> >> >> >>,
   loop     |-> << << <<"x", "PARAM", << >>, << >> >>, <<"j", "BRANCH", <<2>>, << >> >> >>,
                   << <<"a", "ADD", << >>, <<"x">> >>, <<"i", "IF", <<2, 3>>, <<"a">> >> >>,
                   << <<"r", "RET", << >>, <<"a">> >> >> >>,
   headloop |-> << << <<"x", "PARAM", << >>, << >> >>, <<"a", "ADD", << >>, <<"x">> >>,
                      <<"i", "IF", <<1, 2>>, <<"a">> >> >>,
                   << <<"r", "RET", << >>, <<"a">> >> >> >>,
   endless  |-> << << <<"x", "PARAM", << >>, << >> >>, <<"j", "BRANCH", <<2>>, << >> >> >>,
                   << <<"a", "ADD", << >>, <<"x">> >>, <<"k", "BRANCH", <<2>>, << >> >> >> >>,
   big      |-> << << <<"x", "PARAM", << >>, << >> >>, <<"i", "IF", <<2, 3>>, <<"x">> >> >>,
                   << <<"a", "ADD", << >>, <<"x">> >>, <<"b", "ADD", << >>, <<"a">> >>,
                      <<"c", "ADD", << >>, <<"b">> >>, <<"r", "RET", << >>, <<"c">> >> >>,
                   << <<"s", "RET", << >>, <<"x">> >> >> >>]

(* Calls c and d are of f and g, but for "same", where both are of f. *)
CallerShape ==
  [one  |-> << << <<"v", "CONST", << >>, << >> >>, <<"j", "BRANCH", <<2>>, << >> >> >>,
               << <<"c", "CALL", << >>, <<"v">> >>, <<"a", "ADD", << >>, <<"c">> >>,
                  <<"r", "RET", << >>, <<"a">> >> >> >>,
   two  |-> << << <<"v", "CONST", << >>, << >> >>, <<"c", "CALL", << >>, <<"v">> >>,
                  <<"d", "CALL", << >>, <<"c">> >>, <<"a", "ADD", << >>, <<"c">> >>,
                  <<"r", "RET", << >>, <<"d">> >> >> >>,
   fork |-> << << <<"v", "CONST", << >>, << >> >>, <<"i", "IF", <<2, 3>>, <<"v">> >> >>,
               << <<"c", "CALL", << >>, <<"v">> >>, <<"r", "RET", << >>, <<"c">> >> >>,
               << <<"d", "CALL", << >>, <<"v">> >>, <<"s", "RET", << >>, <<"d">> >> >> >>,
   same |-> << << <<"v", "CONST", << >>, << >> >>, <<"c", "CALL", << >>, <<"v">> >>,
                  <<"d", "CALL", << >>, <<"c">> >>, <<"r", "RET", << >>, <<"d">> >> >> >>,
   goon |-> << << <<"v", "CONST", << >>, << >> >>, <<"c", "CALL", << >>, <<"v">> >>,
                  <<"j", "BRANCH", <<2>>, << >> >> >>,
               << <<"r", "RET", << >>, <<"c">> >> >> >>,
   loop |-> << << <<"v", "CONST", << >>, << >> >>, <<"j", "BRANCH", <<2>>, << >> >> >>,
               << <<"i", "IF", <<3, 4>>, <<"v">> >> >>,
               << <<"c", "CALL", << >>, <<"v">> >>, <<"k", "BRANCH", <<2>>, << >> >> >>,
               << <<"r", "RET", << >>, <<"v">> >> >> >>]

Names == {"x", "v", "a", "b", "c", "d", "i", "j", "k", "r", "s"}
AllFuncs == {"main", "f", "g"}
ToBeMade == [k \in 1 .. 6 |-> <<"new", k>>]
AllIds == (AllFuncs \X Names) \cup ToSet(ToBeMade)
AllBBs == (AllFuncs \X (1 .. 4)) \cup {<<"new", k>> : k \in {1, 2}}

(* caller shape, shape of f, shape of g, the type of both *)
AllPrograms == (DOMAIN CallerShape) \X (DOMAIN CalleeShape) \X (DOMAIN CalleeShape) \X {"I64", "NONE"}

SourceOf(p) ==
  LET shape == [f \in AllFuncs |-> CASE f = "main" -> CallerShape[p[1]]
                                     [] f = "f" -> CalleeShape[p[2]]
                                     [] f = "g" -> CalleeShape[p[3]]]
      Named(f, s) == [k \in DOMAIN s |-> <<f, s[k]>>]
      instrs == [f \in AllFuncs |-> ToSet(FlattenSeq(shape[f]))]
      Is(i) == IF i[1] = "new" THEN {} ELSE {t \in instrs[i[1]] : t[1] = i[2]}
      none == [op |-> "NONE", to |-> << >>, callee |-> None, vars |-> << >>]
  IN [blocks |-> [f \in AllFuncs |-> [k \in DOMAIN shape[f] |-> <<f, k>>]],
      types  |-> [f \in AllFuncs |-> p[4]],
      body   |-> [b \in AllBBs |->
                    IF b[1] \in AllFuncs /\ b[2] \in DOMAIN shape[b[1]]
                    THEN LET s == shape[b[1]][b[2]] IN [k \in DOMAIN s |-> <<b[1], s[k][1]>>]
                    ELSE << >>],
      code   |-> [i \in AllIds |->
                    IF Is(i) = {} THEN none
                    ELSE LET t == CHOOSE t \in Is(i) : TRUE
                         IN [op |-> t[2], to |-> Named(i[1], t[3]), vars |-> << >>,
                             callee |-> IF t[2] # "CALL" THEN None
                                        ELSE IF t[1] = "c" \/ p[1] = "same" THEN "f" ELSE "g"]],
      inputs |-> [i \in AllIds |->
                    IF Is(i) = {} THEN << >> ELSE Named(i[1], (CHOOSE t \in Is(i) : TRUE)[4])]]
===============================================================================
