----------------------------- MODULE ProgramSets ----------------------------
(***************************************************************************)
(* Sets of function bodies and programs for the MC modules: every body of  *)
(* a given number of statements over an alphabet.                          *)
(***************************************************************************)
EXTENDS Syntax

(* given the sets of bodies of 0, 1, ..., m-1 statements, those of m: a    *)
(* simple statement, a loop or a branch, and the rest                      *)
OneMore(simple, conds, bodies) ==
  LET m == Len(bodies)
      Of(n) == bodies[n + 1]
      splits == {k \in (0 .. m-1) \X (0 .. m-1) : k[1] + k[2] < m}
  IN  {<<s>> \o b : s \in simple, b \in Of(m-1)}
      \cup UNION {{<<While(c)>> \o b \o <<EndWhile>> \o rest :
                     c \in conds, b \in Of(j), rest \in Of(m-1-j)} : j \in 0 .. m-1}
      \cup UNION {{<<If(c)>> \o b \o <<Else>> \o d \o <<EndIf>> \o rest :
                     c \in conds, b \in Of(j[1]), d \in Of(j[2]), rest \in Of(m-1-j[1]-j[2])} :
                  j \in splits}

(* all bodies of at most n statements, simple ones from the given set, and *)
(* branches and loops on the given conditions                              *)
Bodies(simple, conds, n) ==
  LET Grow(bodies, i) == Append(bodies, OneMore(simple, conds, bodies))
  IN  UNION Range(FoldLeft(Grow, << {<< >>} >>, [i \in 1 .. n |-> i]))

(* the programs with a node of one of the kinds *)
With(kinds, programs) ==
  {prog \in programs : \E n \in DOMAIN prog : \E p \in DOMAIN prog[n].body : prog[n].body[p].k \in kinds}

(* straight-line bodies of at most n statements *)
Lines(simple, n) == UNION {[1 .. m -> simple] : m \in 0 .. n}

(* es closed under subexpressions, for expressions of depth 5 at most *)
SubExprs(es) ==
  LET More(s, i) == s \cup UNION {Children(e) : e \in s}
  IN  FoldLeft(More, es, <<1, 2, 3, 4>>)

(* the expressions of a set of programs, closed under subexpressions *)
ExprsOf(programs) ==
  SubExprs(UNION {UNION {{prog[i].body[p].e : p \in {q \in DOMAIN prog[i].body :
                            /\ prog[i].body[q].k \notin {"else", "endif", "endwhile", "break", "continue"}
                            /\ prog[i].body[q].e # NoExpr}} : i \in DOMAIN prog} : prog \in programs})
=============================================================================
