------------------------------ MODULE MCDriver ------------------------------
(***************************************************************************)
(* Instances of Driver: two sources of one name and direct calls of the    *)
(* compiler with its arguments in every order that matters.                *)
(***************************************************************************)
EXTENDS Driver

TwoSources == {"x.aur", "lib/x.aur"}
Names == [s \in TwoSources |-> "x"]
Files == {"build/x.o", "build/x.ll", "build/x", "a.o", "a.ll", "-o", "--emit-ll"}

Scripted == {[script |-> TRUE, args |-> <<s>>] : s \in TwoSources}
Direct ==
  {[script |-> FALSE, args |-> args] :
     args \in {<< >>, <<"x.aur">>, <<"x.aur", "-o">>, <<"x.aur", "a.o", "-o", "a.o">>,
               <<"x.aur", "--emit-ll", "a.o", "--emit-ll", "a.ll", "-o", "a.o">>,
               <<"x.aur", "-o", "a.o", "--emit-ll">>,
               <<"x.aur", "-o", "-o", "--emit-ll", "a.ll", "a.o">>, <<"x.aur", "-o", "a.ll", "-o", "a.o">>,
               <<"x.aur", "-o", "a.o", "--emit-ll", "a.o">>, <<"x.aur", "-o", "build/x.o">>}}
NoArgument == {[script |-> TRUE, args |-> << >>]}
AllCalls == Scripted \cup Direct \cup NoArgument

Renamings == Permutations(Linkable) \cup Permutations(Jobs)
=============================================================================
