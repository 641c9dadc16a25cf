---------------------------- MODULE AuroracProofs ---------------------------
(***************************************************************************)
(* Proofs about the compiler as a whole: what Sema has admitted, CodeGen   *)
(* finds in its maps.                                                      *)
(***************************************************************************)
EXTENDS Aurorac, Typing, CodeGenProofs

-----------------------------------------------------------------------------
(* The recursion in Infer, over the expressions; p is <<env, sigs>>.       *)
InferDom(p) == Exprs
InferRank(p, e) == Depth[e]
InferBody(p, T, e) == infer(p[1], p[2], T, e)
Inferring == INSTANCE Recursion WITH Dom <- InferDom, Rank <- InferRank, Body <- InferBody, Fit <- Anything

LEMMA InferLooksBelow ==
  ASSUME NEW env, NEW sigs, NEW e \in Exprs, NEW t, NEW u, \A d \in Simpler(e) : t[d] = u[d]
  PROVE  infer(env, sigs, t, e) = infer(env, sigs, u, e)
<1>1. CASE e.k = "unary"
  <2>1. t[e.r] = u[e.r]
    BY <1>1, Operands
  <2> QED
    BY <1>1, <2>1 DEF infer
<1>2. CASE e.k = "bin"
  <2>1. t[e.l] = u[e.l] /\ t[e.r] = u[e.r]
    BY <1>2, Operands
  <2> QED
    BY <1>2, <2>1 DEF infer
<1>3. CASE e.k = "call"
  <2>1. [i \in DOMAIN e.args |-> t[e.args[i]]] = [i \in DOMAIN e.args |-> u[e.args[i]]]
    BY <1>3, Operands
  <2> QED
    BY <1>3, <2>1 DEF infer
<1>4. CASE e.k = "arraylit"
  <2>1. IsSeq(e.elems) /\ \A i \in DOMAIN e.elems : t[e.elems[i]] = u[e.elems[i]]
    BY <1>4, Operands
  <2>2. e.elems # << >> => 1 \in DOMAIN e.elems
    BY <2>1, SeqBasics
  <2> QED
    BY <1>4, <2>1, <2>2 DEF infer
<1>5. CASE e.k = "index"
  <2>1. t[e.a] = u[e.a] /\ t[e.i] = u[e.i]
    BY <1>5, Operands
  <2> QED
    BY <1>5, <2>1 DEF infer
<1>6. CASE e.k \notin {"unary", "bin", "call", "arraylit", "index"}
  BY <1>6 DEF infer
<1> QED
  BY <1>1, <1>2, <1>3, <1>4, <1>5, <1>6

LEMMA Inferred ==
  ASSUME NEW env, NEW sigs, NEW e \in Exprs
  PROVE  Infer(env, sigs)[e] = infer(env, sigs, Infer(env, sigs), e)
<1> DEFINE p == <<env, sigs>>
           f == Inferring!Defined(p)
<1>1. ASSUME NEW c \in Exprs, NEW t, NEW u, Inferring!Agree(p, t, u, Depth[c])
      PROVE  InferBody(p, t, c) = InferBody(p, u, c)
  <2>1. \A d \in Simpler(c) : t[d] = u[d]
    BY <1>1 DEF Inferring!Agree, InferDom, InferRank, Simpler
  <2> QED
    BY <2>1, InferLooksBelow DEF InferBody
<1>4. f = Infer(env, sigs)
  BY DEF Inferring!Defined, InferDom, InferBody, Infer
<1>6. InferBody(p, f, e) = infer(env, sigs, f, e)
  BY DEF InferBody
<1> HIDE DEF p
<1>2. Inferring!LooksDown(p)
  BY <1>1, ExprsAssumption DEF Inferring!LooksDown, InferDom, InferRank, Anything
<1>3. f = [c \in InferDom(p) |-> InferBody(p, f, c)]
  BY <1>2, Inferring!Unfolding
<1> HIDE DEF f
<1>5. f[e] = InferBody(p, f, e)
  BY <1>3 DEF InferDom
<1> QED
  BY <1>4, <1>5, <1>6

-----------------------------------------------------------------------------
(* What genExpr stops at in an expression that has a type.                 *)

RuledOut == {"unknown var", "unknown callee", "empty array literal", "outside of loop"}
Clean(v) == v.stop \notin RuledOut

LEMMA ThenIs ==
  ASSUME NEW vs, IsSeq(vs), NEW ty, NEW is
  PROVE  (\E i \in DOMAIN vs : Then(vs, ty, is) = vs[i]) \/ (\E code : Then(vs, ty, is) = Value(ty, code))
<1> DEFINE bad == {i \in DOMAIN vs : vs[i].stop # ""}
<1>1. DOMAIN vs \subseteq Nat
  BY SeqBasics
<1>2. CASE bad # {}
  <2>1. bad \in SUBSET Nat /\ bad \subseteq DOMAIN vs
    <3>1. bad \subseteq DOMAIN vs
      OBVIOUS
    <3> HIDE DEF bad
    <3> QED
      BY <1>1, <3>1
  <2>2. Min(bad) \in DOMAIN vs
    <3> HIDE DEF bad
    <3> QED
      BY <1>2, <2>1, LeastNumber
  <2> QED
    BY <1>2, <2>2 DEF Then
<1>3. CASE bad = {}
  BY <1>3 DEF Then
<1> QED
  BY <1>2, <1>3

LEMMA CleanThen ==
  ASSUME NEW vs, IsSeq(vs), \A i \in DOMAIN vs : Clean(vs[i]) /\ IsValue(vs[i]), NEW ty, NEW is
  PROVE  Clean(Then(vs, ty, is)) /\ IsValue(Then(vs, ty, is))
<1>1. \A code : Clean(Value(ty, code)) /\ IsValue(Value(ty, code))
  BY DEF Clean, Value, RuledOut, IsValue
<1> QED
  BY <1>1, ThenIs

LEMMA CleanOp ==
  ASSUME NEW vs, IsSeq(vs), \A i \in DOMAIN vs : Clean(vs[i]) /\ IsValue(vs[i]), NEW op, NEW ty, NEW ok, NEW at
  PROVE  Clean(Op(op, vs, ty, ok, at)) /\ IsValue(Op(op, vs, ty, ok, at))
<1> DEFINE is == <<Instr(op, UNION {vs[i].base : i \in DOMAIN vs}, ok, at)>>
<1>1. Clean(Then(vs, ty, << >>)) /\ Clean(Then(vs, ty, is))
  BY CleanThen
<1>2. IsValue(Then(vs, ty, << >>)) /\ IsValue(Then(vs, ty, is))
  BY CleanThen
<1> DEFINE folded == Then(vs, ty, << >>)
<1> HIDE DEF is, folded
<1>3. Clean([folded EXCEPT !.const = TRUE]) /\ IsValue([folded EXCEPT !.const = TRUE])
  BY <1>1, <1>2 DEF Clean, IsValue, folded
<1> QED
  BY <1>1, <1>2, <1>3 DEF Op, is, folded

(* what a name means to infer, it means to genExpr *)
Known(tenv, sigs, env) ==
  /\ DOMAIN tenv \subseteq DOMAIN env.vals
  /\ DOMAIN sigs \subseteq DOMAIN env.funcs
  /\ \A f \in DOMAIN sigs : \A i \in DOMAIN sigs[f].params : sigs[f].params[i] # Ill

LEMMA IllIsNoType == Ill # Void /\ Ill.k \notin {"array", "ptr"} /\ Ill \notin {I64, I32}
  BY DEF Ill, Void, I64, I32

(* an expression with a type has operands with types *)
LEMMA TypedOperands ==
  ASSUME NEW tenv, NEW sigs, NEW T, NEW e \in Exprs, T[e] = infer(tenv, sigs, T, e), T[e] # Ill,
         \A f \in DOMAIN sigs : \A i \in DOMAIN sigs[f].params : sigs[f].params[i] # Ill
  PROVE  /\ e.k = "var" => e.x \in DOMAIN tenv
         /\ e.k = "unary" => T[e.r] # Ill
         /\ e.k = "bin" => T[e.l] # Ill /\ T[e.r] # Ill
         /\ e.k = "call" => e.f \in DOMAIN sigs /\ \A i \in DOMAIN e.args : T[e.args[i]] # Ill
         /\ e.k = "arraylit" => e.elems # << >> /\ \A i \in DOMAIN e.elems : T[e.elems[i]] # Ill
         /\ e.k = "index" => T[e.a] # Ill /\ T[e.i] # Ill
<1>1. CASE e.k = "var"
  BY <1>1 DEF infer
<1>2. CASE e.k = "unary"
  BY <1>2 DEF infer
<1>3. CASE e.k = "bin" /\ e.op = "="
  BY <1>3 DEF infer
<1>4. CASE e.k = "bin" /\ e.op # "="
  BY <1>4 DEF infer
<1>5. CASE e.k = "call"
  <2>1. e.f \in DOMAIN sigs /\ [i \in DOMAIN e.args |-> T[e.args[i]]] = sigs[e.f].params
    BY <1>5 DEF infer
  <2>2. \A i \in DOMAIN e.args : i \in DOMAIN sigs[e.f].params /\ T[e.args[i]] = sigs[e.f].params[i]
    BY <2>1
  <2> QED
    BY <1>5, <2>1, <2>2
<1>6. CASE e.k = "arraylit"
  BY <1>6 DEF infer
<1>7. CASE e.k = "index"
  <2>1. T[e.a].k \in {"array", "ptr"} /\ T[e.i] \in {I64, I32}
    BY <1>7 DEF infer
  <2> QED
    BY <1>7, <2>1, IllIsNoType
<1> QED
  BY <1>1, <1>2, <1>3, <1>4, <1>5, <1>6, <1>7

CleanOf(T, G, e) == T[e] # Ill => Clean(G[e]) /\ IsValue(G[e])

LEMMA CleanPair ==
  ASSUME NEW u, NEW v, Clean(u), IsValue(u), Clean(v), IsValue(v)
  PROVE  IsSeq(<<u, v>>) /\ \A i \in DOMAIN <<u, v>> : Clean(<<u, v>>[i]) /\ IsValue(<<u, v>>[i])
<1>1. DOMAIN <<u, v>> = {1, 2} /\ <<u, v>>[1] = u /\ <<u, v>>[2] = v
  OBVIOUS
<1> QED
  BY <1>1, RangeOfTwo

LEMMA CleanSingle ==
  ASSUME NEW v, Clean(v), IsValue(v), NEW op, NEW ty, NEW ok, NEW at
  PROVE  Clean(Op(op, <<v>>, ty, ok, at)) /\ IsValue(Op(op, <<v>>, ty, ok, at))
<1>1. IsSeq(<<v>>) /\ DOMAIN <<v>> = {1} /\ <<v>>[1] = v
  BY OneEntryStack
<1> QED
  BY <1>1, CleanOp

LEMMA CleanMany ==
  ASSUME NEW T, NEW G, NEW es, IsSeq(es), \A i \in DOMAIN es : T[es[i]] # Ill /\ CleanOf(T, G, es[i])
  PROVE  /\ IsSeq([i \in DOMAIN es |-> G[es[i]]])
         /\ DOMAIN [i \in DOMAIN es |-> G[es[i]]] = DOMAIN es
         /\ \A i \in DOMAIN es : Clean([j \in DOMAIN es |-> G[es[j]]][i]) /\ IsValue([j \in DOMAIN es |-> G[es[j]]][i])
<1> DEFINE vs == [i \in DOMAIN es |-> G[es[i]]]
<1>1. vs = [i \in DOMAIN es |-> vs[i]] /\ DOMAIN vs = DOMAIN es
  OBVIOUS
<1>2. \A i \in DOMAIN es : Clean(vs[i]) /\ IsValue(vs[i])
  BY DEF CleanOf
<1> HIDE DEF vs
<1>3. IsSeq(vs)
  BY <1>1, Mapped
<1> QED
  BY <1>1, <1>2, <1>3 DEF vs

LEMMA CleanExpr ==
  ASSUME NEW tenv, NEW sigs, NEW env, Known(tenv, sigs, env), NEW T, NEW G, NEW e \in Exprs,
         \A c \in Exprs : T[c] = infer(tenv, sigs, T, c),
         \A d \in Simpler(e) : CleanOf(T, G, d), T[e] # Ill
  PROVE  Clean(genExpr(env, G, e)) /\ IsValue(genExpr(env, G, e))
<1> DEFINE Fine(v) == Clean(v) /\ IsValue(v)
<1>1. \A ty, code : Fine(Value(ty, code)) /\ Fine([Value(ty, code) EXCEPT !.base = {}])
  BY DEF Clean, IsValue, Value, RuledOut
<1>0. \A c \in Exprs : T[c] # Ill =>
        /\ c.k = "var" => c.x \in DOMAIN env.vals
        /\ c.k = "index" => T[c.a] # Ill /\ T[c.i] # Ill
  BY TypedOperands DEF Known
<1>2. CASE e.k = "int" \/ e.k = "bool"
  <2>1. \A ty : Fine(Const(ty))
    BY DEF Clean, IsValue, Value, Const, RuledOut
  <2> QED
    BY <1>2, <2>1 DEF genExpr
<1>3. CASE e.k = "var"
  <2>1. e.x \in DOMAIN env.vals
    BY <1>0, <1>3
  <2>2. \A s : Fine([Value(OpaquePtr, << >>) EXCEPT !.base = {s}])
    BY DEF Clean, IsValue, Value, RuledOut
  <2> HIDE DEF Fine
  <2>3. Fine(genExpr(env, G, e))
    BY <1>1, <1>3, <2>1, <2>2 DEF genExpr
  <2> QED
    BY <2>3 DEF Fine
<1>4. CASE e.k = "unary"
  <2>1. Fine(G[e.r])
    BY <1>4, Operands, TypedOperands DEF CleanOf, Known
  <2>2. genExpr(env, G, e) = Op(e.op, <<G[e.r]>>, G[e.r].ty, G[e.r].ty \in Integer, env.at)
    BY <1>4 DEF genExpr
  <2> QED
    BY <2>1, <2>2, CleanSingle
<1>5. CASE e.k = "bin" /\ e.op = "=" /\ e.l.k = "var"
  <2>1. Fine(G[e.r]) /\ e.l.x \in DOMAIN env.vals
    BY <1>0, <1>5, Operands, TypedOperands DEF CleanOf, Known, Simpler
  <2>2. PICK code : genExpr(env, G, e) = [G[e.r] EXCEPT !.code = code]
    BY <1>5, <2>1 DEF genExpr
  <2> QED
    BY <2>1, <2>2 DEF Clean, IsValue
<1>6. CASE e.k = "bin" /\ e.op = "=" /\ e.l.k = "index"
  <2>1. Fine(G[e.r]) /\ Fine(G[e.l.i])
    <3>1. e.l \in Simpler(e) /\ T[e.l] # Ill /\ Fine(G[e.r])
      BY <1>6, Operands, TypedOperands DEF CleanOf, Known
    <3>2. e.l.i \in Simpler(e.l) /\ T[e.l.i] # Ill
      BY <1>0, <1>6, <3>1, Operands DEF Simpler
    <3>3. e.l.i \in Simpler(e)
      BY <3>1, <3>2, ExprsAssumption DEF Simpler
    <3> QED
      BY <3>1, <3>2, <3>3 DEF CleanOf
  <2>2. Fine(Stop("indexing on non-variable"))
    BY DEF Clean, IsValue, Value, Stop, RuledOut
  <2>3. CASE e.l.a.k # "var"
    BY <1>6, <2>2, <2>3 DEF genExpr
  <2>4. CASE e.l.a.k = "var"
    <3>1. e.l.a.x \in DOMAIN env.vals
      <4>1. e.l \in Exprs /\ T[e.l] # Ill
        BY <1>6, Operands, TypedOperands DEF Known, Simpler
      <4>2. e.l.a \in Exprs /\ T[e.l.a] # Ill
        BY <1>0, <1>6, <4>1, Operands DEF Simpler
      <4> QED
        BY <1>0, <2>4, <4>2
    <3> DEFINE i32 == IF G[e.l.i].ty = I32 THEN G[e.l.i]
                      ELSE Op("trunc", <<G[e.l.i]>>, I32, G[e.l.i].ty = I64, env.at)
    <3>2. Fine(i32)
      BY <2>1, CleanSingle
    <3>3. \E address, ty, store :
            genExpr(env, G, e) = [Then(<<Then(<<i32>>, I32, address), G[e.r]>>, ty, store)
                                    EXCEPT !.const = G[e.r].const, !.base = G[e.r].base]
      BY <1>6, <2>4, <3>1 DEF genExpr
    <3> HIDE DEF i32
    <3>4. PICK address, ty, store :
            genExpr(env, G, e) = [Then(<<Then(<<i32>>, I32, address), G[e.r]>>, ty, store)
                                    EXCEPT !.const = G[e.r].const, !.base = G[e.r].base]
      BY <3>3
    <3> DEFINE inner == Then(<<i32>>, I32, address)
               outer == Then(<<inner, G[e.r]>>, ty, store)
    <3>5. Fine(inner)
      <4>1. IsSeq(<<i32>>) /\ DOMAIN <<i32>> = {1} /\ <<i32>>[1] = i32
        BY OneEntryStack
      <4> QED
        BY <3>2, <4>1, CleanThen
    <3> HIDE DEF inner
    <3>6. Fine(outer)
      BY <2>1, <3>5, CleanPair, CleanThen
    <3>7. genExpr(env, G, e) = [outer EXCEPT !.const = G[e.r].const, !.base = G[e.r].base]
      BY <3>4 DEF inner
    <3> HIDE DEF outer
    <3> QED
      BY <3>6, <3>7 DEF Clean, IsValue
  <2> QED
    BY <2>3, <2>4
<1>7. CASE e.k = "bin" /\ e.op = "=" /\ e.l.k \notin {"var", "index"}
  <2>1. Fine(Stop("assignment target must be a variable"))
    BY DEF Clean, IsValue, Value, Stop, RuledOut
  <2> QED
    BY <1>7, <2>1 DEF genExpr
<1>8. CASE e.k = "bin" /\ e.op # "="
  <2>1. Fine(G[e.l]) /\ Fine(G[e.r])
    BY <1>8, Operands, TypedOperands DEF CleanOf, Known
  <2>2. PICK ty, ok : genExpr(env, G, e) = Op(e.op, <<G[e.l], G[e.r]>>, ty, ok, env.at)
    BY <1>8 DEF genExpr
  <2> QED
    BY <2>1, <2>2, CleanPair, CleanOp
<1>9. CASE e.k = "call"
  <2> DEFINE vs == [i \in DOMAIN e.args |-> G[e.args[i]]]
  <2>1. IsSeq(vs) /\ \A i \in DOMAIN vs : Fine(vs[i])
    <3>1. IsSeq(e.args) /\ \A i \in DOMAIN e.args : T[e.args[i]] # Ill /\ CleanOf(T, G, e.args[i])
      BY <1>9, Operands, TypedOperands DEF Known
    <3> QED
      BY <3>1, CleanMany
  <2>2. e.f \in DOMAIN env.funcs
    BY <1>9, TypedOperands DEF Known
  <2>3. \E ty, is : genExpr(env, G, e) = Then(vs, ty, is)
    BY <1>9, <2>2 DEF genExpr
  <2> HIDE DEF vs
  <2> QED
    BY <2>1, <2>3, CleanThen
<1>10. CASE e.k = "arraylit"
  <2> DEFINE vs == [i \in DOMAIN e.elems |-> G[e.elems[i]]]
             bad == Then(vs, OpaquePtr, << >>)
  <2>1. IsSeq(vs) /\ \A i \in DOMAIN vs : Fine(vs[i])
    <3>1. IsSeq(e.elems) /\ \A i \in DOMAIN e.elems : T[e.elems[i]] # Ill /\ CleanOf(T, G, e.elems[i])
      BY <1>10, Operands, TypedOperands DEF Known
    <3> QED
      BY <3>1, CleanMany
  <2>2. e.elems # << >>
    BY <1>10, TypedOperands DEF Known
  <2>3. genExpr(env, G, e) = bad \/ \E code : genExpr(env, G, e) = Value(OpaquePtr, code)
    BY <1>10, <2>2 DEF genExpr
  <2> HIDE DEF vs
  <2>4. Fine(bad)
    BY <2>1, CleanThen
  <2> HIDE DEF bad
  <2>5. ASSUME NEW code, genExpr(env, G, e) = Value(OpaquePtr, code)
        PROVE  Fine(genExpr(env, G, e))
    BY <1>1, <2>5
  <2> HIDE DEF Fine
  <2>6. Fine(genExpr(env, G, e))
    BY <2>3, <2>4, <2>5
  <2> QED
    BY <2>6 DEF Fine
<1>11. CASE e.k = "index"
  <2>1. Fine(G[e.a]) /\ Fine(G[e.i])
    BY <1>11, Operands, TypedOperands DEF CleanOf, Known
  <2>2. Fine(Stop("must be a pointer"))
    BY DEF Clean, IsValue, Value, Stop, RuledOut
  <2> DEFINE i == G[e.i]
             i32 == IF i.ty = I64 THEN IF i.ty = I32 THEN i ELSE Op("trunc", <<i>>, I32, i.ty = I64, env.at)
                    ELSE i
  <2>3. Fine(i32)
    BY <2>1, CleanSingle
  <2>4. \/ genExpr(env, G, e) = Stop("must be a pointer")
        \/ \E ty, is : genExpr(env, G, e) = Then(<<G[e.a], i32>>, ty, is)
    BY <1>11 DEF genExpr
  <2> HIDE DEF i32
  <2>5. \A ty, is : Fine(Then(<<G[e.a], i32>>, ty, is))
    BY <2>1, <2>3, CleanPair, CleanThen
  <2> HIDE DEF Fine
  <2>6. Fine(genExpr(env, G, e))
    BY <2>2, <2>4, <2>5
  <2> QED
    BY <2>6 DEF Fine
<1> QED
  BY <1>2, <1>3, <1>4, <1>5, <1>6, <1>7, <1>8, <1>9, <1>10, <1>11, ExprsAssumption

(* what genExpr makes of an expression that Infer has given a type *)
LEMMA CleanGen ==
  ASSUME NEW tenv, NEW sigs, NEW env, Known(tenv, sigs, env), NEW e \in Exprs, Infer(tenv, sigs)[e] # Ill
  PROVE  Clean(Gen(env)[e]) /\ IsValue(Gen(env)[e])
<1> DEFINE T == Infer(tenv, sigs)
           G == Gen(env)
           Done == {c \in Exprs : CleanOf(T, G, c)}
<1>1. \A c \in Exprs : T[c] = infer(tenv, sigs, T, c)
  BY Inferred
<1>2. \A c \in Exprs : G[c] = genExpr(env, G, c)
  BY Generated
<1> HIDE DEF T, G
<1>3. ASSUME NEW c \in Exprs, Simpler(c) \subseteq Done
      PROVE  CleanOf(T, G, c)
  <2>1. \A d \in Simpler(c) : CleanOf(T, G, d)
    BY <1>3
  <2>2. CASE T[c] # Ill
    <3>1. Clean(genExpr(env, G, c)) /\ IsValue(genExpr(env, G, c))
      BY <1>1, <2>1, <2>2, CleanExpr
    <3> QED
      BY <1>2, <3>1 DEF CleanOf
  <2> QED
    BY <2>2 DEF CleanOf
<1>4. Exprs \subseteq Done
  <2>1. \A c \in Exprs : Simpler(c) \subseteq Done => c \in Done
    BY <1>3
  <2> HIDE DEF Done
  <2> QED
    BY <2>1, OnExpressions
<1>5. CleanOf(T, G, e) /\ T[e] # Ill
  BY <1>4 DEF T
<1> QED
  BY <1>5 DEF CleanOf, T, G

-----------------------------------------------------------------------------
(* A statement that Sema has admitted.                                     *)

TypesHere == EnvAt(Fn, pc, Sigs(prog))
EnvHere == [vals |-> namedValues, types |-> namedTypes, funcs |-> Funcs, at |-> Here]

(* the function's own parameters are those its body is generated with *)
Admitted ==
  /\ GInv /\ NamesAreFlat /\ WellFormed(prog)
  /\ DOMAIN Externals \subseteq DOMAIN symtab
  /\ status = "gen" /\ pc <= Len(Fn.body) /\ Target = cur

LEMMA DeclaredOrIn ==
  ASSUME Admitted, NEW x, Lexical(Fn, pc, x) # NoSite
  PROVE  DeclaredSoFar(cur, pc, x) # NoSite
<1> DEFINE ds == {d \in 1 .. pc-1 : Fn.body[d].k = "let" /\ Fn.body[d].x = x}
<1>1. pc \in Nat
  BY DEF Admitted, GInv, TypeOK
<1>2. CASE ds # {}
  <2>1. ds \in SUBSET (0 .. pc-1) /\ pc-1 \in Nat /\ \A d \in ds : d # 0
    BY <1>1, <1>2
  <2>2. Max(ds) \in ds
    <3> HIDE DEF ds
    <3> QED
      BY <1>2, <2>1, GreatestNumber
  <2>3. DeclaredSoFar(cur, pc, x) = Max(ds)
    BY <1>2 DEF DeclaredSoFar, Fn
  <2> QED
    BY <2>1, <2>2, <2>3 DEF NoSite
<1>3. CASE ds = {}
  <2>1. DeclaredSoFar(cur, pc, x) = ParamSite(Fn.params, x)
    BY <1>3 DEF DeclaredSoFar, Fn, Admitted
  <2>2. {d \in 1 .. pc-1 : /\ Fn.body[d].k = "let"
                           /\ Fn.body[d].x = x
                           /\ \A q \in d+1 .. pc-1 : ~EndsList(Fn.body, d, q)} = {}
    BY <1>3
  <2>3. Lexical(Fn, pc, x) = ParamSite(Fn.params, x)
    BY <2>2 DEF Lexical
  <2> QED
    BY <2>1, <2>3
<1> QED
  BY <1>2, <1>3

LEMMA SigsOfTypes ==
  ASSUME NEW prg \in Programs, NEW f \in DOMAIN Sigs(prg), NEW i \in DOMAIN Sigs(prg)[f].params
  PROVE  Sigs(prg)[f].params[i] # Ill
<1> DEFINE named == {n \in DOMAIN prg : prg[n].name = f}
<1>1. IsSeq(prg) /\ DOMAIN prg = 1 .. Len(prg) /\ Len(prg) \in Nat
  BY ProgramsAssumption, SeqBasics DEF Parsed
<1>2. DOMAIN Sigs(prg) = DOMAIN Builtins \cup {prg[n].name : n \in DOMAIN prg}
  BY DEF Sigs
<1>3. CASE named = {}
  <2>1. f \in DOMAIN Builtins
    BY <1>2, <1>3
  <2>2. Sigs(prg)[f] = Builtins[f]
    BY <1>2, <1>3 DEF Sigs
  <2>3. Builtins[f].params \in {<<I64>>, << >>, <<Ptr(I64)>>}
    BY <2>1 DEF Builtins, Sig
  <2>4. /\ \A k \in DOMAIN <<I64>> : <<I64>>[k] # Ill
        /\ \A k \in DOMAIN << >> : << >>[k] # Ill
        /\ \A k \in DOMAIN <<Ptr(I64)>> : <<Ptr(I64)>>[k] # Ill
    <3>1. I64 # Ill /\ Ptr(I64) # Ill
      BY DEF I64, Ptr, Ill
    <3> QED
      BY <3>1, OneEntryStack, EmptyStack, SeqBasics
  <2> QED
    BY <2>2, <2>3, <2>4
<1>4. CASE named # {}
  <2>1. named \in SUBSET (0 .. Len(prg))
    BY <1>1
  <2>2. Max(named) \in named
    <3> HIDE DEF named
    <3> QED
      BY <1>1, <1>4, <2>1, GreatestNumber
  <2>3. Sigs(prg)[f] = SigOf(prg[Max(named)])
    BY <1>2, <1>4 DEF Sigs
  <2> DEFINE fn == prg[Max(named)]
  <2>4. SigOf(fn).params = [k \in DOMAIN fn.params |-> fn.params[k].ty]
    BY DEF SigOf, Sig
  <2>5. \A k \in DOMAIN fn.params : IsType(fn.params[k].ty)
    BY <2>2, ProgramsAssumption DEF Parsed
  <2> HIDE DEF fn
  <2>6. i \in DOMAIN fn.params /\ Sigs(prg)[f].params[i] = fn.params[i].ty
    BY <2>3, <2>4 DEF fn
  <2>7. ~IsType(Ill)
    BY DEF IsType, Ill
  <2> QED
    BY <2>5, <2>6, <2>7
<1> QED
  BY <1>3, <1>4

(* What is in scope of a statement has a slot, and what can be called is   *)
(* in the module.                                                          *)
LEMMA KnownHere ==
  ASSUME Admitted
  PROVE  Known(TypesHere, Sigs(prog), EnvHere)
<1>1. EnvHere.vals = namedValues /\ DOMAIN EnvHere.funcs = DOMAIN symtab
  BY DEF EnvHere, Funcs
<1>2. DOMAIN TypesHere = {y \in Names : Lexical(Fn, pc, y) # NoSite}
  BY DEF TypesHere, EnvAt
<1>3. DOMAIN namedValues = {y \in Names : DeclaredSoFar(cur, pc, y) # NoSite}
  BY DEF Admitted, NamesAreFlat
<1>4. DOMAIN TypesHere \subseteq DOMAIN namedValues
  BY <1>2, <1>3, DeclaredOrIn
<1>5. DOMAIN Sigs(prog) \subseteq DOMAIN symtab
  <2>1. DOMAIN Sigs(prog) = DOMAIN Builtins \cup {prog[n].name : n \in DOMAIN prog}
    BY DEF Sigs
  <2>2. DOMAIN Builtins \subseteq DOMAIN Externals
    BY DEF Builtins, Externals
  <2>3. \A n \in DOMAIN prog : prog[n].name \in DOMAIN functions
    BY DEF Admitted, GInv, Declared
  <2>4. DOMAIN functions \subseteq DOMAIN symtab
    BY DEF Admitted, GInv, TypeOK
  <2> QED
    BY <2>1, <2>2, <2>3, <2>4 DEF Admitted
<1>6. \A f \in DOMAIN Sigs(prog) : \A i \in DOMAIN Sigs(prog)[f].params : Sigs(prog)[f].params[i] # Ill
  BY SigsOfTypes DEF Admitted, GInv
<1> QED
  BY <1>1, <1>4, <1>5, <1>6 DEF Known

LEMMA CleanLower ==
  ASSUME Admitted, NEW e \in Exprs, Infer(TypesHere, Sigs(prog))[e] # Ill
  PROVE  Clean(Lower(e)) /\ IsValue(Lower(e))
<1>1. Clean(Gen(EnvHere)[e]) /\ IsValue(Gen(EnvHere)[e])
  BY KnownHere, CleanGen
<1>2. Lower(e) = Gen(EnvHere)[e]
  BY DEF Lower, EnvHere
<1> QED
  BY <1>1, <1>2

LEMMA Checked ==
  ASSUME Admitted
  PROVE  StatementOK(Fn, pc, Sigs(prog)) /\ cur \in DOMAIN prog /\ IsType(Fn.ret)
<1>1. cur \in 1 .. Len(prog)
  BY TargetExists DEF Admitted, GInv, TypeOK
<1>2. cur \in DOMAIN prog /\ IsSeq(Fn.body)
  BY <1>1, CurrentBody DEF Admitted, GInv
<1>3. pc \in DOMAIN Fn.body
  BY <1>2, SeqBasics DEF Admitted, GInv, TypeOK
<1> QED
  BY <1>2, <1>3, ProgramsAssumption DEF Admitted, GInv, WellFormed, Fn, Parsed

LEMMA CleanLet ==
  ASSUME Admitted, GenLet, Node.ann = NoType
  PROVE  diag' = diag \/ diag' \notin RuledOut
<1> DEFINE T == Infer(TypesHere, Sigs(prog))
           ty == LetType(Node)
<1>0. Node.k = "let" /\ Node.e \in Exprs
  BY NodeExpr DEF Admitted, GenLet, At, HasExpr
<1>1. T[Node.e] # Ill
  BY <1>0, Checked DEF StatementOK, DeclaredType, TypesHere, Node
<1>2. CASE Node.e.k = "arraylit"
  <2> DEFINE es == Node.e.elems
             vs == [i \in DOMAIN es |-> Lower(es[i])]
  <2>1. T[Node.e] = infer(TypesHere, Sigs(prog), T, Node.e)
    BY <1>0, Inferred
  <2>2. \A f \in DOMAIN Sigs(prog) : \A i \in DOMAIN Sigs(prog)[f].params : Sigs(prog)[f].params[i] # Ill
    BY KnownHere DEF Known
  <2>3. \A i \in DOMAIN es : T[es[i]] # Ill
    <3> HIDE DEF T
    <3> QED
      BY <1>0, <1>1, <1>2, <2>1, <2>2, TypedOperands
  <2>4. IsSeq(es) /\ \A i \in DOMAIN es : es[i] \in Exprs
    BY <1>0, <1>2, Operands DEF Simpler
  <2>5. \A i \in DOMAIN es : Clean(vs[i]) /\ IsValue(vs[i])
    BY <2>3, <2>4, CleanLower
  <2>6. IsSeq(vs) /\ DOMAIN vs = DOMAIN es
    <3>1. vs = [i \in DOMAIN es |-> vs[i]]
      OBVIOUS
    <3> HIDE DEF vs
    <3>2. IsSeq(vs)
      BY <2>4, <3>1, Mapped
    <3> QED
      BY <3>1, <3>2
  <2>7. \E code : InitArray(Node, Here, ty) = [Then(vs, Void, << >>) EXCEPT !.code = code]
    BY DEF InitArray
  <2> DEFINE all == Then(vs, Void, << >>)
             init == InitArray(Node, Here, ty)
  <2>8. Clean(all) /\ IsValue(all)
    <3> HIDE DEF vs
    <3> QED
      BY <2>5, <2>6, CleanThen
  <2>9. diag' = diag \/ diag' = init.stop
    BY <1>2 DEF GenLet, Fatal, Advance
  <2> HIDE DEF all, init
  <2>10. init.stop = all.stop
    BY <2>7, <2>8 DEF all, init, IsValue
  <2>11. all.stop \notin RuledOut
    BY <2>8 DEF Clean
  <2> QED
    BY <2>9, <2>10, <2>11
<1>3. CASE Node.e.k # "arraylit"
  <2> DEFINE v == Lower(Node.e)
             w == CASE v.ty = I1 /\ ty = I64 -> Op("zext", <<v>>, ty, TRUE, Here)
                    [] v.ty = I64 /\ ty = I1 -> Op("!=", <<v>>, ty, TRUE, Here)
                    [] OTHER -> v
             init == InitScalar(Node, Here, ty)
  <2>1. Clean(v) /\ IsValue(v)
    BY <1>0, <1>1, CleanLower
  <2>2. Clean(w) /\ IsValue(w)
    <3> HIDE DEF v, ty
    <3> QED
      BY <2>1, CleanSingle
  <2>3. \E code : init = [w EXCEPT !.code = code]
    BY DEF InitScalar
  <2>4. diag' = diag \/ diag' = init.stop
    BY <1>3 DEF GenLet, Fatal, Advance
  <2> HIDE DEF w, init
  <2>5. init.stop = w.stop
    BY <2>2, <2>3 DEF IsValue
  <2> QED
    BY <2>2, <2>4, <2>5 DEF Clean
<1> QED
  BY <1>2, <1>3

LEMMA CleanNode ==
  ASSUME Admitted, GenExpr \/ GenReturn \/ GenIf \/ GenWhile
  PROVE  diag' = diag \/ diag' \notin RuledOut
<1> DEFINE T == Infer(TypesHere, Sigs(prog))
<1>1. CASE GenExpr \/ GenIf \/ GenWhile
  <2>1. Node.k \in {"expr", "if", "while"} /\ Node.e \in Exprs
    BY <1>1, NodeExpr DEF Admitted, GenExpr, GenIf, GenWhile, At, HasExpr
  <2>2. T[Node.e] # Ill
    BY <2>1, Checked DEF StatementOK, TypesHere, Node
  <2>3. Clean(Lower(Node.e))
    BY <2>1, <2>2, CleanLower
  <2>4. diag' = diag \/ diag' = Lower(Node.e).stop
    BY <1>1 DEF GenExpr, GenIf, GenWhile, Fatal, Advance
  <2> QED
    BY <2>3, <2>4 DEF Clean
<1>2. CASE GenReturn /\ Node.e = NoExpr
  BY <1>2 DEF GenReturn, Fatal, Advance, Value
<1>3. CASE GenReturn /\ Node.e # NoExpr
  <2>1. Node.k = "return" /\ Node.e \in Exprs
    BY <1>3, NodeExpr DEF Admitted, GenReturn, At, HasExpr
  <2>2. ReturnOK(Node.e, Fn.ret, TypesHere, Sigs(prog))
    BY <2>1, Checked DEF StatementOK, TypesHere, Node
  <2>3. T[Node.e] = Fn.ret /\ Fn.ret # Ill
    BY <1>3, <2>2, Checked DEF ReturnOK, IsType, Ill
  <2>4. Clean(Lower(Node.e))
    BY <2>1, <2>3, CleanLower
  <2>5. diag' = diag \/ diag' = Lower(Node.e).stop
    BY <1>3 DEF GenReturn, Fatal, Advance
  <2> QED
    BY <2>4, <2>5 DEF Clean
<1> QED
  BY <1>1, <1>2, <1>3

LEMMA CleanJump ==
  ASSUME Admitted, GenBreak \/ GenContinue
  PROVE  diag' = diag
<1>1. Node.k \in {"break", "continue"}
  BY DEF GenBreak, GenContinue, At
<1>2. LoopDepth(Fn.body, pc) > 0
  BY <1>1, Checked DEF StatementOK, Node
<1>3. Len(loopExitStack) > 0 /\ Len(loopContinueStack) > 0
  BY <1>2, AtStatement DEF Admitted
<1>4. loopExitStack # << >> /\ loopContinueStack # << >>
  BY <1>3, EmptyStack
<1> QED
  BY <1>4 DEF GenBreak, GenContinue, Jump, Advance

LEMMA CleanStatement ==
  ASSUME Admitted, GenStmt, ~(Node.k = "let" /\ Node.ann # NoType)
  PROVE  diag' = diag \/ diag' \notin RuledOut
<1>1. CASE GenLet
  BY <1>1, CleanLet DEF GenLet, At
<1>2. CASE GenExpr \/ GenReturn \/ GenIf \/ GenWhile
  BY <1>2, CleanNode
<1>3. CASE GenBreak \/ GenContinue
  BY <1>3, CleanJump
<1>4. CASE GenDefer \/ GenElse \/ GenEndIf \/ GenEndWhile
  BY <1>4 DEF GenDefer, GenElse, GenEndIf, GenEndWhile, Advance
<1> QED
  BY <1>1, <1>2, <1>3, <1>4 DEF GenStmt

-----------------------------------------------------------------------------
(* Emission of a program that Sema has admitted.                           *)

EInv ==
  /\ GInv /\ NamesAreFlat
  /\ status # "fatal" => diag = ""
  /\ DOMAIN Externals \subseteq DOMAIN symtab
  /\ SemaCoversErrors

LEMMA InitEInv == Init => EInv
<1> SUFFICES ASSUME Init PROVE EInv
  OBVIOUS
<1>1. GInv /\ NamesAreFlat
  BY InitGInv DEF Init, NamesAreFlat
<1> QED
  BY <1>1 DEF Init, EInv, SemaCoversErrors

LEMMA EmitStatement ==
  ASSUME EInv, WellFormed(prog), GenStmt
  PROVE  SemaCoversErrors'
<1>1. status = "gen" /\ pc <= Len(Fn.body) /\ diag = ""
  BY DEF EInv, GenStmt, GenLet, GenExpr, GenReturn, GenDefer, GenIf, GenElse, GenEndIf,
         GenWhile, GenEndWhile, GenBreak, GenContinue, At
<1>2. \/ diag' = diag
      \/ prog' = prog /\ cur' = cur /\ pc' = pc /\ functions' = functions
  BY DEF GenStmt, GenLet, GenExpr, GenReturn, GenDefer, GenIf, GenElse, GenEndIf,
         GenWhile, GenEndWhile, GenBreak, GenContinue, Fatal, Advance, Jump, declared
<1>3. CASE diag' = diag
  BY <1>1, <1>3 DEF SemaCoversErrors
<1>4. CASE diag' # diag /\ Target = cur /\ ~(Node.k = "let" /\ Node.ann # NoType)
  <2>1. diag' \notin RuledOut
    BY <1>1, <1>4, CleanStatement DEF Admitted, EInv
  <2> QED
    BY <2>1 DEF SemaCoversErrors, RuledOut
<1>5. CASE diag' # diag /\ (Target # cur \/ (Node.k = "let" /\ Node.ann # NoType))
  BY <1>2, <1>5 DEF SemaCoversErrors, Target, Node, Fn
<1> QED
  BY <1>3, <1>4, <1>5

LEMMA EmitStep == EInv /\ WellFormed(prog) /\ Emit => EInv'
<1> SUFFICES ASSUME EInv, WellFormed(prog), Emit PROVE EInv'
  OBVIOUS
<1>1. GInv' /\ NamesAreFlat'
  BY NextGInv, NextNames DEF EInv, Next
<1>2. CASE GenStmt
  <2>1. SemaCoversErrors'
    BY <1>2, EmitStatement
  <2>2. symtab' = symtab /\ (status' # "fatal" => diag' = diag /\ status # "fatal")
    BY <1>2 DEF GenStmt, GenLet, GenExpr, GenReturn, GenDefer, GenIf, GenElse, GenEndIf,
         GenWhile, GenEndWhile, GenBreak, GenContinue, Fatal, Advance, Jump, declared
  <2> QED
    BY <1>1, <2>1, <2>2 DEF EInv
<1>3. CASE DeclareFunction \/ StartDefining \/ BeginFunction \/ EndFunction \/ Finish
  <2>1. status # "fatal" /\ diag = ""
    BY <1>3 DEF DeclareFunction, StartDefining, BeginFunction, EndFunction, Finish, EInv
  <2>2. diag' \in {"", "invalid function IR"} /\ (status' # "fatal" => diag' = "")
    BY <1>3, <2>1 DEF DeclareFunction, StartDefining, BeginFunction, EndFunction, Finish, Fatal
  <2>3. DOMAIN symtab \subseteq DOMAIN symtab'
    BY <1>3 DEF DeclareFunction, StartDefining, BeginFunction, EndFunction, Finish, Fatal, declared, Bind
  <2> QED
    BY <1>1, <2>2, <2>3 DEF EInv, SemaCoversErrors
<1> QED
  BY <1>2, <1>3 DEF Emit

-----------------------------------------------------------------------------
(* The analysis, with what is proved of it.  The two instances of Sema and *)
(* the modules this one extends define the same syntax and the same typing *)
(* three times over: these lemmas say so.                                  *)

SP == INSTANCE SemaProofs WITH status <- semaStatus, cur <- semaCur, pc <- semaPc

LEMMA SameWords ==
  /\ SP!NoSite = NoSite /\ SP!NoExpr = NoExpr /\ SP!NoType = NoType
  /\ SP!Void = Void /\ SP!Ill = Ill
  BY DEF SP!NoSite, NoSite, SP!Void, Void, SP!Ill, Ill, SP!NoExpr, NoExpr,
         SP!NoType, NoType

LEMMA SameNesting ==
  /\ \A b, p : SP!BlockDepth(b, p) = BlockDepth(b, p) /\ SP!LoopDepth(b, p) = LoopDepth(b, p)
  /\ \A b, p, q : SP!SameList(b, p, q) = SameList(b, p, q)
  BY DEF SP!BlockDepth, BlockDepth, SP!LoopDepth, LoopDepth, SP!Before, Before,
         SP!Cardinality, Cardinality, SP!EndsList, EndsList, SP!SameList, SameList

LEMMA SameScopes ==
  /\ \A ps, x : SP!ParamSite(ps, x) = ParamSite(ps, x)
  /\ \A fn, p, x : SP!Lexical(fn, p, x) = Lexical(fn, p, x)
  BY DEF SP!BlockDepth, BlockDepth, SP!Before, Before, SP!Cardinality, Cardinality,
         SP!EndsList, EndsList, SP!ParamSite, ParamSite, SP!Lexical, Lexical,
         SP!NoSite, NoSite, SP!Max, Max, SP!Min, Min

LEMMA SameTypes ==
  \A env, sigs : SP!Infer(env, sigs) = Infer(env, sigs)
  BY DEF SP!Infer, Infer, SP!infer, infer, SP!Arithmetic, Arithmetic, SP!Void, Void,
         SP!Ill, Ill, SP!I64, I64, SP!I32, I32, SP!Bool, Bool, SP!Array, Array

LEMMA SameSigs ==
  \A p : SP!Sigs(p) = Sigs(p)
  BY DEF SP!Sigs, Sigs, SP!Builtins, Builtins, SP!Sig, Sig, SP!SigOf, SigOf, SP!Max,
         Max, SP!I64, I64, SP!Ptr, Ptr, SP!Void, Void

LEMMA SameReturns ==
  /\ \A let, env, sigs : SP!DeclaredType(let, env, sigs) = DeclaredType(let, env, sigs)
  /\ \A e, ret, env, sigs : SP!ReturnOK(e, ret, env, sigs) = ReturnOK(e, ret, env, sigs)
  BY SameWords, SameTypes DEF SP!DeclaredType, DeclaredType, SP!ReturnOK, ReturnOK

LEMMA SameSites ==
  \A fn, sigs : SP!SiteTypes(fn, sigs) = SiteTypes(fn, sigs)
  BY DEF SP!SiteTypes, SiteTypes, SP!DeclaredType, DeclaredType, SP!Infer, Infer,
         SP!infer, infer, SP!Arithmetic, Arithmetic, SP!Void, Void, SP!Ill, Ill,
         SP!I64, I64, SP!I32, I32, SP!Bool, Bool, SP!Array, Array, SP!NoType,
         NoType, SP!BlockDepth, BlockDepth, SP!Before, Before, SP!Cardinality,
         Cardinality, SP!EndsList, EndsList, SP!ParamSite, ParamSite, SP!Lexical,
         Lexical, SP!NoSite, NoSite, SP!Max, Max, SP!Min, Min

LEMMA SameEnvs ==
  \A fn, p, sigs : SP!EnvAt(fn, p, sigs) = EnvAt(fn, p, sigs)
  BY SameWords, SameScopes, SameSites DEF SP!EnvAt, EnvAt

LEMMA SameRedeclared ==
  \A fn, p, x : SP!Redeclared(fn, p, x) = Redeclared(fn, p, x)
  BY SameWords, SameNesting, SameScopes DEF SP!Redeclared, Redeclared

LEMMA SameStatements ==
  \A fn, p, sigs : SP!StatementOK(fn, p, sigs) = StatementOK(fn, p, sigs)
<1> SUFFICES ASSUME NEW fn, NEW p, NEW sigs
             PROVE  SP!StatementOK(fn, p, sigs) = StatementOK(fn, p, sigs)
  OBVIOUS
<1> DEFINE env == EnvAt(fn, p, sigs)
           node == fn.body[p]
<1>1. SP!EnvAt(fn, p, sigs) = env /\ SP!Infer(env, sigs) = Infer(env, sigs)
  BY SameTypes, SameEnvs
<1>2. /\ SP!DeclaredType(node, env, sigs) = DeclaredType(node, env, sigs)
      /\ SP!ReturnOK(node.e, fn.ret, env, sigs) = ReturnOK(node.e, fn.ret, env, sigs)
  BY SameReturns
<1>3. /\ SP!Redeclared(fn, p, node.x) = Redeclared(fn, p, node.x)
      /\ SP!LoopDepth(fn.body, p) = LoopDepth(fn.body, p)
  BY SameNesting, SameRedeclared
<1> HIDE DEF env, node
<1> QED
  BY SameWords, <1>1, <1>2, <1>3 DEF SP!StatementOK, StatementOK, env, node

LEMMA SameVerdict ==
  \A p : SP!WellFormed(p) = WellFormed(p)
  BY SameWords, SameSigs, SameStatements DEF SP!WellFormed, WellFormed

LEMMA SameParsed ==
  \A p : SP!Parsed(p) = Parsed(p)
  BY DEF SP!Parsed, Parsed, SP!IsSeq, IsSeq, SP!Range, Range, SP!IsType, IsType,
         SP!WellNested, WellNested, SP!BlockDepth, BlockDepth, SP!LoopDepth,
         LoopDepth, SP!Before, Before, SP!Cardinality, Cardinality, SP!Closes,
         Closes, SP!HasElse, HasElse, SP!BlockFrom, BlockFrom

LEMMA SameDepth ==
  /\ SP!Depth = Depth
  /\ \A e : SP!Children(e) = Children(e) /\ SP!HasExpr(e) = HasExpr(e)
  /\ \A s : SP!IsSeq(s) = IsSeq(s)
  BY DEF SP!Depth, Depth, SP!Children, Children, SP!HasExpr, HasExpr, SP!NoExpr,
         NoExpr, SP!IsSeq, IsSeq, SP!Max, Max, SP!Range, Range

LEMMA SameConstants ==
  /\ S!NoExpr = SP!NoExpr /\ S!NoType = SP!NoType /\ S!Void = SP!Void /\ S!Ill = SP!Ill
  /\ S!Nothing = SP!Nothing /\ S!Builtins = SP!Builtins
  BY DEF S!Void, SP!Void, S!Ill, SP!Ill, S!NoExpr, SP!NoExpr, S!NoType, SP!NoType,
         S!Nothing, SP!Nothing, S!Builtins, SP!Builtins, S!Sig, SP!Sig, S!I64,
         SP!I64, S!Ptr, SP!Ptr

LEMMA SameInference ==
  \A env, sigs : S!Infer(env, sigs) = SP!Infer(env, sigs)
  BY DEF S!Infer, SP!Infer, S!infer, SP!infer, S!Arithmetic, SP!Arithmetic, S!Void,
         SP!Void, S!Ill, SP!Ill, S!I64, SP!I64, S!I32, SP!I32, S!Bool, SP!Bool,
         S!Array, SP!Array

LEMMA SamePlace ==
  S!Fn = SP!Fn /\ S!Node = SP!Node
  BY DEF S!Fn, SP!Fn, S!Node, SP!Node

LEMMA SameLookup ==
  S!Visible = SP!Visible /\ \A x : S!Lookup(x) = SP!Lookup(x)
  BY DEF S!Visible, SP!Visible, S!Lookup, SP!Lookup, S!Max, SP!Max

LEMMA SameType ==
  \A e : S!Type(e) = SP!Type(e)
  BY SameInference, SameLookup DEF S!Type, SP!Type

LEMMA SameUpdates ==
  /\ \A f, x, v : S!Bind(f, x, v) = SP!Bind(f, x, v)
  /\ \A a, b, c : S!VarInfo(a, b, c) = SP!VarInfo(a, b, c)
  /\ \A x, i : S!Declare(x, i) = SP!Declare(x, i)
  /\ \A e : S!DeferLast(e) = SP!DeferLast(e)
  /\ \A x : S!Call("free", <<S!Var(x)>>) = SP!Call("free", <<SP!Var(x)>>)
  /\ \A s, x : S!Front(s) = SP!Front(s) /\ S!Last(s) = SP!Last(s) /\ S!Push(s, x) = SP!Push(s, x)
  /\ S!Popped = SP!Popped
  BY DEF S!Bind, SP!Bind, S!VarInfo, SP!VarInfo, S!Declare, SP!Declare, S!DeferLast,
         SP!DeferLast, S!Call, SP!Call, S!Var, SP!Var, S!Front, SP!Front, S!Last,
         SP!Last, S!Popped, SP!Popped, S!Push, SP!Push

LEMMA SameReturnRule ==
  \A e, ret, env, sigs : S!ReturnOK(e, ret, env, sigs) = SP!ReturnOK(e, ret, env, sigs)
  BY SameConstants, SameInference DEF S!ReturnOK, SP!ReturnOK

LEMMA SameParams ==
  \A ps : S!ParamScope(ps) = SP!ParamScope(ps)
  BY DEF S!ParamScope, SP!ParamScope, S!ParamSite, SP!ParamSite, S!Min, SP!Min,
         S!VarInfo, SP!VarInfo, S!NoSite, SP!NoSite

LEMMA SameFunctionSteps ==
  /\ S!GatherSig = SP!GatherSig /\ S!StartChecking = SP!StartChecking
  /\ S!EnterFunction = SP!EnterFunction /\ S!LeaveFunction = SP!LeaveFunction
  /\ S!Accept = SP!Accept /\ S!Start = SP!Start
  BY SameConstants, SamePlace, SameUpdates, SameParams DEF S!GatherSig,
         SP!GatherSig, S!Gathered, SP!Gathered, S!SigOf, SP!SigOf, S!Sig, SP!Sig,
         S!Fatal, SP!Fatal, S!StartChecking, SP!StartChecking, S!EnterFunction,
         SP!EnterFunction, S!LeaveFunction, SP!LeaveFunction, S!Accept, SP!Accept,
         S!Start, SP!Start

LEMMA SameChecks ==
  /\ S!CheckLet = SP!CheckLet /\ S!CheckExpr = SP!CheckExpr /\ S!CheckReturn = SP!CheckReturn
  /\ S!CheckIf = SP!CheckIf /\ S!CheckWhile = SP!CheckWhile
  BY SameConstants, SamePlace, SameLookup, SameType, SameUpdates, SameReturnRule DEF
         S!CheckLet, SP!CheckLet, S!CheckExpr, SP!CheckExpr, S!CheckReturn,
         SP!CheckReturn, S!CheckIf, SP!CheckIf, S!CheckWhile, SP!CheckWhile, S!At,
         SP!At, S!Fatal, SP!Fatal, S!Advance, SP!Advance

LEMMA SameOtherChecks ==
  /\ S!CheckElse = SP!CheckElse /\ S!CheckEndIf = SP!CheckEndIf /\ S!CheckEndWhile = SP!CheckEndWhile
  /\ S!CheckDefer = SP!CheckDefer /\ S!CheckBreak = SP!CheckBreak /\ S!CheckContinue = SP!CheckContinue
  BY SameConstants, SamePlace, SameUpdates DEF S!CheckElse, SP!CheckElse,
         S!CheckEndIf, SP!CheckEndIf, S!CheckEndWhile, SP!CheckEndWhile, S!ExitLoop,
         SP!ExitLoop, S!CheckDefer, SP!CheckDefer, S!CheckBreak, SP!CheckBreak,
         S!CheckContinue, SP!CheckContinue, S!At, SP!At, S!Fatal, SP!Fatal,
         S!Advance, SP!Advance

LEMMA SameAnalysis ==
  S!Analyze = SP!Analyze
  BY SameFunctionSteps, SameChecks, SameOtherChecks DEF S!Analyze, SP!Analyze,
         S!CheckStmt, SP!CheckStmt

(* what the lemmas of Sema assume *)
LEMMA SameAssumptions ==
  /\ \A p \in Programs : SP!Parsed(p)
  /\ \A e \in Exprs :
       /\ e.k \in {"int", "bool", "var", "unary", "bin", "call", "arraylit", "index"}
       /\ SP!Children(e) \subseteq Exprs
       /\ SP!Depth[e] \in Nat
       /\ \A d \in SP!Children(e) : SP!Depth[d] < SP!Depth[e]
       /\ e.k = "call" => SP!IsSeq(e.args)
       /\ e.k = "arraylit" => SP!IsSeq(e.elems)
  /\ \A e \in Exprs :
       /\ e.k = "unary" => e.op \in SP!UnaryOps
       /\ e.k = "bin" => e.op \in SP!BinaryOps
  /\ \A p \in Programs : \A n \in DOMAIN p : \A i \in DOMAIN p[n].body :
       SP!HasExpr(p[n].body[i]) => p[n].body[i].e \in Exprs
  BY SameParsed, SameDepth, ProgramsAssumption, ExprsAssumption, OperatorsAssumption, NodesAssumption
     DEF UnaryOps, BinaryOps, SP!UnaryOps, SP!BinaryOps

LEMMA AnalysisInit == prog \in Programs /\ SP!Start => SP!Invs
  BY SameAssumptions, SP!InitIInv, SP!InitLexInv, SP!InitJInv DEF SP!Invs, SP!Init

LEMMA AnalysisNext == SP!Invs /\ [SP!Next]_(SP!vars) => SP!Invs'
  BY SameAssumptions, SP!NextIInv, SP!NextLexInv, SP!NextJInv DEF SP!Invs

LEMMA Admits == SP!Invs /\ semaStatus = "accepted" => WellFormed(prog)
  BY SameVerdict DEF SP!Invs, SP!JInv

-----------------------------------------------------------------------------
AInv == SP!Invs /\ EInv

LEMMA CompilerStep == AInv /\ [Analysis \/ Generation \/ Exited]_allVars => AInv'
<1> SUFFICES ASSUME AInv, [Analysis \/ Generation \/ Exited]_allVars PROVE AInv'
  OBVIOUS
<1>1. ASSUME UNCHANGED vars PROVE EInv'
  <2>1. GInv' /\ NamesAreFlat'
    BY <1>1, NextGInv, NextNames DEF AInv, EInv
  <2>2. /\ prog' = prog /\ status' = status /\ diag' = diag /\ cur' = cur /\ pc' = pc
        /\ symtab' = symtab /\ functions' = functions
    BY <1>1 DEF vars, declared
  <2> QED
    BY <2>1, <2>2 DEF AInv, EInv, SemaCoversErrors, Node, Fn
<1>2. CASE Analysis
  <2>1. UNCHANGED vars /\ SP!Analyze
    BY <1>2, SameAnalysis DEF Analysis
  <2>2. SP!Invs'
    BY <2>1, AnalysisNext DEF AInv, SP!Next
  <2> QED
    BY <1>1, <2>1, <2>2 DEF AInv
<1>3. CASE Generation
  <2>1. EInv'
    BY <1>3, Admits, EmitStep DEF Generation, AInv
  <2>2. prog' = prog
    BY <1>3 DEF Generation, Emit, DeclareFunction, StartDefining, BeginFunction, EndFunction, Finish,
         Fatal, GenStmt, GenLet, GenExpr, GenReturn, GenDefer, GenIf, GenElse, GenEndIf,
         GenWhile, GenEndWhile, GenBreak, GenContinue, Advance, Jump
  <2>3. UNCHANGED SP!vars
    BY <1>3, <2>2 DEF Generation, semaVars, SP!vars
  <2>4. SP!Invs'
    BY <2>3, AnalysisNext DEF AInv
  <2> QED
    BY <2>1, <2>4 DEF AInv
<1>4. CASE UNCHANGED allVars
  <2>1. UNCHANGED vars /\ UNCHANGED semaVars /\ prog' = prog
    BY <1>4 DEF allVars, vars
  <2>2. UNCHANGED SP!vars
    BY <2>1 DEF semaVars, SP!vars
  <2> QED
    BY <1>1, <2>1, <2>2, AnalysisNext DEF AInv
<1> QED
  BY <1>2, <1>3, <1>4 DEF Exited

(* Sema and CodeGen agree about the names: what genExpr and genStmt would  *)
(* call fatal() for, because a name is in none of their maps, a loop stack *)
(* is empty or an array literal has no elements, Sema has called fatal()   *)
(* for before, but for the code Sema has not seen as it is generated: the  *)
(* initialisers of annotated lets, and a body generated with the           *)
(* parameters of a later function of the same name.                        *)
THEOREM CompilerCoversErrors == Compiler => []SemaCoversErrors
<1>1. CompilerInit => AInv
  BY InitEInv, AnalysisInit, SameFunctionSteps DEF CompilerInit, AInv, Init
<1>2. AInv => SemaCoversErrors
  BY DEF AInv, EInv
<1> QED
  BY <1>1, <1>2, CompilerStep, PTL DEF Compiler
=============================================================================
