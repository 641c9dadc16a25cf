---------------------------- MODULE DriverProofs ----------------------------
(***************************************************************************)
(* Proofs about Driver, for any number of jobs, sources and calls: the     *)
(* script runs the program of the source it has read, an exit status of 0  *)
(* means whole files of one text, and no job fails because of what others  *)
(* have left behind.                                                       *)
(***************************************************************************)
EXTENDS Driver, SequenceTheorems, TLAPS

(* What holds of each job: one that works has outputs, and has a listing   *)
(* to write if it is about to; and, unless it has crossed another one, it  *)
(* finds in its listing, its object and its program what it has put there. *)
Works(j) ==
  /\ pc[j] \in Active => ~Refused(call[j])
  /\ pc[j] \in {"openIR", "printIR"} => LL(call[j]) # ""
  /\ pc[j] \in {"link", "run"} => call[j].script

OwnFiles(j) ==
  j \notin crossed =>
    /\ pc[j] = "printIR" => Get(LL(call[j])) = Torn
    /\ pc[j] \in {"openObj", "emitObj"} /\ LL(call[j]) \notin {"", Obj(call[j])} =>
         Get(LL(call[j])) = File("ll", text[j])
    /\ pc[j] = "emitObj" => Get(Obj(call[j])) = Torn
    /\ pc[j] = "link" => Get(Obj(call[j])) = File("obj", text[j])
    /\ pc[j] = "run" => Get(Exe(call[j])) = File("exe", text[j]) /\ text[j] \in Linkable

Reason(j) ==
  pc[j] = "failed" =>
    \/ j \in struck \cup crossed
    \/ Refused(call[j])
    \/ text[j] \in Rejected
    \/ call[j].script /\ text[j] \notin Linkable

Fine(j) == Works(j) /\ OwnFiles(j) /\ Reason(j)

(* Jobs that work side by side have no output in common, but for those in  *)
(* crossed.  Without it a job could change the object of another one       *)
(* between emitObj and link.                                               *)
Apart ==
  \A j, k \in Jobs :
    j # k /\ pc[j] \in Active /\ pc[k] \in Active /\ j \notin crossed =>
      Written(call[j]) \cap Written(call[k]) = {}

Shape ==
  /\ call \in [Jobs -> Calls]
  /\ TypeOK
  /\ DOMAIN pc = Jobs /\ DOMAIN text = Jobs

IInv == Shape /\ Apart /\ \A j \in Jobs : Fine(j)

-----------------------------------------------------------------------------
(* Put changes one file and no other.                                      *)
LEMMA PutGet ==
  ASSUME NEW p, NEW f, Put(p, f)
  PROVE  Get(p)' = f /\ \A q : q # p => Get(q)' = Get(q)
BY DEF Put, Get

(* The outputs of a job that is not refused.                               *)
LEMMA Outs ==
  ASSUME NEW c \in Calls, ~Refused(c)
  PROVE  /\ Obj(c) \in Written(c)
         /\ LL(c) # "" => LL(c) \in Written(c)
         /\ c.script => Exe(c) \in Written(c) /\ Exe(c) # Obj(c)
         /\ Written(c) \subseteq Outputs
         /\ Written(c) \cap Sources = {}
<1>1. Obj(c) # ""
  BY DEF Refused
<1>2. Written(c) \subseteq Outputs /\ (c.script => Exe(c) \notin {"", Obj(c), LL(c)})
  BY PathsAssumption
<1> QED
  BY <1>1, <1>2, ContentsAssumption DEF Written

(* A file of the right kind, put in the place of an output, keeps the file *)
(* system one.                                                             *)
LEMMA PutType ==
  ASSUME TypeOK, NEW p \in Outputs, NEW f, f.of \in Contents,
         f.k \in {"none", "torn", "source", "ll", "obj", "exe"}, Put(p, f)
  PROVE  /\ Sources \subseteq DOMAIN fs' /\ DOMAIN fs' \subseteq Sources \cup Outputs
         /\ \A q \in DOMAIN fs' : fs'[q].of \in Contents
                                  /\ fs'[q].k \in {"none", "torn", "source", "ll", "obj", "exe"}
         /\ \A q \in Sources : fs'[q].k \in {"none", "source"}
BY ContentsAssumption DEF TypeOK, Put

LEMMA GetType ==
  ASSUME TypeOK, NEW p
  PROVE  Get(p).of \in Contents /\ Get(p).k \in {"none", "torn", "source", "ll", "obj", "exe"}
BY ContentsAssumption DEF TypeOK, Get, None

(* The files are typed after a step, as TypeOK wants it.                   *)
Typed ==
  /\ Sources \subseteq DOMAIN fs /\ DOMAIN fs \subseteq Sources \cup Outputs
  /\ \A q \in DOMAIN fs : fs[q].of \in Contents
                          /\ fs[q].k \in {"none", "torn", "source", "ll", "obj", "exe"}
  /\ \A q \in Sources : fs[q].k \in {"none", "source"}

(* A step of job k that keeps to its outputs keeps the invariant, if it    *)
(* does for k.                                                             *)
LEMMA StepOf ==
  ASSUME IInv, NEW k \in Jobs, pc[k] \in Active,
         call' = call, crossed' = crossed,
         struck \subseteq struck', struck' \subseteq Jobs,
         NEW l \in Active \cup {"done", "failed"}, Goto(k, l),
         DOMAIN text' = Jobs, text'[k] \in Contents,
         \A j \in Jobs : j # k => text'[j] = text[j],
         Typed', \A p : p \notin Written(call[k]) => Get(p)' = Get(p),
         Fine(k)'
  PROVE  IInv'
<1>1. /\ DOMAIN pc' = Jobs /\ pc'[k] = l
      /\ \A j \in Jobs : j # k => pc'[j] = pc[j]
  BY DEF IInv, Shape, Goto
<1>2. Shape'
  <2>1. call' \in [Jobs -> Calls]
    BY DEF IInv, Shape
  <2>2. \A j \in Jobs : pc'[j] \in Active \cup {"idle", "done", "failed"} /\ text'[j] \in Contents
    BY <1>1 DEF IInv, Shape, TypeOK
  <2>3. TypeOK'
    BY <2>2 DEF IInv, Shape, TypeOK, Typed
  <2> QED
    BY <1>1, <2>1, <2>3 DEF Shape
<1>3. \A j \in Jobs : pc'[j] \in Active => pc[j] \in Active
  BY <1>1
<1>4. Apart'
  BY <1>3 DEF IInv, Apart
<1>5. ASSUME NEW j \in Jobs, j # k PROVE Fine(j)'
  <2>1. pc'[j] = pc[j] /\ text'[j] = text[j] /\ Fine(j)
    BY <1>1, <1>5 DEF IInv
  <2>2. Works(j)'
    BY <2>1 DEF Fine, Works
  <2>3. Reason(j)'
    BY <2>1 DEF Fine, Reason
  <2>4. OwnFiles(j)'
    <3> SUFFICES ASSUME j \notin crossed, pc[j] \in {"printIR", "openObj", "emitObj", "link", "run"}
                 PROVE  OwnFiles(j)'
      BY <2>1 DEF OwnFiles
    <3>1. pc[j] \in Active /\ ~Refused(call[j]) /\ call[j] \in Calls
      BY <2>1 DEF Fine, Works, Active, IInv, Shape
    <3>2. Written(call[j]) \cap Written(call[k]) = {}
      BY <1>5, <3>1 DEF IInv, Apart
    <3>3. Get(Obj(call[j]))' = Get(Obj(call[j]))
      BY <3>1, <3>2, Outs
    <3>4. /\ call[j].script => Get(Exe(call[j]))' = Get(Exe(call[j]))
          /\ LL(call[j]) # "" => Get(LL(call[j]))' = Get(LL(call[j]))
      BY <3>1, <3>2, Outs
    <3> QED
      BY <2>1, <3>3, <3>4 DEF Fine, Works, OwnFiles
  <2> QED
    BY <2>2, <2>3, <2>4 DEF Fine
<1> QED
  BY <1>2, <1>4, <1>5 DEF IInv

(* What a job that works puts in one of its outputs.                       *)
LEMMA PutIn ==
  ASSUME IInv, NEW k \in Jobs, pc[k] \in Active, NEW p \in Written(call[k]),
         NEW f, f.of \in Contents, f.k \in {"none", "torn", "source", "ll", "obj", "exe"}, Put(p, f)
  PROVE  /\ Typed'
         /\ \A q : q \notin Written(call[k]) => Get(q)' = Get(q)
         /\ Get(p)' = f
<1>1. call[k] \in Calls /\ ~Refused(call[k])
  BY DEF IInv, Shape, Fine, Works
<1>2. p \in Outputs
  BY <1>1, Outs
<1>3. TypeOK
  BY DEF IInv, Shape
<1>4. Typed'
  BY <1>2, <1>3, PutType DEF Typed
<1> QED
  BY <1>4, PutGet

(* nothing is put *)
LEMMA PutNothing ==
  ASSUME IInv, fs' = fs
  PROVE  Typed' /\ \A q : Get(q)' = Get(q)
BY DEF IInv, Shape, TypeOK, Typed, Get

LEMMA InitIInv == Init => IInv
<1> SUFFICES ASSUME Init PROVE IInv
  OBVIOUS
<1>1. Shape
  BY ContentsAssumption DEF Init, Shape, TypeOK, None, File, Active
<1>2. Apart
  BY DEF Init, Apart, Active
<1>3. \A j \in Jobs : Fine(j)
  BY DEF Init, Fine, Works, OwnFiles, Reason, Active
<1> QED
  BY <1>1, <1>2, <1>3 DEF IInv

(* what a job that works has                                               *)
LEMMA JobType ==
  ASSUME IInv, NEW k \in Jobs
  PROVE  /\ call[k] \in Calls /\ text[k] \in Contents /\ pc[k] \in Active \cup {"idle", "done", "failed"}
         /\ pc[k] \in Active => ~Refused(call[k])
BY DEF IInv, Shape, TypeOK, Fine, Works

LEMMA CompileStep == ASSUME IInv, NEW k \in Jobs, Compile(k) PROVE IInv'
<1> PICK c \in {Get(Source(call[k])).of, Empty} :
           /\ text' = [text EXCEPT ![k] = c]
           /\ Goto(k, IF c \in Rejected THEN "failed" ELSE IF LL(call[k]) # "" THEN "openIR" ELSE "openObj")
  BY DEF Compile
<1> DEFINE l == IF c \in Rejected THEN "failed" ELSE IF LL(call[k]) # "" THEN "openIR" ELSE "openObj"
<1>1. pc[k] = "slurp" /\ pc[k] \in Active /\ fs' = fs /\ call' = call /\ crossed' = crossed /\ struck' = struck
  BY DEF Compile, Active
<1>2. c \in Contents
  BY GetType, ContentsAssumption DEF IInv, Shape
<1>3. text'[k] = c /\ DOMAIN text' = Jobs /\ \A j \in Jobs : j # k => text'[j] = text[j]
  BY DEF IInv, Shape
<1>4. pc'[k] = l /\ Goto(k, l) /\ l \in Active \cup {"done", "failed"}
  BY DEF IInv, Shape, Goto, Active
<1>5. Fine(k)'
  BY <1>1, <1>3, <1>4, JobType DEF Fine, Works, OwnFiles, Reason
<1>6. Typed' /\ \A q : Get(q)' = Get(q)
  BY <1>1, PutNothing
<1>7. struck \subseteq struck' /\ struck' \subseteq Jobs
  BY <1>1 DEF IInv, Shape, TypeOK
<1> HIDE DEF l
<1> QED
  BY <1>1, <1>2, <1>3, <1>4, <1>5, <1>6, <1>7, StepOf

(* Steps that open or write a file p as their only change but for pc.      *)
LEMMA WriteStep ==
  ASSUME IInv, NEW k \in Jobs, pc[k] \in Active,
         NEW p \in Written(call[k]), NEW f, f.of \in Contents, f.k \in {"none", "torn", "source", "ll", "obj", "exe"},
         Put(p, f), NEW l \in Active \cup {"done", "failed"}, Goto(k, l),
         UNCHANGED <<call, text, crossed>>, struck \subseteq struck', struck' \subseteq Jobs,
         Fine(k)'
  PROVE  IInv'
<1>1. Typed' /\ \A q : q \notin Written(call[k]) => Get(q)' = Get(q)
  BY PutIn
<1>2. DOMAIN text' = Jobs /\ text'[k] \in Contents /\ \A j \in Jobs : j # k => text'[j] = text[j]
  BY JobType DEF IInv, Shape
<1> QED
  BY <1>1, <1>2, StepOf

LEMMA OpenIRStep == ASSUME IInv, NEW k \in Jobs, OpenIR(k) PROVE IInv'
<1>1. /\ pc[k] = "openIR" /\ pc[k] \in Active
      /\ Put(LL(call[k]), Torn) /\ Goto(k, "printIR")
      /\ UNCHANGED <<call, text, crossed, struck>>
  BY DEF OpenIR, Open, Active
<1>2. call[k] \in Calls /\ ~Refused(call[k]) /\ LL(call[k]) # ""
  BY <1>1, JobType DEF IInv, Fine, Works
<1>3. LL(call[k]) \in Written(call[k])
  BY <1>2, Outs
<1>4. pc'[k] = "printIR" /\ Get(LL(call[k]))' = Torn
  BY <1>1, PutGet DEF Goto, IInv, Shape
<1>5. Fine(k)'
  BY <1>1, <1>2, <1>4 DEF Fine, Works, OwnFiles, Reason
<1>6. struck \subseteq struck' /\ struck' \subseteq Jobs
  BY <1>1 DEF IInv, Shape, TypeOK
<1>7. Torn.of \in Contents /\ Torn.k \in {"none", "torn", "source", "ll", "obj", "exe"}
  BY ContentsAssumption DEF Torn
<1>8. "printIR" \in Active
  BY DEF Active
<1> QED
  BY <1>1, <1>3, <1>5, <1>6, <1>7, <1>8, WriteStep

LEMMA PrintIRStep == ASSUME IInv, NEW k \in Jobs, PrintIR(k) PROVE IInv'
<1> DEFINE f == IF Get(LL(call[k])) \in {Torn, File("ll", text[k])} THEN File("ll", text[k]) ELSE Torn
<1>1. /\ pc[k] = "printIR" /\ pc[k] \in Active
      /\ Put(LL(call[k]), f) /\ Goto(k, "openObj")
      /\ UNCHANGED <<call, text, crossed, struck>>
  BY DEF PrintIR, Write, Active
<1>2. call[k] \in Calls /\ ~Refused(call[k]) /\ LL(call[k]) # ""
  BY <1>1, JobType DEF IInv, Fine, Works
<1>3. LL(call[k]) \in Written(call[k])
  BY <1>2, Outs
<1>4. pc'[k] = "openObj" /\ Get(LL(call[k]))' = f
  BY <1>1, PutGet DEF Goto, IInv, Shape
<1>5. Fine(k)'
  <2>1. k \notin crossed => f = File("ll", text[k])
    BY <1>1 DEF IInv, Fine, OwnFiles
  <2> QED
    BY <1>1, <1>2, <1>4, <2>1 DEF Fine, Works, OwnFiles, Reason
<1>6. struck \subseteq struck' /\ struck' \subseteq Jobs
  BY <1>1 DEF IInv, Shape, TypeOK
<1>7. f.of \in Contents /\ f.k \in {"none", "torn", "source", "ll", "obj", "exe"}
  BY JobType, ContentsAssumption DEF Torn, File
<1>8. "openObj" \in Active
  BY DEF Active
<1> HIDE DEF f
<1> QED
  BY <1>1, <1>3, <1>5, <1>6, <1>7, <1>8, WriteStep

LEMMA OpenObjStep == ASSUME IInv, NEW k \in Jobs, OpenObj(k) PROVE IInv'
<1>1. /\ pc[k] = "openObj" /\ pc[k] \in Active
      /\ Put(Obj(call[k]), Torn) /\ Goto(k, "emitObj")
      /\ UNCHANGED <<call, text, crossed, struck>>
  BY DEF OpenObj, Open, Active
<1>2. call[k] \in Calls /\ ~Refused(call[k])
  BY <1>1, JobType
<1>3. Obj(call[k]) \in Written(call[k])
  BY <1>2, Outs
<1>4. pc'[k] = "emitObj"
  BY <1>1 DEF Goto, IInv, Shape
<1>5. /\ Get(Obj(call[k]))' = Torn
      /\ LL(call[k]) # Obj(call[k]) => Get(LL(call[k]))' = Get(LL(call[k]))
  BY <1>1, PutGet
<1>6. Fine(k)'
  BY <1>1, <1>2, <1>4, <1>5 DEF IInv, Fine, Works, OwnFiles, Reason
<1>7. struck \subseteq struck' /\ struck' \subseteq Jobs
  BY <1>1 DEF IInv, Shape, TypeOK
<1>8. Torn.of \in Contents /\ Torn.k \in {"none", "torn", "source", "ll", "obj", "exe"}
  BY ContentsAssumption DEF Torn
<1>9. "emitObj" \in Active
  BY DEF Active
<1> QED
  BY <1>1, <1>3, <1>6, <1>7, <1>8, <1>9, WriteStep

LEMMA EmitObjStep == ASSUME IInv, NEW k \in Jobs, EmitObj(k) PROVE IInv'
<1> DEFINE f == IF Get(Obj(call[k])) \in {Torn, File("obj", text[k])} THEN File("obj", text[k]) ELSE Torn
           l == IF call[k].script THEN "link" ELSE "done"
<1>1. /\ pc[k] = "emitObj" /\ pc[k] \in Active
      /\ Put(Obj(call[k]), f) /\ Goto(k, l)
      /\ UNCHANGED <<call, text, crossed, struck>>
  BY DEF EmitObj, Write, Active
<1>2. call[k] \in Calls /\ ~Refused(call[k])
  BY <1>1, JobType
<1>3. Obj(call[k]) \in Written(call[k])
  BY <1>2, Outs
<1>4. pc'[k] = l
  BY <1>1 DEF Goto, IInv, Shape
<1>5. Get(Obj(call[k]))' = f
  BY <1>1, PutGet
<1>6. k \notin crossed => f = File("obj", text[k])
  BY <1>1 DEF IInv, Fine, OwnFiles
<1>7. Fine(k)'
  BY <1>1, <1>2, <1>4, <1>5, <1>6 DEF Fine, Works, OwnFiles, Reason
<1>8. struck \subseteq struck' /\ struck' \subseteq Jobs
  BY <1>1 DEF IInv, Shape, TypeOK
<1>9. f.of \in Contents /\ f.k \in {"none", "torn", "source", "ll", "obj", "exe"}
  BY JobType, ContentsAssumption DEF Torn, File
<1>10. l \in Active \cup {"done", "failed"}
  BY DEF Active
<1> HIDE DEF f, l
<1> QED
  BY <1>1, <1>3, <1>7, <1>8, <1>9, <1>10, WriteStep

(* clang links the job's own object, unless the job has crossed another    *)
(* one, so it can only miss a main.                                        *)
LEMMA LinkStep == ASSUME IInv, NEW k \in Jobs, Link(k) PROVE IInv'
<1>1. /\ pc[k] = "link" /\ pc[k] \in Active
      /\ UNCHANGED <<call, text, crossed, struck>>
      /\ struck \subseteq struck' /\ struck' \subseteq Jobs
  BY DEF Link, Active, IInv, Shape, TypeOK
<1>2. call[k] \in Calls /\ ~Refused(call[k]) /\ call[k].script
  BY <1>1, JobType DEF IInv, Fine, Works
<1>3. Exe(call[k]) \in Written(call[k])
  BY <1>2, Outs
<1>4. k \notin crossed => Get(Obj(call[k])) = File("obj", text[k])
  BY <1>1 DEF IInv, Fine, OwnFiles
<1>5. Get(Obj(call[k])).of \in Contents
  BY GetType DEF IInv, Shape
<1>6. CASE Links(k)
  <2> DEFINE f == File("exe", Get(Obj(call[k])).of)
  <2>1. Put(Exe(call[k]), f) /\ Goto(k, "run")
    BY <1>6 DEF Link
  <2>2. pc'[k] = "run"
    BY <2>1 DEF Goto, IInv, Shape
  <2>3. Get(Exe(call[k]))' = f
    BY <1>1, <2>1, PutGet
  <2>4. k \notin crossed => f = File("exe", text[k]) /\ text[k] \in Linkable
    BY <1>4, <1>6 DEF Links, File
  <2>5. Fine(k)'
    BY <1>1, <1>2, <2>2, <2>3, <2>4 DEF Fine, Works, OwnFiles, Reason
  <2>6. f.of \in Contents /\ f.k \in {"none", "torn", "source", "ll", "obj", "exe"}
    BY <1>5 DEF File
  <2>7. "run" \in Active
    BY DEF Active
  <2> HIDE DEF f
  <2> QED
    BY <1>1, <1>3, <2>1, <2>5, <2>6, <2>7, WriteStep
<1>7. CASE ~Links(k)
  <2> PICK old \in {Get(Exe(call[k])), None} : Put(Exe(call[k]), old)
    BY <1>7 DEF Link
  <2>1. Goto(k, "failed")
    BY <1>7 DEF Link
  <2>2. pc'[k] = "failed"
    BY <2>1 DEF Goto, IInv, Shape
  <2>3. k \notin crossed => text[k] \notin Linkable
    BY <1>4, <1>7 DEF Links, File
  <2>4. Fine(k)'
    BY <1>1, <1>2, <2>2, <2>3 DEF Fine, Works, OwnFiles, Reason, Active
  <2>5. old.of \in Contents /\ old.k \in {"none", "torn", "source", "ll", "obj", "exe"}
    BY GetType, ContentsAssumption DEF IInv, Shape, None
  <2> QED
    BY <1>1, <1>3, <2>1, <2>4, <2>5, WriteStep
<1> QED
  BY <1>6, <1>7

LEMMA RunStep == ASSUME IInv, NEW k \in Jobs, Run(k) PROVE IInv'
<1>1. /\ pc[k] = "run" /\ pc[k] \in Active
      /\ Goto(k, "done")
      /\ UNCHANGED <<fs, call, text, crossed, struck>>
      /\ struck \subseteq struck' /\ struck' \subseteq Jobs
  BY DEF Run, Active, IInv, Shape, TypeOK
<1>2. pc'[k] = "done"
  BY <1>1 DEF Goto, IInv, Shape
<1>3. Fine(k)'
  BY <1>2 DEF Fine, Works, OwnFiles, Reason, Active
<1>4. Typed' /\ \A q : Get(q)' = Get(q)
  BY <1>1, PutNothing
<1>5. DOMAIN text' = Jobs /\ text'[k] \in Contents /\ \A j \in Jobs : j # k => text'[j] = text[j]
  BY <1>1, JobType DEF IInv, Shape
<1> QED
  BY <1>1, <1>3, <1>4, <1>5, StepOf

LEMMA StrikeStep == ASSUME IInv, NEW k \in Jobs, Strike(k) PROVE IInv'
<1>1. /\ pc[k] \in Active
      /\ Goto(k, "failed")
      /\ UNCHANGED <<call, text, crossed>>
      /\ k \in struck' /\ struck \subseteq struck' /\ struck' \subseteq Jobs
  BY DEF Strike, IInv, Shape, TypeOK
<1>2. pc'[k] = "failed"
  BY <1>1 DEF Goto, IInv, Shape
<1>3. Fine(k)'
  BY <1>1, <1>2 DEF Fine, Works, OwnFiles, Reason, Active
<1>4. call[k] \in Calls /\ ~Refused(call[k])
  BY <1>1, JobType
<1>5. ASSUME fs' = fs PROVE IInv'
  <2>1. Typed' /\ \A q : Get(q)' = Get(q)
    BY <1>5, PutNothing
  <2>2. DOMAIN text' = Jobs /\ text'[k] \in Contents /\ \A j \in Jobs : j # k => text'[j] = text[j]
    BY <1>1, JobType DEF IInv, Shape
  <2> QED
    BY <1>1, <1>3, <2>1, <2>2, StepOf
<1>6. ASSUME NEW p \in Written(call[k]), NEW f \in {None, Torn}, Put(p, f) PROVE IInv'
  <2>1. f.of \in Contents /\ f.k \in {"none", "torn", "source", "ll", "obj", "exe"}
    BY ContentsAssumption DEF None, Torn
  <2> QED
    BY <1>1, <1>3, <1>6, <2>1, WriteStep
<1>7. CASE pc[k] = "printIR" /\ Put(LL(call[k]), Torn)
  <2>1. LL(call[k]) \in Written(call[k])
    BY <1>4, <1>7, Outs DEF IInv, Fine, Works
  <2> QED
    BY <1>6, <1>7, <2>1
<1>8. CASE pc[k] = "emitObj" /\ Put(Obj(call[k]), Torn)
  <2>1. Obj(call[k]) \in Written(call[k])
    BY <1>4, Outs
  <2> QED
    BY <1>6, <1>8, <2>1
<1>9. CASE pc[k] = "link" /\ \E f \in {None, Torn} : Put(Exe(call[k]), f)
  <2>1. Exe(call[k]) \in Written(call[k])
    BY <1>4, <1>9, Outs DEF IInv, Fine, Works
  <2> QED
    BY <1>6, <1>9, <2>1
<1> QED
  BY <1>5, <1>7, <1>8, <1>9 DEF Strike

(* A job that starts marks itself and every job it could disturb, so the   *)
(* others stay apart.                                                      *)
LEMMA BeginStep == ASSUME IInv, NEW k \in Jobs, Begin(k) PROVE IInv'
<1> DEFINE others == {j \in Jobs \ {k} : /\ pc[j] \in Active
                                        /\ Written(call[j]) \cap Written(call[k]) # {}}
<1>1. pc[k] = "idle" /\ UNCHANGED <<fs, call, text, struck>>
  BY DEF Begin
<1>2. \/ Refused(call[k]) /\ Goto(k, "failed") /\ crossed' = crossed
      \/ /\ ~Refused(call[k]) /\ Goto(k, "slurp")
         /\ crossed' = crossed \cup others \cup IF others = {} THEN {} ELSE {k}
  BY DEF Begin
<1>3. pc'[k] = IF Refused(call[k]) THEN "failed" ELSE "slurp"
  BY <1>2 DEF Goto, IInv, Shape
<1>4. DOMAIN pc' = Jobs /\ \A j \in Jobs : j # k => pc'[j] = pc[j]
  BY <1>2 DEF Goto, IInv, Shape
<1>5. crossed \subseteq crossed' /\ crossed' \subseteq Jobs
  BY <1>2 DEF IInv, Shape, TypeOK
<1>6. Shape'
  <2>1. \A j \in Jobs : pc'[j] \in Active \cup {"idle", "done", "failed"} /\ text'[j] \in Contents
    BY <1>1, <1>3, <1>4 DEF Active, IInv, Shape, TypeOK
  <2>2. TypeOK'
    BY <1>1, <1>5, <2>1 DEF IInv, Shape, TypeOK
  <2> QED
    BY <1>1, <1>4, <2>2 DEF IInv, Shape
<1>7. Apart'
  <2> SUFFICES ASSUME NEW i \in Jobs, NEW j \in Jobs, i # j,
                      pc'[i] \in Active, pc'[j] \in Active, i \notin crossed'
               PROVE  Written(call[i]) \cap Written(call[j]) = {}
    BY <1>1 DEF Apart
  <2>1. CASE i # k /\ j # k
    BY <1>4, <1>5, <2>1 DEF IInv, Apart
  <2>2. CASE i = k \/ j = k
    <3>1. crossed' = crossed \cup others \cup IF others = {} THEN {} ELSE {k}
      BY <1>2, <1>3, <2>2 DEF Active
    <3>2. CASE i = k
      <4>1. others = {}
        BY <3>1, <3>2
      <4> QED
        BY <1>4, <3>2, <4>1
    <3>3. CASE j = k
      BY <1>4, <3>1, <3>3
    <3> QED
      BY <2>2, <3>2, <3>3
  <2> QED
    BY <2>1, <2>2
<1>8. \A q : Get(q)' = Get(q)
  BY <1>1, PutNothing
<1>9. ASSUME NEW j \in Jobs PROVE Fine(j)'
  <2>1. CASE j = k
    BY <1>1, <1>3, <2>1 DEF Fine, Works, OwnFiles, Reason, Active
  <2>2. CASE j # k
    <3>1. pc'[j] = pc[j] /\ text'[j] = text[j] /\ call' = call /\ Fine(j) /\ struck' = struck
      BY <1>1, <1>4, <2>2 DEF IInv
    <3> QED
      BY <1>5, <1>8, <3>1 DEF Fine, Works, OwnFiles, Reason
  <2> QED
    BY <2>1, <2>2
<1> QED
  BY <1>6, <1>7, <1>9 DEF IInv

(* Sources are nobody's output.                                            *)
LEMMA EditStep == ASSUME IInv, Edit PROVE IInv'
<1> PICK s \in Sources, f \in {None} \cup {File("source", c) : c \in Contents} : Put(s, f)
  BY DEF Edit
<1>1. UNCHANGED <<call, pc, text, crossed, struck>>
  BY DEF Edit
<1>2. f.of \in Contents /\ f.k \in {"none", "source"}
  BY ContentsAssumption DEF None, File
<1>3. Typed'
  BY <1>2 DEF IInv, Shape, TypeOK, Typed, Put
<1>4. Shape'
  BY <1>1, <1>3 DEF IInv, Shape, TypeOK, Typed
<1>5. ASSUME NEW j \in Jobs PROVE Fine(j)'
  <2>1. Works(j)' /\ Reason(j)'
    BY <1>1 DEF IInv, Fine, Works, Reason
  <2>2. OwnFiles(j)'
    <3> SUFFICES ASSUME j \notin crossed, pc[j] \in {"printIR", "openObj", "emitObj", "link", "run"}
                 PROVE  OwnFiles(j)'
      BY <1>1 DEF OwnFiles
    <3>1. pc[j] \in Active
      BY DEF Active
    <3>2. ~Refused(call[j]) /\ call[j] \in Calls
      BY <3>1, JobType
    <3>3. Obj(call[j]) # s /\ (call[j].script => Exe(call[j]) # s) /\ (LL(call[j]) # "" => LL(call[j]) # s)
      BY <3>2, Outs
    <3>4. /\ Get(Obj(call[j]))' = Get(Obj(call[j]))
          /\ call[j].script => Get(Exe(call[j]))' = Get(Exe(call[j]))
          /\ LL(call[j]) # "" => Get(LL(call[j]))' = Get(LL(call[j]))
      BY <1>1, <3>3, PutGet
    <3> QED
      BY <1>1, <3>4 DEF IInv, Fine, Works, OwnFiles
  <2> QED
    BY <2>1, <2>2 DEF Fine
<1>6. Apart'
  BY <1>1 DEF IInv, Apart
<1> QED
  BY <1>4, <1>5, <1>6 DEF IInv

LEMMA NextIInv == IInv /\ [Next]_vars => IInv'
<1> SUFFICES ASSUME IInv, [Next]_vars PROVE IInv'
  OBVIOUS
<1>1. CASE Edit
  BY <1>1, EditStep
<1>2. ASSUME NEW j \in Jobs, Step(j) PROVE IInv'
  BY <1>2, BeginStep, CompileStep, OpenIRStep, PrintIRStep, OpenObjStep, EmitObjStep, LinkStep, RunStep DEF Step
<1>3. ASSUME NEW j \in Jobs, Strike(j) PROVE IInv'
  BY <1>3, StrikeStep
<1>4. CASE UNCHANGED vars
  <2>1. \A q : Get(q)' = Get(q)
    BY <1>4, PutNothing DEF vars
  <2>2. \A j \in Jobs : Fine(j)'
    BY <1>4, <2>1 DEF vars, IInv, Fine, Works, OwnFiles, Reason
  <2>3. Shape' /\ Apart'
    BY <1>4 DEF vars, IInv, Shape, TypeOK, Apart
  <2> QED
    BY <2>2, <2>3 DEF IInv
<1> QED
  BY <1>1, <1>2, <1>3, <1>4 DEF Next

(* What the properties say of each job is part of the invariant.           *)
LEMMA IInvMeans == IInv => TypeOK /\ RunsItsSource /\ FailsForAReason
<1> SUFFICES ASSUME IInv PROVE TypeOK /\ RunsItsSource /\ FailsForAReason
  OBVIOUS
<1>1. TypeOK
  BY DEF IInv, Shape
<1>2. RunsItsSource
  BY DEF IInv, Fine, OwnFiles, RunsItsSource
<1>3. FailsForAReason
  BY DEF IInv, Fine, Reason, FailsForAReason
<1> QED
  BY <1>1, <1>2, <1>3

-----------------------------------------------------------------------------
(* Options goes through the arguments from left to right: the recursion of *)
(* the fold, over sets of positions, and what it has taken when it is      *)
(* through the first k arguments.                                          *)
OptDom(p) == SUBSET DOMAIN p
OptRank(p, s) == IF s = {} THEN 0 ELSE Max(s)
OptBody(p, f, s) == IF s = {} THEN [flag |-> "", obj |-> "", ll |-> ""]
                    ELSE Take(f[s \ {Max(s)}], p[Max(s)])

LastUpTo(p, k, s, flag, n) ==
  Gives(p, s, flag, n) /\ \A m \in n+1 .. k : ~Gives(p, s, flag, m)

(* a is what the last option of the name flag gives, or nothing gives it *)
Takes(p, k, s, flag, a) ==
  /\ \A n \in 2 .. k : LastUpTo(p, k, s, flag, n) => p[n] = a
  /\ a # "" => \E n \in 2 .. k : LastUpTo(p, k, s, flag, n)

(* s are the options among the first k arguments *)
Among(p, k, s) ==
  /\ s \subseteq 1 .. k
  /\ \A n \in 1 .. k : n \in s <=> p[n] \in Flags /\ n-1 \notin s

TakenBy(p, k, s, o) ==
  /\ Among(p, k, s)
  /\ o = [flag |-> IF k \in s THEN p[k] ELSE "", obj |-> o.obj, ll |-> o.ll]
  /\ Takes(p, k, s, "-o", o.obj)
  /\ Takes(p, k, s, "--emit-ll", o.ll)

Taken(p, k, o) == \E s : TakenBy(p, k, s, o)
OptFit(p, s, o) == \A k \in 0 .. Len(p) : s = 1 .. k => Taken(p, k, o)

Opt == INSTANCE Recursion WITH Dom <- OptDom, Rank <- OptRank, Body <- OptBody, Fit <- OptFit

(* An argument more: it is the last value of the option before it, and of  *)
(* no other.                                                               *)
More(k, s, t) ==
  k \in Nat /\ k > 0 /\ s \subseteq 1 .. k-1 /\ t \in {s, s \cup {k}}

LEMMA LastOfMore ==
  ASSUME NEW p, NEW k, NEW s, NEW t, More(k, s, t), NEW flag, NEW a, Takes(p, k-1, s, flag, a)
  PROVE  /\ Gives(p, s, flag, k) => Takes(p, k, t, flag, p[k])
         /\ ~Gives(p, s, flag, k) => Takes(p, k, t, flag, a)
<1>0. k \in Nat /\ k > 0 /\ s \subseteq 1 .. k-1 /\ t \in {s, s \cup {k}}
  BY DEF More
<1>1. \A m \in 1 .. k : Gives(p, t, flag, m) <=> Gives(p, s, flag, m)
  BY <1>0 DEF Gives
<1>2. CASE Gives(p, s, flag, k)
  <2>1. k - 1 \in 1 .. k-1
    BY <1>0, <1>2 DEF Gives
  <2>2. k \in 2 .. k
    BY <1>0, <2>1
  <2>3. LastUpTo(p, k, t, flag, k)
    BY <1>0, <1>1, <1>2 DEF LastUpTo
  <2>4. ASSUME NEW n \in 2 .. k, LastUpTo(p, k, t, flag, n) PROVE n = k
    <3>1. n < k => k \in n+1 .. k
      BY <1>0
    <3>2. Gives(p, t, flag, k)
      BY <1>0, <1>1, <1>2
    <3> QED
      BY <1>0, <2>4, <3>1, <3>2 DEF LastUpTo
  <2>5. \A n \in 2 .. k : LastUpTo(p, k, t, flag, n) => p[n] = p[k]
    BY <1>0, <2>4
  <2> QED
    BY <1>0, <1>2, <2>2, <2>3, <2>5 DEF Takes
<1>3. CASE ~Gives(p, s, flag, k)
  <2>1. ~Gives(p, t, flag, k)
    BY <1>0, <1>1, <1>3
  <2>2. ASSUME NEW n \in 2 .. k-1
        PROVE  LastUpTo(p, k, t, flag, n) <=> LastUpTo(p, k-1, s, flag, n)
    <3>1. \A m \in n+1 .. k : m = k \/ m \in n+1 .. k-1
      BY <1>0
    <3>2. \A m \in n+1 .. k-1 : m \in n+1 .. k /\ m \in 1 .. k
      BY <1>0
    <3>3. n \in 1 .. k
      BY <1>0
    <3> QED
      BY <1>0, <1>1, <2>1, <3>1, <3>2, <3>3 DEF LastUpTo
  <2>3. \A n \in 2 .. k : LastUpTo(p, k, t, flag, n) => n \in 2 .. k-1
    BY <1>0, <2>1 DEF LastUpTo
  <2>4. \A n \in 2 .. k-1 : n \in 2 .. k
    BY <1>0
  <2> QED
    BY <1>0, <1>3, <2>2, <2>3, <2>4 DEF Takes
<1> QED
  BY <1>0, <1>2, <1>3

LEMMA TakeOne ==
  ASSUME NEW p, NEW k \in Nat, k > 0, NEW o, Taken(p, k - 1, o)
  PROVE  Taken(p, k, Take(o, p[k]))
<1> DEFINE a == p[k]
           q == Take(o, a)
<1>1. PICK s : TakenBy(p, k - 1, s, o)
  BY DEF Taken
<1> DEFINE t == IF k-1 \in s \/ a \notin Flags THEN s ELSE s \cup {k}
<1>2. PICK f, b, l : o = [flag |-> f, obj |-> b, ll |-> l]
  BY <1>1 DEF TakenBy
<1>3. o.flag = f /\ o.obj = b /\ o.ll = l
  BY <1>2
<1>4. Among(p, k - 1, s) /\ f = IF k-1 \in s THEN p[k-1] ELSE ""
  BY <1>1, <1>2, <1>3 DEF TakenBy
<1>5. s \subseteq 1 .. k-1 /\ t \in {s, s \cup {k}} /\ k \notin s /\ More(k, s, t)
  <2>1. s \subseteq 1 .. k-1
    BY <1>4 DEF Among
  <2>2. k \notin s
    BY <2>1
  <2>3. t = s \/ t = s \cup {k}
    OBVIOUS
  <2> HIDE DEF t
  <2> QED
    BY <2>1, <2>2, <2>3 DEF More
<1>6. k-1 \in s => p[k-1] \in Flags
  BY <1>4 DEF Among
<1>7. \A flag \in Flags : Gives(p, s, flag, k) <=> f = flag
  BY <1>4, <1>6 DEF Gives, Flags
<1>8. Among(p, k, t)
  <2>1. t \subseteq 1 .. k
    BY <1>5
  <2>2. k \in t <=> a \in Flags /\ k-1 \notin t
    BY <1>5
  <2>3. ASSUME NEW n \in 1 .. k-1 PROVE n \in t <=> p[n] \in Flags /\ n-1 \notin t
    <3>1. n # k /\ n-1 # k
      OBVIOUS
    <3>2. (n \in t <=> n \in s) /\ (n-1 \in t <=> n-1 \in s)
      BY <1>5, <3>1
    <3>3. n \in s <=> p[n] \in Flags /\ n-1 \notin s
      BY <1>4 DEF Among
    <3> QED
      BY <3>2, <3>3
  <2>4. \A n \in 1 .. k : n = k \/ n \in 1 .. k-1
    OBVIOUS
  <2> HIDE DEF t
  <2> QED
    BY <2>1, <2>2, <2>3, <2>4 DEF Among
<1>9. /\ IF f = "-o" THEN Takes(p, k, t, "-o", a) ELSE Takes(p, k, t, "-o", b)
      /\ IF f = "--emit-ll" THEN Takes(p, k, t, "--emit-ll", a) ELSE Takes(p, k, t, "--emit-ll", l)
  <2> HIDE DEF t
  <2>1. ASSUME NEW flag \in Flags, NEW c, Takes(p, k-1, s, flag, c)
        PROVE  IF f = flag THEN Takes(p, k, t, flag, a) ELSE Takes(p, k, t, flag, c)
    <3>1. /\ Gives(p, s, flag, k) => Takes(p, k, t, flag, p[k])
          /\ ~Gives(p, s, flag, k) => Takes(p, k, t, flag, c)
      BY <2>1, <1>5, LastOfMore, Zenon
    <3>2. Gives(p, s, flag, k) <=> f = flag
      BY <1>7
    <3> QED
      BY <3>1, <3>2
  <2>2. Takes(p, k-1, s, "-o", b) /\ Takes(p, k-1, s, "--emit-ll", l)
    BY <1>1, <1>3 DEF TakenBy
  <2> QED
    BY <2>1, <2>2 DEF Flags
<1>10. (k \in t <=> f = "" /\ a \in Flags) /\ f \in Flags \cup {""}
  BY <1>4, <1>5, <1>6 DEF Flags
<1>11. ASSUME NEW x, NEW y, NEW z, q = [flag |-> x, obj |-> y, ll |-> z],
              x = IF k \in t THEN a ELSE "",
              Takes(p, k, t, "-o", y), Takes(p, k, t, "--emit-ll", z)
       PROVE  Taken(p, k, q)
  <2> HIDE DEF q, t
  <2>1. q.obj = y /\ q.ll = z
    BY <1>11
  <2>2. TakenBy(p, k, t, q)
    BY <1>8, <1>11, <2>1 DEF TakenBy
  <2> QED
    BY <2>2 DEF Taken
<1>12. ASSUME f = "-o" PROVE Taken(p, k, q)
  <2>1. q = [flag |-> "", obj |-> a, ll |-> l]
    BY <1>2, <1>3, <1>12 DEF Take
  <2>2. k \notin t
    BY <1>10, <1>12
  <2>3. Takes(p, k, t, "-o", a) /\ Takes(p, k, t, "--emit-ll", l)
    BY <1>9, <1>12
  <2> HIDE DEF q, t
  <2> QED
    BY <1>11, <2>1, <2>2, <2>3
<1>13. ASSUME f = "--emit-ll" PROVE Taken(p, k, q)
  <2>1. q = [flag |-> "", obj |-> b, ll |-> a]
    BY <1>2, <1>3, <1>13 DEF Take
  <2>2. k \notin t
    BY <1>10, <1>13
  <2>3. Takes(p, k, t, "-o", b) /\ Takes(p, k, t, "--emit-ll", a)
    BY <1>9, <1>13
  <2> HIDE DEF q, t
  <2> QED
    BY <1>11, <2>1, <2>2, <2>3
<1>14. ASSUME f = "" PROVE Taken(p, k, q)
  <2> DEFINE x == IF a \in Flags THEN a ELSE ""
  <2>1. q = [flag |-> x, obj |-> b, ll |-> l]
    BY <1>2, <1>3, <1>14 DEF Take
  <2>2. x = IF k \in t THEN a ELSE ""
    BY <1>10, <1>14
  <2>3. Takes(p, k, t, "-o", b) /\ Takes(p, k, t, "--emit-ll", l)
    BY <1>9, <1>14
  <2> HIDE DEF q, t, x
  <2> QED
    BY <1>11, <2>1, <2>2, <2>3
<1> QED
  BY <1>10, <1>12, <1>13, <1>14 DEF Flags

LEMMA OptionsTaken ==
  ASSUME NEW V, NEW p \in Seq(V)
  PROVE  Taken(p, Len(p), Opt!Defined(p)[DOMAIN p])
<1>1. Len(p) \in Nat /\ DOMAIN p = 1 .. Len(p)
  OBVIOUS
<1>2. ASSUME NEW s \in OptDom(p), NEW t, NEW u,
             s # {} => t[Opt!Rest(s)] = u[Opt!Rest(s)] /\ OptFit(p, Opt!Rest(s), t[Opt!Rest(s)])
      PROVE  OptBody(p, t, s) = OptBody(p, u, s) /\ OptFit(p, s, OptBody(p, t, s))
  <2>1. CASE s = {}
    <3>1. \A k \in 0 .. Len(p) : s = 1 .. k => k = 0
      BY <1>1, <2>1
    <3>2. OptBody(p, t, s) = [flag |-> "", obj |-> "", ll |-> ""] /\ OptBody(p, u, s) = OptBody(p, t, s)
      BY <2>1 DEF OptBody
    <3>3. Taken(p, 0, [flag |-> "", obj |-> "", ll |-> ""])
      <4> DEFINE o == [flag |-> "", obj |-> "", ll |-> ""]
      <4>1. o.flag = "" /\ o.obj = "" /\ o.ll = ""
        OBVIOUS
      <4>2. Among(p, 0, {})
        BY DEF Among
      <4>3. \A flag : Takes(p, 0, {}, flag, "")
        BY DEF Takes
      <4>4. o = [flag |-> IF 0 \in {} THEN p[0] ELSE "", obj |-> o.obj, ll |-> o.ll]
        OBVIOUS
      <4> HIDE DEF o
      <4>5. TakenBy(p, 0, {}, o)
        BY <4>1, <4>2, <4>3, <4>4 DEF TakenBy
      <4> QED
        BY <4>5 DEF Taken, o
    <3> QED
      BY <3>1, <3>2, <3>3 DEF OptFit
  <2>2. CASE s # {}
    <3> DEFINE r == Opt!Rest(s)
    <3>1. /\ t[r] = u[r] /\ OptFit(p, r, t[r])
          /\ OptBody(p, t, s) = Take(t[r], p[Max(s)]) /\ OptBody(p, u, s) = Take(u[r], p[Max(s)])
      BY <1>2, <2>2 DEF OptBody, Opt!Rest, Opt!Max, Max
    <3>2. ASSUME NEW k \in 0 .. Len(p), s = 1 .. k
          PROVE  Taken(p, k, Take(t[r], p[Max(s)]))
      <4>1. k \in Nat /\ k > 0 /\ k - 1 \in 0 .. Len(p)
        BY <1>1, <2>2, <3>2
      <4>2. r = 1 .. k - 1 /\ Max(s) = k
        BY <3>2, <4>1, Opt!Prefix DEF Opt!Max, Max
      <4>3. Taken(p, k - 1, t[r])
        BY <3>1, <4>1, <4>2 DEF OptFit
      <4> HIDE DEF r
      <4> QED
        BY <4>1, <4>2, <4>3, TakeOne
    <3> QED
      BY <3>1, <3>2 DEF OptFit
  <2> QED
    BY <2>1, <2>2
<1>3. Opt!FoldsOver(p, Len(p))
  BY <1>1, <1>2 DEF Opt!FoldsOver, OptDom, OptRank, Opt!Max, Max
<1>4. Opt!LooksDown(p)
  BY <1>1, <1>3, Opt!Folding
<1> DEFINE o == Opt!Defined(p)[DOMAIN p]
<1>5. OptFit(p, DOMAIN p, o)
  BY <1>4, Opt!Unfolding DEF OptDom
<1> HIDE DEF o
<1>6. Taken(p, Len(p), o)
  <2>1. Len(p) \in 0 .. Len(p) /\ DOMAIN p = 1 .. Len(p)
    BY <1>1
  <2> QED
    BY <1>5, <2>1 DEF OptFit
<1> QED
  BY <1>6 DEF o

(* The files a job writes are those that the last options give.            *)
LEMMA Named ==
  ASSUME NEW V, NEW argv \in Seq(V), argv # << >>
  PROVE  \E s \in SUBSET (2 .. Len(argv)) :
           /\ AreOptions(argv, s)
           /\ Options(argv).obj # "" =>
                \E n \in 3 .. Len(argv) : GivesLast(argv, s, "-o", n) /\ argv[n] = Options(argv).obj
           /\ \A n \in 3 .. Len(argv) :
                GivesLast(argv, s, "--emit-ll", n) => argv[n] = Options(argv).ll
<1> DEFINE p == Tail(argv)
           o == Opt!Defined(p)[DOMAIN p]
<1>1. Options(argv) = o
  BY Zenon DEF Options, FoldLeft, MapThenFoldSet, Opt!Defined, OptDom, OptBody
<1>2. p \in Seq(V) /\ Len(p) = Len(argv) - 1 /\ Len(argv) \in Nat /\ \A n \in 1 .. Len(p) : p[n] = argv[n+1]
  BY HeadTailProperties
<1> HIDE DEF p
<1>3. Taken(p, Len(p), o)
  BY <1>2, OptionsTaken
<1> HIDE DEF o
<1>4. PICK s : TakenBy(p, Len(p), s, o)
  BY <1>3 DEF Taken
<1> DEFINE k == Len(p)
           t == {n + 1 : n \in s}
<1>5. /\ s \subseteq 1 .. k
      /\ \A n \in 1 .. k : n \in s <=> p[n] \in Flags /\ n-1 \notin s
      /\ Takes(p, k, s, "-o", o.obj) /\ Takes(p, k, s, "--emit-ll", o.ll)
  BY <1>4 DEF TakenBy, Among
<1>6. k \in Nat /\ Len(argv) = k + 1
  BY <1>2
<1>7. t \in SUBSET (2 .. Len(argv))
  BY <1>5, <1>6
<1>8. \A n \in Int : n + 1 \in t <=> n \in s
  BY <1>5
<1>9. \A n \in 2 .. Len(argv) : n-1 \in 1 .. k /\ argv[n] = p[n-1] /\ n-1 \in Int /\ (n-1)+1 = n
  BY <1>2, <1>6
<1>10. \A n \in 2 .. Len(argv) : n \in t <=> n-1 \in s
  BY <1>8, <1>9
<1>11. AreOptions(argv, t)
  <2>1. ASSUME NEW n \in 2 .. Len(argv) PROVE n \in t <=> argv[n] \in Flags /\ n-1 \notin t
    <3>1. n-1 \in t <=> (n-1)-1 \in s
      <4>1. (n-1)-1 \in Int /\ ((n-1)-1)+1 = n-1
        BY <1>9
      <4> HIDE DEF t
      <4> QED
        BY <1>8, <4>1
    <3> HIDE DEF t, k
    <3> QED
      BY <1>5, <1>9, <1>10, <3>1
  <2> QED
    BY <2>1 DEF AreOptions
<1>12. ASSUME NEW flag, NEW n \in 3 .. Len(argv) PROVE Gives(argv, t, flag, n) <=> Gives(p, s, flag, n-1)
  <2>1. n-1 \in 2 .. Len(argv)
    BY <1>6
  <2> HIDE DEF t
  <2> QED
    BY <1>9, <1>10, <2>1 DEF Gives
<1>13. ASSUME NEW flag, NEW n \in 3 .. Len(argv)
       PROVE  GivesLast(argv, t, flag, n) <=> LastUpTo(p, k, s, flag, n-1)
  <2> HIDE DEF t
  <2>1. ASSUME NEW m \in n+1 .. Len(argv)
        PROVE  /\ m-1 \in (n-1)+1 .. k
               /\ Gives(argv, t, flag, m) <=> Gives(p, s, flag, m-1)
    <3>1. m \in 3 .. Len(argv) /\ m-1 \in (n-1)+1 .. k
      BY <1>6
    <3> QED
      BY <1>12, <3>1
  <2>2. ASSUME NEW m \in (n-1)+1 .. k PROVE m+1 \in n+1 .. Len(argv) /\ (m+1)-1 = m
    BY <1>6
  <2> HIDE DEF k
  <2>3. (\A m \in n+1 .. Len(argv) : ~Gives(argv, t, flag, m)) <=>
           \A m \in (n-1)+1 .. k : ~Gives(p, s, flag, m)
    BY <2>1, <2>2
  <2>4. Gives(argv, t, flag, n) <=> Gives(p, s, flag, n-1)
    BY <1>12
  <2> QED
    BY <2>3, <2>4 DEF GivesLast, LastUpTo
<1>14. ASSUME o.obj # ""
       PROVE  \E n \in 3 .. Len(argv) : GivesLast(argv, t, "-o", n) /\ argv[n] = o.obj
  <2>1. PICK n \in 2 .. k : LastUpTo(p, k, s, "-o", n)
    BY <1>5, <1>14 DEF Takes
  <2>2. p[n] = o.obj
    BY <1>5, <2>1 DEF Takes
  <2>3. n+1 \in 3 .. Len(argv) /\ (n+1)-1 = n
    BY <1>6
  <2>4. argv[n+1] = p[n]
    BY <1>2
  <2> HIDE DEF t, k
  <2>5. GivesLast(argv, t, "-o", n+1)
    BY <1>13, <2>1, <2>3
  <2> QED
    BY <2>2, <2>3, <2>4, <2>5
<1>15. ASSUME NEW n \in 3 .. Len(argv), GivesLast(argv, t, "--emit-ll", n)
       PROVE  argv[n] = o.ll
  <2>1. n-1 \in 2 .. k /\ argv[n] = p[n-1]
    BY <1>6, <1>9
  <2>2. LastUpTo(p, k, s, "--emit-ll", n-1)
    BY <1>13, <1>15
  <2> QED
    BY <1>5, <2>1, <2>2 DEF Takes
<1> HIDE DEF t
<1> QED
  BY <1>1, <1>7, <1>11, <1>14, <1>15

(* how a job that is not refused calls the compiler                        *)
LEMMA ArgvType ==
  ASSUME NEW c \in Calls, Enough(c)
  PROVE  \E V : Argv(c) \in Seq(V) /\ Argv(c) # << >>
<1>1. c.args \in Seq(STRING) /\ Len(c.args) >= 1
  BY CallsAssumption DEF Enough
<1>2. CASE c.script
  <2> DEFINE a == c.args[1]
             o == Build(c, ".o")
             l == Build(c, ".ll")
  <2>1. Argv(c) = <<a, "-o", o, "--emit-ll", l>>
    BY <1>2 DEF Argv
  <2> HIDE DEF a, o, l
  <2>2. /\ <<a, "-o", o, "--emit-ll", l>> \in Seq({a, "-o", o, "--emit-ll", l})
        /\ <<a, "-o", o, "--emit-ll", l>> # << >>
    OBVIOUS
  <2> QED
    BY <2>1, <2>2
<1>3. CASE ~c.script
  BY <1>1, <1>3 DEF Argv
<1> QED
  BY <1>2, <1>3

(* only emitObj ends with an object, and it leaves the listing alone       *)
LEMMA Compiled ==
  ASSUME IInv, [Next]_vars, NEW j \in Jobs,
         pc[j] = "emitObj", pc'[j] \in {"link", "done"}, j \notin crossed
  PROVE  /\ Obj(call[j]) \in DOMAIN fs' /\ fs'[Obj(call[j])] = File("obj", text[j])
         /\ LL(call[j]) \notin {"", Obj(call[j])} =>
              LL(call[j]) \in DOMAIN fs' /\ fs'[LL(call[j])] = File("ll", text[j])
<1>1. EmitObj(j)
  <2>1. \A k \in Jobs : \A l : Goto(k, l) => pc'[k] = l /\ (j # k => pc'[j] = pc[j])
    BY DEF Goto, IInv, Shape
  <2>2. ~UNCHANGED vars /\ ~Edit
    BY DEF vars, Edit
  <2>3. ASSUME NEW k \in Jobs, Strike(k) PROVE FALSE
    BY <2>1, <2>3 DEF Strike
  <2>4. ASSUME NEW k \in Jobs, Step(k), j # k PROVE FALSE
    BY <2>1, <2>4 DEF Step, Begin, Compile, OpenIR, PrintIR, OpenObj, EmitObj, Link, Run, Open, Write
  <2>5. Step(j)
    BY <2>2, <2>3, <2>4 DEF Next
  <2> QED
    BY <2>5 DEF Step, Begin, Compile, OpenIR, PrintIR, OpenObj, Link, Run
<1>2. OwnFiles(j)
  BY DEF IInv, Fine
<1>3. Put(Obj(call[j]), File("obj", text[j]))
  BY <1>1, <1>2 DEF EmitObj, Write, OwnFiles
<1>4. LL(call[j]) \notin {"", Obj(call[j])} =>
        LL(call[j]) \in DOMAIN fs /\ fs[LL(call[j])] = File("ll", text[j])
  BY <1>2 DEF OwnFiles, Get, File, None
<1> QED
  BY <1>3, <1>4 DEF Put

LEMMA CompiledStep == IInv /\ [Next]_vars =>
  [\A j \in Jobs :
       pc[j] = "emitObj" /\ pc'[j] \in {"link", "done"} /\ j \notin crossed =>
         LET argv == Argv(call[j])
             Whole(n, k) == argv[n] \in DOMAIN fs' /\ fs'[argv[n]] = File(k, text[j])
         IN  \E options \in SUBSET (2 .. Len(argv)), o \in 3 .. Len(argv) :
               /\ AreOptions(argv, options)
               /\ GivesLast(argv, options, "-o", o) /\ Whole(o, "obj")
               /\ \A n \in 3 .. Len(argv) :
                    GivesLast(argv, options, "--emit-ll", n) /\ argv[n] \notin {"", argv[o]} =>
                      Whole(n, "ll")]_vars
<1> SUFFICES ASSUME IInv, [Next]_vars, NEW j \in Jobs,
                    pc[j] = "emitObj", pc'[j] \in {"link", "done"}, j \notin crossed
             PROVE  LET argv == Argv(call[j])
                        Whole(n, k) == argv[n] \in DOMAIN fs' /\ fs'[argv[n]] = File(k, text[j])
                    IN  \E options \in SUBSET (2 .. Len(argv)), o \in 3 .. Len(argv) :
                          /\ AreOptions(argv, options)
                          /\ GivesLast(argv, options, "-o", o) /\ Whole(o, "obj")
                          /\ \A n \in 3 .. Len(argv) :
                               GivesLast(argv, options, "--emit-ll", n) /\ argv[n] \notin {"", argv[o]} =>
                                 Whole(n, "ll")
  OBVIOUS
<1> DEFINE argv == Argv(call[j])
           opt == Options(argv)
<1>1. call[j] \in Calls /\ ~Refused(call[j])
  BY JobType DEF Active
<1>2. PICK V : argv \in Seq(V) /\ argv # << >>
  BY <1>1, ArgvType DEF Refused
<1>3. opt.obj = Obj(call[j]) /\ opt.ll = LL(call[j]) /\ opt.obj # ""
  BY <1>1 DEF Obj, LL, Refused
<1>4. /\ opt.obj \in DOMAIN fs' /\ fs'[opt.obj] = File("obj", text[j])
      /\ opt.ll \notin {"", opt.obj} => opt.ll \in DOMAIN fs' /\ fs'[opt.ll] = File("ll", text[j])
  <2>1. /\ Obj(call[j]) \in DOMAIN fs' /\ fs'[Obj(call[j])] = File("obj", text[j])
        /\ LL(call[j]) \notin {"", Obj(call[j])} =>
             LL(call[j]) \in DOMAIN fs' /\ fs'[LL(call[j])] = File("ll", text[j])
    BY Compiled
  <2> HIDE DEF opt
  <2> QED
    BY <1>3, <2>1
<1> HIDE DEF argv
<1>5. PICK options \in SUBSET (2 .. Len(argv)) :
        /\ AreOptions(argv, options)
        /\ \E n \in 3 .. Len(argv) : GivesLast(argv, options, "-o", n) /\ argv[n] = opt.obj
        /\ \A n \in 3 .. Len(argv) : GivesLast(argv, options, "--emit-ll", n) => argv[n] = opt.ll
  BY <1>2, <1>3, Named
<1> HIDE DEF opt
<1>6. PICK o \in 3 .. Len(argv) : GivesLast(argv, options, "-o", o) /\ argv[o] = opt.obj
  BY <1>5
<1>7. argv[o] \in DOMAIN fs' /\ fs'[argv[o]] = File("obj", text[j])
  BY <1>4, <1>6
<1>8. ASSUME NEW n \in 3 .. Len(argv), GivesLast(argv, options, "--emit-ll", n),
             argv[n] \notin {"", argv[o]}
      PROVE  argv[n] \in DOMAIN fs' /\ fs'[argv[n]] = File("ll", text[j])
  BY <1>4, <1>5, <1>6, <1>8
<1> QED
  BY <1>5, <1>6, <1>7, <1>8 DEF argv

LEMMA DriverInvariant == Spec => []IInv
<1>1. Init => IInv
  BY InitIInv
<1>2. IInv /\ [Next]_vars => IInv'
  BY NextIInv
<1> QED
  BY <1>1, <1>2, PTL DEF Spec

(* Jobs and files keep their shape, and a source is never taken for, or     *)
(* replaced by, an output (main.cpp:17-35, codegen.cpp:440-461, run.sh:13-16).             *)
THEOREM DriverTypeCorrect == Spec => []TypeOK
BY DriverInvariant, IInvMeans, PTL

(* What run.sh runs is the program of the source it has read, for any      *)
(* number of jobs, kills, edits and leftovers (run.sh:13-20).              *)
THEOREM DriverRunsItsSource == Spec => []RunsItsSource
BY DriverInvariant, IInvMeans, PTL

(* No job fails because of the files that others have left behind          *)
(* (main.cpp:12-35, run.sh:13-16).                                         *)
THEOREM DriverFailsForAReason == Spec => []FailsForAReason
BY DriverInvariant, IInvMeans, PTL

(* An exit status of 0 means a whole object under the name that the last   *)
(* -o gives, and a whole listing of the same text where the last --emit-ll *)
(* asks for one, however the arguments are ordered and whatever flags are  *)
(* values of others (main.cpp:17-35, codegen.cpp:440-461).                 *)
THEOREM DriverCompiledWhole == Spec => CompiledWhole
BY DriverInvariant, CompiledStep, PTL DEF Spec, CompiledWhole
=============================================================================
