------------------------------- MODULE Driver -------------------------------
(***************************************************************************)
(* The compiler as a process (src/main.cpp, src/util.h, and writeIR and    *)
(* writeObject of src/codegen.cpp) and the script that compiles, links and *)
(* runs a source with it (run.sh).  Jobs of both kinds run side by side on *)
(* one file system, in which sources come, go and change, and which keeps  *)
(* what jobs leave behind; any job can be killed, and any file can fail to *)
(* open or to be written.  What the passes make of a text (Lexer, Parser,  *)
(* Sema, CodeGen) is given by the constants Rejected and Linkable.          *)
(***************************************************************************)
EXTENDS Naturals, Sequences, SequencesExt

CONSTANTS
  Jobs,        \* the processes
  Calls,       \* what they may be called with: [script, args]
  Sources,     \* the paths of source files
  Basename,    \* for each of them `basename $SOURCE .aur`
  Outputs,     \* the paths of all other files
  Contents,    \* what a source file may hold
  Empty,       \* the text without a character
  Rejected,    \* the texts that end in fatal() or an exception
  Linkable     \* the texts whose object has a main, and a body for all it calls

ASSUME ContentsAssumption ==
  /\ Empty \in Contents \ (Rejected \cup Linkable)
  /\ Rejected \subseteq Contents /\ Linkable \subseteq Contents \ Rejected
  /\ Basename \in [Sources -> STRING]
  /\ Sources \cap Outputs = {}

VARIABLES
  fs,          \* the file system
  call,        \* what each job was called with
  pc,          \* where it is
  text,        \* the source it has read
  crossed,     \* the jobs that ran while another one did with the same outputs
  struck       \* the jobs that were killed, or an operation of which failed

vars == <<fs, call, pc, text, crossed, struck>>

(* files: not there; opened for writing, and empty, cut off or mixed up;   *)
(* or whole, and of which text                                             *)
None == [k |-> "none", of |-> Empty]
Torn == [k |-> "torn", of |-> Empty]
File(k, c) == [k |-> k, of |-> c]

-----------------------------------------------------------------------------
(* main(): the options, behind the path of the source.  A flag that is the *)
(* last argument is ignored, and so is what follows no flag.               *)
Flags == {"-o", "--emit-ll"}

TakeFirst(o, a) ==                                                          \* mutant
  CASE o.flag = "-o" -> [o EXCEPT !.obj = IF @ = "" THEN a ELSE @, !.flag = ""]
    [] o.flag = "--emit-ll" -> [o EXCEPT !.ll = a, !.flag = ""]
    [] OTHER -> [o EXCEPT !.flag = IF a \in Flags THEN a ELSE ""]
Take(o, a) ==
  CASE o.flag = "-o" -> [o EXCEPT !.obj = a, !.flag = ""]
    [] o.flag = "--emit-ll" -> [o EXCEPT !.ll = a, !.flag = ""]
    [] OTHER -> [o EXCEPT !.flag = IF a \in Flags THEN a ELSE ""]
Options(argv) == FoldLeft(Take, [flag |-> "", obj |-> "", ll |-> ""], Tail(argv))

(* run.sh: how it calls the compiler *)
Build(c, suffix) == "build/" \o Basename[c.args[1]] \o suffix
Argv(c) == IF c.script THEN <<c.args[1], "-o", Build(c, ".o"), "--emit-ll", Build(c, ".ll")>> ELSE c.args

Source(c) == c.args[1]
Obj(c) == Options(Argv(c)).obj
LL(c) == Options(Argv(c)).ll
Exe(c) == Build(c, "")
Written(c) == ({Obj(c), LL(c)} \cup IF c.script THEN {Exe(c)} ELSE {}) \ {""}

(* a process is called with a list of strings                              *)
ASSUME CallsAssumption == \A c \in Calls : c.args \in Seq(STRING)

(* run.sh line 4, and main() up to the check of outObj *)
Enough(c) == Len(c.args) >= IF c.script THEN 1 ELSE 2
NotEnough(c) == ~Enough(c)                                                  \* mutant
Refused(c) == Enough(c) => Obj(c) = ""

(* nobody writes over a source, and the script's files are different ones  *)
ASSUME PathsAssumption ==
  \A c \in Calls : ~Refused(c) =>
    /\ Written(c) \subseteq Outputs
    /\ c.script => Exe(c) \notin {"", Obj(c), LL(c)}

-----------------------------------------------------------------------------
Active == {"slurp", "openIR", "printIR", "openObj", "emitObj", "link", "run"}

Init ==
  /\ fs \in [Sources -> {None} \cup {File("source", c) : c \in Contents}]
  /\ call \in [Jobs -> Calls]
  /\ pc = [j \in Jobs |-> "idle"]
  /\ text = [j \in Jobs |-> Empty]
  /\ crossed = {}
  /\ struck = {}

(* fs holds the files that are there, or were once *)
Get(p) == IF p \in DOMAIN fs THEN fs[p] ELSE None
Put(p, file) == fs' = [q \in DOMAIN fs \cup {p} |-> IF q = p THEN file ELSE fs[q]]
Goto(j, l) == pc' = [pc EXCEPT ![j] = l]

Begin(j) ==
  /\ pc[j] = "idle"
  /\ \/ Refused(call[j]) /\ Goto(j, "failed") /\ UNCHANGED crossed
     \/ /\ ~Refused(call[j])
        /\ Goto(j, "slurp")
        /\ LET others == {k \in Jobs \ {j} : /\ pc[k] \in Active
                                            /\ Written(call[k]) \cap Written(call[j]) # {}}
           IN  crossed' = crossed \cup others \cup IF others = {} THEN {} ELSE {j}
  /\ UNCHANGED <<fs, call, text, struck>>

(* slurp(), and all passes: a stream on a file that is not there or cannot *)
(* be opened has no characters                                             *)
Compile(j) ==
  /\ pc[j] = "slurp"
  /\ \E c \in {Get(Source(call[j])).of, Empty} :
         /\ text' = [text EXCEPT ![j] = c]
         /\ Goto(j, IF c \in Rejected THEN "failed" ELSE IF LL(call[j]) # "" THEN "openIR" ELSE "openObj")
  /\ UNCHANGED <<fs, call, crossed, struck>>

(* a file opened for writing is there and empty *)
Open(j, p, l) ==
  /\ Put(p, Torn)
  /\ Goto(j, l)
  /\ UNCHANGED <<call, text, crossed, struck>>

(* what is written lands in what others that have it open have written *)
Write(j, p, k, l) ==
  /\ Put(p, IF Get(p) \in {Torn, File(k, text[j])} THEN File(k, text[j]) ELSE Torn)
  /\ Goto(j, l)
  /\ UNCHANGED <<call, text, crossed, struck>>

OpenIR(j) == pc[j] = "openIR" /\ Open(j, LL(call[j]), "printIR")
PrintIR(j) == pc[j] = "printIR" /\ Write(j, LL(call[j]), "ll", "openObj")
OpenNewObj(j) ==                                                            \* mutant
  /\ pc[j] = "openObj"
  /\ IF Get(Obj(call[j])) = None THEN Open(j, Obj(call[j]), "emitObj")
     ELSE Goto(j, "failed") /\ UNCHANGED <<fs, call, text, crossed, struck>>
OpenObj(j) == pc[j] = "openObj" /\ Open(j, Obj(call[j]), "emitObj")
EmitObj(j) == pc[j] = "emitObj" /\ Write(j, Obj(call[j]), "obj", IF call[j].script THEN "link" ELSE "done")

(* clang, which needs a whole object without an undefined symbol, that of  *)
(* main included, and otherwise may remove an old program or not           *)
Links(j) == Get(Obj(call[j])).k = "obj" /\ Get(Obj(call[j])).of \in Linkable
LinkUnchecked(j) ==                                                         \* mutant
  /\ pc[j] = "link"
  /\ Put(Exe(call[j]), IF Links(j) THEN File("exe", Get(Obj(call[j])).of) ELSE Get(Exe(call[j])))
  /\ Goto(j, "run")
  /\ UNCHANGED <<call, text, crossed, struck>>
Link(j) ==
  /\ pc[j] = "link"
  /\ \/ /\ Links(j)
        /\ Put(Exe(call[j]), File("exe", Get(Obj(call[j])).of))
        /\ Goto(j, "run")
     \/ /\ ~Links(j)
        /\ \E old \in {Get(Exe(call[j])), None} : Put(Exe(call[j]), old)
        /\ Goto(j, "failed")
  /\ UNCHANGED <<call, text, crossed, struck>>

(* the program itself *)
Run(j) ==
  /\ pc[j] = "run"
  /\ Goto(j, "done")
  /\ UNCHANGED <<fs, call, text, crossed, struck>>

(* The job is killed, or what it was about to do fails: then fatal(), or   *)
(* the destructor of the stream, or clang, ends it.                        *)
Strike(j) ==
  /\ pc[j] \in Active
  /\ struck' = struck \cup {j}
  /\ Goto(j, "failed")
  /\ \/ UNCHANGED fs
     \/ pc[j] = "printIR" /\ Put(LL(call[j]), Torn)
     \/ pc[j] = "emitObj" /\ Put(Obj(call[j]), Torn)
     \/ pc[j] = "link" /\ \E f \in {None, Torn} : Put(Exe(call[j]), f)
  /\ UNCHANGED <<call, text, crossed>>

(* someone edits or removes a source *)
Edit ==
  /\ \E s \in Sources, f \in {None} \cup {File("source", c) : c \in Contents} : Put(s, f)
  /\ UNCHANGED <<call, pc, text, crossed, struck>>

Step(j) == Begin(j) \/ Compile(j) \/ OpenIR(j) \/ PrintIR(j) \/ OpenObj(j) \/ EmitObj(j) \/ Link(j) \/ Run(j)

Next == Edit \/ \E j \in Jobs : Step(j) \/ Strike(j)

Spec == Init /\ [][Next]_vars

-----------------------------------------------------------------------------
TypeOK ==
  /\ Sources \subseteq DOMAIN fs /\ DOMAIN fs \subseteq Sources \cup Outputs
  /\ \A p \in DOMAIN fs : fs[p].of \in Contents /\ fs[p].k \in {"none", "torn", "source", "ll", "obj", "exe"}
  /\ \A p \in Sources : fs[p].k \in {"none", "source"}
  /\ \A j \in Jobs : pc[j] \in Active \cup {"idle", "done", "failed"} /\ text[j] \in Contents
  /\ crossed \subseteq Jobs /\ struck \subseteq Jobs

(* What the script runs is the program of the source it has read, whatever *)
(* earlier jobs have left behind, however they ended, whoever edits or     *)
(* removes the source meanwhile, and even if it cannot be read; unless it  *)
(* ran beside another one whose source has the same name.                  *)
RunsItsSource ==
  \A j \in Jobs : pc[j] = "run" /\ j \notin crossed =>
    Get(Exe(call[j])) = File("exe", text[j]) /\ text[j] \in Linkable

(* The arguments that are options are the flags that do not stand behind   *)
(* one as its value: the order of argv, with none of reading it.  Of two   *)
(* options of one name the last one counts that has a value.               *)
AreOptions(argv, s) ==
  \A n \in 2 .. Len(argv) : n \in s <=> argv[n] \in Flags /\ n-1 \notin s

Gives(argv, s, flag, n) == n-1 \in s /\ argv[n-1] = flag
GivesLast(argv, s, flag, n) ==
  Gives(argv, s, flag, n) /\ \A m \in n+1 .. Len(argv) : ~Gives(argv, s, flag, m)

(* An exit status of 0 means a whole object of the text that was read,     *)
(* under the name that the last -o gives, and beside it, if the last       *)
(* --emit-ll names another file, a whole listing of the same text there.   *)
CompiledWhole ==
  [][\A j \in Jobs :
       pc[j] = "emitObj" /\ pc'[j] \in {"link", "done"} /\ j \notin crossed =>
         LET argv == Argv(call[j])
             Whole(n, k) == argv[n] \in DOMAIN fs' /\ fs'[argv[n]] = File(k, text[j])
         IN  \E options \in SUBSET (2 .. Len(argv)), o \in 3 .. Len(argv) :
               /\ AreOptions(argv, options)
               /\ GivesLast(argv, options, "-o", o) /\ Whole(o, "obj")
               /\ \A n \in 3 .. Len(argv) :
                    GivesLast(argv, options, "--emit-ll", n) /\ argv[n] \notin {"", argv[o]} =>
                      Whole(n, "ll")]_vars

(* Only a reason of its own makes a job fail: files left behind torn, or   *)
(* of other texts, by jobs that were killed or failed, never do.           *)
FailsForAReason ==
  \A j \in Jobs : pc[j] = "failed" =>
    \/ j \in struck \cup crossed
    \/ Refused(call[j])
    \/ text[j] \in Rejected
    \/ call[j].script /\ text[j] \notin Linkable
=============================================================================
