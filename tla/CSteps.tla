------------------------------- MODULE CSteps -------------------------------
(***************************************************************************)
(* A vocabulary for writing down what a C function of picotls does with    *)
(* the things it must release: memory, key and cipher contexts, reference  *)
(* counts.  A function is a record of the pointers it initialises to NULL, *)
(* the pointers it promises to its caller, its body and the statements     *)
(* after its "Exit:" label; a body is a sequence of the steps below.  The  *)
(* bytes a function computes are left out; every way in which it can fail  *)
(* is kept.  Module Ownership gives the steps their meaning.               *)
(*                                                                         *)
(* Pointers are named by strings.  Consecutive calls of a library whose    *)
(* failures are handled alike are one step.                                *)
(***************************************************************************)
EXTENDS Naturals, Sequences

\* What becomes of the function when a step fails: "goto Exit;", a return
\* of the error, or nothing (the result is not looked at).
ThenExit   == "exit"
ThenReturn == "return"
ThenIgnore == "ignore"

LOCAL Plain == [op |-> "nop", p |-> "", q |-> "", on |-> ThenIgnore,
                known |-> "", then |-> <<>>, else |-> <<>>, proc |-> <<>>]

\* p = malloc(...), X_new(...): a fresh object, or NULL and failure.
Get(p, on) == [Plain EXCEPT !.op = "get", !.p = p, !.on = on]

\* Something that can fail and owns nothing.
Try(on) == [Plain EXCEPT !.op = "try", !.on = on]

\* if (!...) { block }: something that can fail, and what is done then.
OrElse(block) == [Plain EXCEPT !.op = "try", !.then = block]

\* free(p), X_free(p): nothing for NULL; p itself keeps its value.
Free(p) == [Plain EXCEPT !.op = "free", !.p = p]

\* p = NULL.
Clear(p) == [Plain EXCEPT !.op = "clear", !.p = p]

\* q = p: no object changes owner but in the reader's mind.
Copy(q, p) == [Plain EXCEPT !.op = "copy", !.p = p, !.q = q]

\* *p is read or written.
Use(p) == [Plain EXCEPT !.op = "use", !.p = p]

\* X_up_ref(p).
Ref(p) == [Plain EXCEPT !.op = "ref", !.p = p]

\* p = a pointer to something that is not released (a static object, the
\* application's): also the way a flag of the program is raised.
Static(p) == [Plain EXCEPT !.op = "static", !.p = p]

\* assert(p == NULL) and assert(p != NULL).
AssertNull(p) == [Plain EXCEPT !.op = "assert_null", !.p = p]
AssertSet(p)  == [Plain EXCEPT !.op = "assert_set", !.p = p]

\* f(...), and if (f(...) != 0) { block }.
Call(f, on)      == [Plain EXCEPT !.op = "call", !.proc = f, !.on = on]
CallOr(f, block) == [Plain EXCEPT !.op = "call", !.proc = f, !.then = block]

\* ret = <error>; goto Exit;  --  return <error>;  --  return 0;
Fail(on)  == [Plain EXCEPT !.op = "fail", !.on = on]
ReturnOk  == [Plain EXCEPT !.op = "return"]
GotoExit  == [Plain EXCEPT !.op = "exit"]

\* Branches: on a condition that is not modelled, on a pointer, on ret.
Either(then)       == [Plain EXCEPT !.op = "either", !.then = then]
IfSet(p, then)     == [Plain EXCEPT !.op = "if_set", !.p = p, !.then = then]
IfNull(p, then)    == [Plain EXCEPT !.op = "if_set", !.p = p, !.else = then]
IfError(then)      == [Plain EXCEPT !.op = "if_error", !.then = then]
IfOk(then)         == [Plain EXCEPT !.op = "if_error", !.else = then]
Choose(then, else) == [Plain EXCEPT !.op = "either", !.then = then, !.else = else]

\* A step, or a call, whose failures are mishandled in the way named.
Known(name, step) == [step EXCEPT !.known = name]

\* A function: its locals start as NULL, it hands outs to its caller.
Function(locals, outs, body, exit) ==
  [locals |-> locals, outs |-> outs, stale |-> {}, body |-> body, exit |-> exit]

\* The outputs that f releases and does not reset when it fails: its caller
\* must not touch them again.
LeavesStale(names, f) == [f EXCEPT !.stale = names]

\* A function without an Exit label and without pointers of its own.
Simple(body) == Function({}, {}, body, <<>>)
=============================================================================
