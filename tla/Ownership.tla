------------------------------ MODULE Ownership ------------------------------
(***************************************************************************)
(* Who must release what.  picotls is C: every function that can fail has  *)
(* a path out of it for each failure, and each path must release what was  *)
(* obtained so far, once, and hand to the caller nothing that is gone.     *)
(* Few of those paths are ever run by a test: they need malloc or a call   *)
(* of the cryptographic library to fail at one particular point.           *)
(*                                                                         *)
(* This module executes programs written in the vocabulary of CSteps, one  *)
(* step at a time, over a heap of reference-counted objects; wherever a    *)
(* step can fail, both outcomes are explored.                              *)
(***************************************************************************)
EXTENDS CSteps, FiniteSets, TLC

CONSTANTS Programs,      \* the programs: a set of functions
          KnownDefects,  \* failures whose handling is known to be wrong, and
                         \* that are therefore not made to happen
          MaxObjects     \* how many objects there can be at a time

VARIABLES
  stack,    \* the calls in progress, the innermost last
  ptr,      \* the pointers that are not NULL: a function to objects
  heap,     \* the reference count of every object
  fault     \* what went wrong, if anything

vars == <<stack, ptr, heap, fault>>

Null == 0

\* Object 1 stands for what is never released.
Eternal == 1

Value(p) == IF p \in DOMAIN ptr THEN ptr[p] ELSE Null

Alive(o) == o # Null /\ heap[o] > 0

Top == stack[Len(stack)]

Step == Head(Top.todo)

\* A call of f: on and handler say what the caller does when it fails, known
\* are the defects its failures would meet.
Frame(f, on, handler, known) ==
  [todo |-> f.body, exit |-> f.exit, locals |-> f.locals \ f.outs, outs |-> f.outs,
   stale |-> f.stale, err |-> FALSE, on |-> on, handler |-> handler, known |-> known]

NullExcept(names) == [p \in DOMAIN ptr \ names |-> ptr[p]]

Init ==
  /\ \E f \in Programs : stack = <<Frame(f, ThenIgnore, <<>>, {})>>
  /\ ptr = [p \in {} |-> Null]
  /\ heap = [o \in 1..MaxObjects |-> IF o = Eternal THEN 1 ELSE 0]
  /\ fault = "none"
-----------------------------------------------------------------------------
Finished == stack = <<>>

Running(op) ==
  /\ ~ Finished
  /\ fault = "none"
  /\ Top.todo # <<>>
  /\ Step.op = op

WithTop(frame) == [stack EXCEPT ![Len(stack)] = frame]

Advance == WithTop([Top EXCEPT !.todo = Tail(@)])

Block(steps) == WithTop([Top EXCEPT !.todo = steps \o Tail(@)])

\* The frame after an error it handles in the manner of on.
Failing(frame, on) ==
  CASE on = ThenExit   -> [frame EXCEPT !.todo = frame.exit, !.exit = <<>>,
                                        !.err = TRUE]
    [] on = ThenReturn -> [frame EXCEPT !.todo = <<>>, !.exit = <<>>,
                                        !.err = TRUE]
    [] on = ThenIgnore -> frame

Fails == stack' = WithTop(Failing([Top EXCEPT !.todo = Tail(@)], Step.on))

\* A failure that may happen in this run.
Met == Top.known \cup {Step.known}
MayFail == Met \cap KnownDefects = {}

Set(p, o) == ptr' = IF o = Null THEN NullExcept({p}) ELSE (p :> o) @@ ptr

\* The objects that are gone and that no pointer names any more: the numbers
\* a new object may get.
Forgotten == {o \in DOMAIN heap : heap[o] = 0 /\ \A p \in DOMAIN ptr : ptr[p] # o}

get ==
  /\ Running("get")
  /\ \/ /\ fault' = IF Forgotten = {} THEN "MaxObjects is too small" ELSE fault
        /\ \E o \in 1..MaxObjects :
             /\ Forgotten # {} => o \in Forgotten /\ \A x \in Forgotten : o <= x
             /\ heap' = [heap EXCEPT ![o] = 1]
             /\ Set(Step.p, o)
        /\ stack' = Advance
     \/ /\ MayFail
        /\ Set(Step.p, Null)
        /\ Fails
        /\ UNCHANGED <<heap, fault>>

try ==
  /\ Running("try")
  /\ \/ stack' = Advance
     \/ MayFail /\ Step.then = <<>> /\ Fails
     \/ MayFail /\ Step.then # <<>> /\ stack' = Block(Step.then)
  /\ UNCHANGED <<ptr, heap, fault>>

fail ==
  /\ Running("fail")
  /\ Fails
  /\ UNCHANGED <<ptr, heap, fault>>

free ==
  /\ Running("free")
  /\ LET o == Value(Step.p) IN
     CASE o = Null -> UNCHANGED <<heap, fault>>
       [] o # Null /\ o # Eternal /\ Alive(o) ->
            /\ heap' = [heap EXCEPT ![o] = @ - 1]
            /\ UNCHANGED fault
       [] OTHER -> fault' = "freed twice" /\ UNCHANGED heap
  /\ stack' = Advance
  /\ UNCHANGED ptr

ref ==
  /\ Running("ref")
  /\ LET o == Value(Step.p) IN
     IF Alive(o) THEN /\ heap' = [heap EXCEPT ![o] = @ + 1]
                      /\ UNCHANGED fault
                 ELSE fault' = "used after free" /\ UNCHANGED heap
  /\ stack' = Advance
  /\ UNCHANGED ptr

use ==
  /\ Running("use")
  /\ fault' = IF Alive(Value(Step.p)) THEN fault
              ELSE IF Value(Step.p) = Null THEN "NULL dereferenced"
                                           ELSE "used after free"
  /\ stack' = Advance
  /\ UNCHANGED <<ptr, heap>>

assert ==
  /\ \/ Running("assert_null") /\ fault' = IF Value(Step.p) = Null THEN fault
                                           ELSE "assertion"
     \/ Running("assert_set")  /\ fault' = IF Value(Step.p) # Null THEN fault
                                           ELSE "assertion"
  /\ stack' = Advance
  /\ UNCHANGED <<ptr, heap>>

assign ==
  /\ \/ Running("clear")  /\ Set(Step.p, Null)
     \/ Running("copy")   /\ Set(Step.q, Value(Step.p))
     \/ Running("static") /\ Set(Step.p, Eternal)
  /\ stack' = Advance
  /\ UNCHANGED <<heap, fault>>

branch ==
  /\ \/ Running("either") /\ (\/ stack' = Block(Step.then)
                              \/ stack' = Block(Step.else))
     \/ Running("if_set") /\ stack' = Block(IF Value(Step.p) # Null THEN Step.then
                                                                  ELSE Step.else)
     \/ Running("if_error") /\ stack' = Block(IF Top.err THEN Step.then
                                                         ELSE Step.else)
  /\ UNCHANGED <<ptr, heap, fault>>

goto ==
  /\ \/ /\ Running("exit")
        /\ stack' = WithTop([Top EXCEPT !.todo = Top.exit, !.exit = <<>>])
     \/ /\ Running("return")
        /\ stack' = WithTop([Top EXCEPT !.todo = <<>>, !.exit = <<>>])
  /\ UNCHANGED <<ptr, heap, fault>>

call ==
  /\ Running("call")
  /\ stack' = Append(Advance, Frame(Step.proc, Step.on, Step.then, Met))
  /\ ptr' = NullExcept(Step.proc.locals)
  /\ UNCHANGED <<heap, fault>>

\* The end of the body: what follows the Exit label, or the caller.
fall_through ==
  /\ ~ Finished /\ fault = "none"
  /\ Top.todo = <<>> /\ Top.exit # <<>>
  /\ stack' = WithTop([Top EXCEPT !.todo = Top.exit, !.exit = <<>>])
  /\ UNCHANGED <<ptr, heap, fault>>

Returning == ~ Finished /\ fault = "none" /\ Top.todo = <<>> /\ Top.exit = <<>>

return ==
  /\ Returning
  /\ LET callers == SubSeq(stack, 1, Len(stack) - 1)
         n == Len(callers) IN
     stack' = IF n = 0 \/ ~ Top.err THEN callers
              ELSE [callers EXCEPT ![n] =
                      Failing([@ EXCEPT !.todo = Top.handler \o @], Top.on)]
  /\ ptr' = NullExcept(Top.locals)
  /\ UNCHANGED <<heap, fault>>

Next ==
  \/ get \/ try \/ fail \/ free \/ ref \/ use \/ assert \/ assign
  \/ branch \/ goto \/ call \/ fall_through \/ return

Spec == Init /\ [][Next]_vars
-----------------------------------------------------------------------------
(***************************************************************************)
(* The types; no object ever has more than two owners (a key shared by the *)
(* application and a signer, the certificate store): a reference taken and *)
(* forgotten would show as a third.                                        *)
(***************************************************************************)
TypeOK ==
  /\ heap \in [1..MaxObjects -> 0..2]
  /\ heap[Eternal] = 1
  /\ \A p \in DOMAIN ptr : ptr[p] \in 1..MaxObjects
  /\ \A i \in DOMAIN stack : stack[i].on \in {ThenExit, ThenReturn, ThenIgnore}

(***************************************************************************)
(* No path releases an object twice, reads or writes through a NULL or a   *)
(* dangling pointer, or fails an assert(), whichever of the steps on it    *)
(* fail, the failures in KnownDefects excepted: those are mishandled, and  *)
(* are not made to happen.  The outputs that failed functions leave        *)
(* dangling are still there, and nobody touches them.                      *)
(***************************************************************************)
NoFault == fault = "none"

(***************************************************************************)
(* When the program is over every object it obtained has been released.    *)
(***************************************************************************)
NoLeak == Finished => \A o \in 1..MaxObjects \ {Eternal} : heap[o] = 0

(***************************************************************************)
(* The contract of functions that hand objects to their caller, which many *)
(* callers rely upon by releasing them in their own Exit: after success    *)
(* every one of them is there, and after a failure none of them points to  *)
(* something that has been released.  Three functions do not keep the      *)
(* second half (cipher_setup_crypto, ptls_init_compressed_certificate and  *)
(* ptls_esni_init_context, see LeavesStale): they release their outputs    *)
(* and leave the pointers as they are.                                     *)
(***************************************************************************)
OutputsOwned ==
  Returning => \A p \in Top.outs :
                 IF Top.err THEN p \notin Top.stale => Value(p) = Null \/ Alive(Value(p))
                            ELSE Alive(Value(p))
=============================================================================
