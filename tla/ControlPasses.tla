--------------------------- MODULE ControlPasses ----------------------------
(***************************************************************************)
(* The passes of rshooks-build's pipeline that rewrite control flow, on a  *)
(* module of one hook and one helper it may call: flatten inlines the      *)
(* helper, unnest unwraps error ladders to a fixpoint and drops dead code, *)
(* hoist moves guard prologues ahead of the blocks that wrap them, and     *)
(* verify accepts the module or refuses it.                                *)
(*                                                                         *)
(* The bodies are written one fragment at a time, so that every valid pair *)
(* of bodies within the bounds goes through the passes.  What the written  *)
(* module does is kept aside, and compared with what each pass makes of it.*)
(***************************************************************************)
EXTENDS WasmBody, FiniteSetsExt

CONSTANTS
  HookFragment, HelperFragment,  \* what the bodies are written from
  DeadFragment,                  \* those that may follow a terminator
  HelperPrologue,                \* what every helper begins with
  MaxFragments,                  \* bound on the fragments of both bodies
  NestingLimit                   \* NESTING_LIMIT of the upstream checker

VARIABLES
  stage,        \* how far the module has come
  hook,         \* the body of the hook
  helper,       \* the body of the helper the hook calls
  locals,       \* the number of locals of the hook
  fragments,    \* written so far
  left,         \* iterations left to unnest's fixpoint loop
  written       \* what the written module is and does

vars == <<stage, hook, helper, locals, fragments, left, written>>

HelperParams == 1
HelperLocals == 1   \* the helper's own locals, after its parameter
Writing == {"hook", "helper"}
Rewriting == {"flat", "failed", "unnested", "hoisted"}   \* where a pass has changed the hook

(* body with every operator i replaced by the operators F(i).              *)
Replaced(body, F(_)) == FlattenSeq([i \in 1..Len(body) |-> F(i)])

-----------------------------------------------------------------------------
(***************************************************************************)
(* The guard prologue, and where it may stand: guard.rs, guard_hoist.rs.   *)
(***************************************************************************)
IsGuardPrologue(body, at) ==
  /\ at + 2 <= Len(body)
  /\ body[at].op = "const"
  /\ body[at + 1].op = "const" /\ body[at + 1].n # 0
  /\ body[at + 2].op = "_g"

IsHoistablePrologue(body, at) ==
  /\ IsGuardPrologue(body, at)
  /\ at + 3 <= Len(body)
  /\ body[at + 3].op = "drop"

Loops(body) == {i \in 1..Len(body) : body[i].op = "loop"}

(* The first operator after the empty blocks that follow i.                *)
PastBlocks(body, i) ==
  Min({j \in (i + 1)..(Len(body) + 1) : j > Len(body) \/ body[j] # Block(0)})

HoistCandidateOffByOne(body, i) ==  \* mutant
  /\ body[i].op = "loop"
  /\ PastBlocks(body, i) > i + 2
  /\ IsHoistablePrologue(body, PastBlocks(body, i))

HoistCandidate(body, i) ==
  /\ body[i].op = "loop"
  /\ PastBlocks(body, i) > i + 1
  /\ IsHoistablePrologue(body, PastBlocks(body, i))

Hoisted(body) ==
  LET moved == {i \in 1..Len(body) : HoistCandidate(body, i)}
      taken == UNION {(i + 1)..(PastBlocks(body, i) + 3) : i \in moved}
  IN Replaced(body, LAMBDA i :
       IF i \in moved
       THEN LET j == PastBlocks(body, i)
            IN <<body[i]>> \o SubSeq(body, j, j + 3) \o SubSeq(body, i + 1, j - 1)
       ELSE IF i \in taken THEN <<>> ELSE <<body[i]>>)

-----------------------------------------------------------------------------
(***************************************************************************)
(* flatten: the helper's body in place of its calls.                       *)
(***************************************************************************)
(* A branch that leaves every frame of the body has the meaning of return. *)
LeavesFunction(body, nest, i) ==
  body[i].op \in {"br", "br_if", "br_table"} /\ \E d \in Depths(body[i]) : d >= Len(nest[i])

ReturnShapeByReturns(body) ==  \* mutant
  LET returns == {i \in 1..Len(body) : body[i].op = "return"}
  IN CASE returns = {} -> "NoReturn"
       [] returns = {Len(body) - 1} /\ Nest(body)[Len(body) - 1] = <<>> -> "TrailingOnly"
       [] OTHER -> "NeedsWrapper"

ReturnShape(body) ==
  LET nest == Nest(body)
      returns == {i \in 1..Len(body) : body[i].op = "return"}
  IN CASE \E i \in 1..Len(body) : LeavesFunction(body, nest, i) -> "NeedsWrapper"
       [] returns = {} -> "NoReturn"
       [] returns = {Len(body) - 1} /\ nest[Len(body) - 1] = <<>> -> "TrailingOnly"
       [] OTHER -> "NeedsWrapper"

Remapped(i, arg, extra) ==
  IF i.op \in {"local.get", "local.set"}
  THEN [i EXCEPT !.n = IF @ < HelperParams THEN arg + @ ELSE extra + @ - HelperParams]
  ELSE i

(* The helper's body, its parameter at local arg and its own from extra.   *)
Spliced(body, arg, extra) ==
  LET nest == Nest(body)
      shape == ReturnShape(body)
      kept == Len(body) - CASE shape = "NoReturn" -> 1 [] shape = "TrailingOnly" -> 2
                            [] OTHER -> 0
      wrapped == shape = "NeedsWrapper"
      Moved(i) == IF wrapped /\ body[i].op = "return" THEN Br(Len(nest[i]))
                  ELSE Remapped(body[i], arg, extra)
  IN <<LocalSet(arg)>> \o (IF wrapped THEN <<Block(HelperResults)>> ELSE <<>>)
       \o [i \in 1..kept |-> Moved(i)]

(* Each call site gets locals of its own.                                  *)
Flattened(body, callee, n) ==
  FoldLeft(LAMBDA acc, i :
             IF i.op = "helper"
             THEN [body |-> acc.body \o Spliced(callee, acc.locals, acc.locals + HelperParams),
                   locals |-> acc.locals + HelperParams + HelperLocals]
             ELSE [acc EXCEPT !.body = Append(@, i)],
           [body |-> <<>>, locals |-> n], body)

-----------------------------------------------------------------------------
(***************************************************************************)
(* unnest: branches to a diverging tail replaced by the tail, blocks that  *)
(* nothing names removed.                                                  *)
(***************************************************************************)
(* Frames that a br_table names or lies in, whose depths it would change.  *)
UnsafeFrames(body, nest) ==
  UNION {Range(nest[i]) : i \in {j \in 1..Len(body) : body[j].op = "br_table"}}

Allowed(i) == i.op \in {"const", "local.get", "drop"} \cup Imports

ExtractTailUnchecked(body, from) ==  \* mutant
  LET last == Min({j \in from..(Len(body) + 1) : j > Len(body) \/ ~Allowed(body[j])})
  IN IF last <= Len(body) /\ body[last].op = "unreachable"
     THEN SubSeq(body, from, last) ELSE <<>>

(* The operators from there to an unreachable, if they need no operand but *)
(* those they push themselves; <<>> if they do.                            *)
ExtractTail(body, from) ==
  LET last == Min({j \in from..(Len(body) + 1) : j > Len(body) \/ ~Allowed(body[j])})
      tail == SubSeq(body, from, last)
  IN IF /\ last <= Len(body)
        /\ body[last].op = "unreachable"
        /\ Check(0, tail).ok
     THEN tail ELSE <<>>

TailOfUnsafe(body, nest, start) ==  \* mutant
  IF start # 0 /\ body[start] = Block(0)
  THEN ExtractTail(body, Closer(body, nest, start, "end") + 1)
  ELSE <<>>

(* The tail a branch to the frame opened at start may be replaced by.      *)
TailOf(body, nest, start) ==
  IF /\ start # 0
     /\ body[start] = Block(0)
     /\ start \notin UnsafeFrames(body, nest)
  THEN ExtractTail(body, Closer(body, nest, start, "end") + 1)
  ELSE <<>>

RewrittenTwice(body) ==  \* mutant
  LET nest == Nest(body)
      Continuation(i) == TailOf(body, nest, TargetOf(nest, i, body[i].n))
  IN Replaced(body, LAMBDA i :
       IF body[i].op = "br" THEN Continuation(i) \o <<body[i]>>
       ELSE IF body[i].op = "br_if" /\ Continuation(i) # <<>>
       THEN <<Op("if")>> \o Continuation(i) \o <<Op("end")>>
       ELSE <<body[i]>>)

Rewritten(body) ==
  LET nest == Nest(body)
      Continuation(i) == TailOf(body, nest, TargetOf(nest, i, body[i].n))
  IN Replaced(body, LAMBDA i :
       IF body[i].op = "br" /\ Continuation(i) # <<>> THEN Continuation(i)
       ELSE IF body[i].op = "br_if" /\ Continuation(i) # <<>>
       THEN <<Op("if")>> \o Continuation(i) \o <<Op("end")>>
       ELSE <<body[i]>>)

Removable(body, nest) ==
  LET referenced == {TargetOf(nest, i, body[i].n) :
                       i \in {j \in 1..Len(body) : body[j].op \in {"br", "br_if"}}}
  IN {s \in Starts(body) : /\ body[s] = Block(0)
                           /\ s \notin referenced
                           /\ s \notin UnsafeFrames(body, nest)}

(* The frames removed between a branch at i and its target.                *)
Crossed(nest, i, depth, removed) ==
  Cardinality({k \in 1..Len(nest[i]) : /\ k > Len(nest[i]) - depth
                                       /\ nest[i][k] \in removed})

Unwrapped(body, nest, removed) ==
  LET gone == removed \cup {Closer(body, nest, s, "end") : s \in removed}
  IN Replaced(body, LAMBDA i :
       IF i \in gone THEN <<>>
       ELSE IF body[i].op \in {"br", "br_if"}
       THEN << [body[i] EXCEPT !.n = @ - Crossed(nest, i, @, removed)] >>
       ELSE <<body[i]>>)

(* What one iteration of the fixpoint loop makes of the body.              *)
Unnested(body) ==
  LET rewritten == Rewritten(body)
      nest == Nest(rewritten)
  IN Unwrapped(rewritten, nest, Removable(rewritten, nest))

(* Everything between a terminator and the end or else of its frame.       *)
DeadStep(acc, i) ==
  CASE acc.skip > 0 -> [acc EXCEPT !.skip = CASE i.op \in Openers -> @ + 1
                                              [] i.op = "end" -> @ - 1
                                              [] OTHER -> @]
    [] acc.skip = 0 /\ i.op \in {"else", "end"} ->
         [acc EXCEPT !.body = Append(@, i), !.dead = FALSE]
    [] acc.skip = 0 /\ i.op \notin {"else", "end"} /\ acc.dead ->
         [acc EXCEPT !.skip = IF i.op \in Openers THEN 1 ELSE 0]
    [] OTHER -> [acc EXCEPT !.body = Append(@, i), !.dead = i.op \in Terminators]

WithoutDeadCode(body) ==
  FoldLeft(DeadStep, [body |-> <<>>, dead |-> FALSE, skip |-> 0], body).body

-----------------------------------------------------------------------------
(***************************************************************************)
(* Writing the module.  A fragment may be added if what is written so far  *)
(* stays the beginning of a valid body that the bound lets come to its end.*)
(***************************************************************************)
Module ==
  [hook |-> Function(0, locals, 0, hook),
   helper |-> Function(HelperParams, HelperLocals, HelperResults, helper)]

Extends(results, body, fragment) ==
  LET before == Check(results, body)
      after == CheckedAll(before, fragment)
  IN /\ fragment \in DeadFragment \/ ~Last(before.frames).dead
     /\ after.ok
     /\ Len(after.frames) \in 1..(MaxFragments - fragments)

Calls(body) == \E i \in 1..Len(body) : body[i].op = "helper"

Init ==
  /\ stage = "hook"
  /\ hook = <<>>
  /\ helper = HelperPrologue
  /\ locals = 1
  /\ fragments = 0
  /\ left = 0
  /\ written = <<>>

WriteHook(fragment) ==
  /\ stage = "hook"
  /\ fragments < MaxFragments
  /\ Extends(0, hook, fragment)
  /\ hook' = hook \o fragment
  /\ fragments' = fragments + 1
  /\ UNCHANGED <<stage, helper, locals, left, written>>

WriteHelper(fragment) ==
  /\ stage = "helper"
  /\ fragments < MaxFragments
  /\ Extends(HelperResults, helper, fragment)
  /\ helper' = helper \o fragment
  /\ fragments' = fragments + 1
  /\ UNCHANGED <<stage, hook, locals, left, written>>

(* The first operator a loop runs that is not the opening of a block.      *)
GuardFirst(body, i) ==
  \/ IsGuardPrologue(body, i + 1)
  \/ IsHoistablePrologue(body, PastBlocks(body, i))

Guarded(body) == \A i \in Loops(body) : GuardFirst(body, i)

(* Nothing lies below the operands of a trailing return, as in LLVM's code. *)
(* Wasm lets a return drop what does; a spliced body would keep it.        *)
TidyReturn(body) ==
  Len(body) > 1 /\ body[Len(body) - 1].op = "return" =>
    Check(HelperResults, SubSeq(body, 1, Len(body) - 2)).height <= HelperResults

Finish ==
  LET done == [Module EXCEPT !.hook.body = IF stage = "hook" THEN Append(@, Op("end")) ELSE @,
                             !.helper.body = Append(@, Op("end"))]
  IN /\ stage = "helper" \/ (stage = "hook" /\ ~Calls(hook))
     /\ Valid(0, done.hook.body)
     /\ Calls(hook) => /\ Valid(HelperResults, done.helper.body)
                       /\ TidyReturn(done.helper.body)
     /\ stage' = "written"
     /\ hook' = done.hook.body
     /\ helper' = done.helper.body
     /\ written' = [behaviour |-> Behaviour(done),
                    guarded |-> Guarded(done.hook.body) /\ Guarded(done.helper.body)]
     /\ UNCHANGED <<locals, fragments, left>>

TurnToHelper ==
  /\ stage = "hook"
  /\ Calls(hook)
  /\ Valid(0, Append(hook, Op("end")))
  /\ stage' = "helper"
  /\ hook' = Append(hook, Op("end"))
  /\ UNCHANGED <<helper, locals, fragments, left, written>>

-----------------------------------------------------------------------------
(***************************************************************************)
(* The pipeline: run_pipeline.                                             *)
(***************************************************************************)
Flatten ==
  /\ stage = "written"
  /\ LET flat == Flattened(hook, helper, locals)
     IN /\ hook' = flat.body
        /\ locals' = flat.locals
        /\ left' = 2 * Len(flat.body) + 16
  /\ stage' = "flat"
  /\ helper' = <<>>
  /\ fragments' = 0
  /\ UNCHANGED written

(* One iteration of unnest_function; the loop ends when one changes nothing. *)
Iterate ==
  /\ stage = "flat"
  /\ hook' = Unnested(hook)
  /\ left' = IF hook' = hook THEN 0 ELSE left - 1
  /\ stage' = IF hook' = hook THEN "settled" ELSE IF left = 1 THEN "failed" ELSE stage
  /\ UNCHANGED <<helper, locals, fragments, written>>

Pass(from, to, body) ==
  /\ stage = from
  /\ stage' = to
  /\ hook' = body
  /\ UNCHANGED <<helper, locals, fragments, left, written>>

DropDeadCode == Pass("settled", "unnested", WithoutDeadCode(hook))

Hoist == Pass("unnested", "hoisted", Hoisted(hook))

Accepted(body) ==
  /\ \A i \in Loops(body) : IsGuardPrologue(body, i + 1)
  /\ MaxNesting(body) <= NestingLimit

Verify == Pass("hoisted", IF Accepted(hook) THEN "accepted" ELSE "refused", hook)

Next ==
  \/ \E f \in HookFragment : WriteHook(f)
  \/ \E f \in HelperFragment : WriteHelper(f)
  \/ TurnToHelper
  \/ Finish
  \/ Flatten
  \/ Iterate
  \/ DropDeadCode
  \/ Hoist
  \/ Verify

Spec == Init /\ [][Next]_vars

-----------------------------------------------------------------------------
(***************************************************************************)
(* Properties.                                                             *)
(***************************************************************************)
(* Every pass leaves a body that wasm's validation accepts: no operand is  *)
(* taken from where the rewriting left none, and no branch leaves the      *)
(* function that did not before.                                           *)
StaysValid == stage \in Rewriting => Valid(0, hook)

(* Whatever the host answers, the module makes the calls the written one   *)
(* made and ends as it ended, after each pass of flatten, unnest and hoist.*)
BehaviourKept == stage \in Rewriting => Behaviour(Module) = written.behaviour

(* Unwrapping a ladder never nests the code deeper, though every rewritten *)
(* br_if opens an if of its own: a module within the checker's limit       *)
(* before unnest is not pushed over it by the later passes.                *)
NestingNeverGrows ==
  [][stage \notin Writing \cup {"written"} => MaxNesting(hook') <= MaxNesting(hook)]_vars

(* Each iteration that changes the body leaves fewer branches and blocks:  *)
(* the fixpoint loop ends within its bound.                                *)
Burden(body) == Cardinality({i \in 1..Len(body) : body[i].op \in {"br", "br_if", "block"}})
IterationsShrink ==
  [][stage = "flat" /\ hook' # hook => stage' # "failed" /\ Burden(hook') < Burden(hook)]_vars

(* A module is refused for its loops only if one of them really runs       *)
(* something before its guard: no pass separates a loop from its guard.    *)
GuardsKept ==
  stage = "refused" => ~written.guarded \/ MaxNesting(hook) > NestingLimit

=============================================================================
