------------------------------ MODULE WasmBody ------------------------------
(***************************************************************************)
(* Bodies of wasm functions as the build pipeline sees them: flat          *)
(* sequences of operators whose blocks, loops and ifs are matched by       *)
(* counting ends, with branches that name their target by relative depth.  *)
(*                                                                         *)
(* An operator is a record of its name and one immediate: the value of a   *)
(* const, the index of a local, the depth of a branch, the number of       *)
(* results of a block.  The data are one type of small integers.  A call   *)
(* of an import is an operator of its own: read (no argument, one result   *)
(* chosen by the host), obs and rollback (one argument), _g (two arguments,*)
(* one result); helper calls the one defined function that is not an       *)
(* entry.  br_table n has the targets 0 (index 0) and n (the default).     *)
(*                                                                         *)
(* Valid and Behaviour are the reference the passes are held to: wasm's    *)
(* validation, and what a run shows to the host.                           *)
(***************************************************************************)
EXTENDS Integers, Sequences, SequencesExt, FiniteSets

CONSTANTS
  HelperResults,    \* 0 or 1 results of the helper, which has one parameter
  Script,           \* what the host may answer to the reads, in order
  MaxJumps          \* bound on the jumps back to a loop in one run

ASSUME HelperAssumption == HelperResults \in {0, 1} /\ MaxJumps \in Nat

Op(name) == [op |-> name, n |-> 0]
Const(v) == [op |-> "const", n |-> v]
LocalGet(x) == [op |-> "local.get", n |-> x]
LocalSet(x) == [op |-> "local.set", n |-> x]
Block(results) == [op |-> "block", n |-> results]
Br(depth) == [op |-> "br", n |-> depth]
BrIf(depth) == [op |-> "br_if", n |-> depth]
BrTable(default) == [op |-> "br_table", n |-> default]

Openers == {"block", "loop", "if"}
Terminators == {"unreachable", "br", "br_table", "return"}
Imports == {"read", "obs", "rollback", "_g"}

Params(op) ==
  CASE op \in {"drop", "local.set", "obs", "rollback", "helper", "br_if", "br_table", "if"} -> 1
    [] op = "_g" -> 2
    [] OTHER -> 0
Results(op) ==
  CASE op \in {"const", "local.get", "read", "_g"} -> 1
    [] op = "helper" -> HelperResults
    [] OTHER -> 0

-----------------------------------------------------------------------------
(***************************************************************************)
(* Frames.  Nest(body)[i] lists the openers of the frames open just before *)
(* operator i, outermost first.                                            *)
(***************************************************************************)
Nested(open, op, i) ==
  CASE op \in Openers -> Append(open, i)
    [] op = "end" /\ open # <<>> -> Front(open)
    [] OTHER -> open

RECURSIVE NestFrom(_, _)
NestFrom(stacks, body) ==
  IF Len(stacks) > Len(body) THEN stacks
  ELSE NestFrom(Append(stacks, Nested(Last(stacks), body[Len(stacks)].op, Len(stacks))), body)

Nest(body) == NestFrom(<< <<>> >>, body)

Starts(body) == {i \in 1..Len(body) : body[i].op \in Openers}

(* The else or the end that belongs to the frame opened at start, or 0.    *)
Closer(body, nest, start, op) ==
  LET at == {j \in start..Len(body) :
               body[j].op = op /\ nest[j] # <<>> /\ Last(nest[j]) = start}
  IN IF at = {} THEN 0 ELSE CHOOSE j \in at : TRUE

(* The frame a branch at i of that depth names; 0 is the function itself.  *)
TargetOf(nest, i, depth) ==
  IF depth < Len(nest[i]) THEN nest[i][Len(nest[i]) - depth] ELSE 0

Depths(i) == IF i.op = "br_table" THEN {0, i.n} ELSE IF i.op \in {"br", "br_if"} THEN {i.n} ELSE {}

MaxNesting(body) ==
  LET nest == Nest(body)
  IN CHOOSE d \in {Len(nest[i]) : i \in 1..Len(nest)} :
       \A i \in 1..Len(nest) : Len(nest[i]) <= d

-----------------------------------------------------------------------------
(***************************************************************************)
(* Validation: the height of the operand stack, and the frames with the    *)
(* height they were entered at; after a terminator a frame is dead and its *)
(* operands are whatever is asked for.                                     *)
(***************************************************************************)
Frame(op, results, height) == [op |-> op, results |-> results, height |-> height, dead |-> FALSE]

Unchecked(results) == [ok |-> TRUE, height |-> 0, frames |-> <<Frame("block", results, 0)>>]

LabelArity(frame) == IF frame.op = "loop" THEN 0 ELSE frame.results

Checked(v, i) ==
  LET top == Last(v.frames)
      depth == IF i.op = "return" THEN Len(v.frames) - 1 ELSE i.n
      branches == i.op \in {"br", "br_if", "br_table", "return"}
      arity == IF branches /\ depth < Len(v.frames)
               THEN LabelArity(v.frames[Len(v.frames) - depth]) ELSE 0
      Below(n) == IF top.dead /\ v.height - n < top.height THEN top.height ELSE v.height - n
      Has(n) == top.dead \/ v.height - n >= top.height
      Closes == IF top.dead THEN v.height <= top.height + top.results
                ELSE v.height = top.height + top.results
      popped == Below(Params(i.op))
  IN IF \/ v.frames = <<>> \/ ~v.ok \/ ~Has(Params(i.op) + arity)
        \/ i.op \in {"end", "else"} /\ ~Closes
        \/ i.op = "else" /\ top.op # "if"
        \/ branches /\ depth >= Len(v.frames)
        \/ i.op = "br_table" /\ LabelArity(Last(v.frames)) # arity
     THEN [v EXCEPT !.ok = FALSE]
     ELSE CASE i.op \in Openers ->
                 [v EXCEPT !.height = popped, !.frames = Append(@, Frame(i.op, i.n, popped))]
            [] i.op = "else" ->
                 [v EXCEPT !.height = top.height,
                           !.frames[Len(v.frames)] = Frame("else", top.results, top.height)]
            [] i.op = "end" ->
                 [v EXCEPT !.height = top.height + top.results, !.frames = Front(@)]
            [] i.op \in Terminators ->
                 [v EXCEPT !.height = top.height, !.frames[Len(v.frames)].dead = TRUE]
            [] OTHER -> [v EXCEPT !.height = popped + Results(i.op)]

RECURSIVE CheckedAll(_, _)
CheckedAll(v, body) ==
  IF body = <<>> THEN v ELSE CheckedAll(Checked(v, Head(body)), Tail(body))

Check(results, body) == CheckedAll(Unchecked(results), body)

Valid(results, body) == LET v == Check(results, body) IN v.ok /\ v.frames = <<>>

-----------------------------------------------------------------------------
(***************************************************************************)
(* Runs.  The world of a run is what the host has seen and answered; a run *)
(* ends with the function, with a trap or a rollback, or is cut short when *)
(* the script has no more answers or the run has jumped back too often.    *)
(***************************************************************************)
Function(params, locals, results, body) ==
  [params |-> params, locals |-> locals, results |-> results, body |-> body]

World(script) == [script |-> script, calls |-> <<>>, jumps |-> 0, status |-> "running"]

Halted(w, status) == [w EXCEPT !.status = status]

GuardCalls(w, id) == Len(SelectSeq(w.calls, LAMBDA c : c = <<"_g", id>>))

(* The import op called with args: the world after it and its results.     *)
HostCall(w, op, args) ==
  LET seen == IF op = "read" THEN w ELSE [w EXCEPT !.calls = Append(@, <<op, args[1]>>)]
  IN CASE op = "read" ->
            IF w.script = <<>> THEN [w |-> Halted(w, "cut"), out |-> <<>>]
            ELSE [w |-> [w EXCEPT !.script = Tail(@)], out |-> <<Head(w.script)>>]
       [] op = "obs" -> [w |-> seen, out |-> <<>>]
       [] op = "rollback" -> [w |-> Halted(seen, "rollback"), out |-> <<>>]
       [] op = "_g" -> [w |-> IF GuardCalls(seen, args[1]) > args[2]
                              THEN Halted(seen, "rollback") ELSE seen,
                        out |-> <<1>>]

Take(s, n) == SubSeq(s, Len(s) - n + 1, Len(s))
Leave(s, n) == SubSeq(s, 1, Len(s) - n)

(* c with the branch to the label depth levels out taken.                  *)
Branched(f, nest, c, depth) ==
  LET at == Len(c.labels) - depth
      l == c.labels[at]
      loop == l.start # 0 /\ f.body[l.start].op = "loop"
  IN [c EXCEPT
        !.stack = SubSeq(@, 1, l.height) \o Take(@, IF loop THEN 0 ELSE l.results),
        !.labels = SubSeq(@, 1, IF loop THEN at ELSE at - 1),
        !.pc = IF l.start = 0 THEN Len(f.body) + 1
               ELSE IF loop THEN l.start + 1
               ELSE Closer(f.body, nest, l.start, "end") + 1,
        !.w = IF ~loop THEN @
              ELSE IF @.jumps = MaxJumps THEN Halted(@, "cut")
              ELSE [@ EXCEPT !.jumps = @ + 1]]

Entered(c, start, results, stack) ==
  [c EXCEPT !.stack = stack, !.pc = @ + 1,
            !.labels = Append(@, [start |-> start, height |-> Len(stack), results |-> results])]

RECURSIVE Run(_, _, _, _), Call(_, _, _, _)

(* The rest of the run of f from configuration c.                          *)
Run(module, f, nest, c) ==
  IF c.pc > Len(f.body) \/ c.w.status # "running"
  THEN [w |-> c.w, out |-> Take(c.stack, IF c.w.status = "running" THEN f.results ELSE 0)]
  ELSE
    LET i == f.body[c.pc]
        args == Take(c.stack, Params(i.op))
        rest == Leave(c.stack, Params(i.op))
        Next(stack) == [c EXCEPT !.pc = @ + 1, !.stack = stack]
        after ==
          CASE i.op = "const" -> Next(Append(rest, i.n))
            [] i.op = "local.get" -> Next(Append(rest, c.locals[i.n]))
            [] i.op = "local.set" -> [Next(rest) EXCEPT !.locals[i.n] = args[1]]
            [] i.op = "drop" -> Next(rest)
            [] i.op = "unreachable" -> [c EXCEPT !.w = Halted(@, "trap")]
            [] i.op \in {"block", "loop"} -> Entered(c, c.pc, i.n, rest)
            [] i.op = "if" ->
                 LET else == Closer(f.body, nest, c.pc, "else")
                     entered == Entered(c, c.pc, i.n, rest)
                 IN IF args[1] # 0 THEN entered
                    ELSE IF else # 0 THEN [entered EXCEPT !.pc = else + 1]
                    ELSE [Next(rest) EXCEPT !.pc = Closer(f.body, nest, c.pc, "end") + 1]
            [] i.op = "else" ->
                 [c EXCEPT !.pc = Closer(f.body, nest, Last(c.labels).start, "end")]
            [] i.op = "end" -> [Next(rest) EXCEPT !.labels = Front(@)]
            [] i.op = "br" -> Branched(f, nest, c, i.n)
            [] i.op = "br_if" ->
                 IF args[1] # 0 THEN Branched(f, nest, [c EXCEPT !.stack = rest], i.n)
                 ELSE Next(rest)
            [] i.op = "br_table" ->
                 Branched(f, nest, [c EXCEPT !.stack = rest], IF args[1] = 0 THEN 0 ELSE i.n)
            [] i.op = "return" -> Branched(f, nest, c, Len(c.labels) - 1)
            [] i.op \in Imports ->
                 LET r == HostCall(c.w, i.op, args)
                 IN [Next(rest \o r.out) EXCEPT !.w = r.w]
            [] i.op = "helper" ->
                 LET r == Call(module, "helper", args, c.w)
                 IN [Next(rest \o r.out) EXCEPT !.w = r.w]
    IN Run(module, f, nest, after)

(* A call: the arguments are the first locals, the others start at zero.   *)
Call(module, name, args, w) ==
  LET f == module[name]
  IN Run(module, f, Nest(f.body),
         [pc |-> 1, stack |-> <<>>, w |-> w,
          labels |-> << [start |-> 0, height |-> 0, results |-> f.results] >>,
          locals |-> [x \in 0..(f.params + f.locals - 1) |->
                        IF x < f.params THEN args[x + 1] ELSE 0]])

(* For each script, the host calls of the hook and how it ended.           *)
Behaviour(module) ==
  [s \in Script |->
     LET w == Call(module, "hook", <<>>, World(s)).w IN <<w.calls, w.status>>]

=============================================================================
