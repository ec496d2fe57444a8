---------------------------- MODULE ModulePasses ----------------------------
(***************************************************************************)
(* The sections of a module on their way through rshooks-build's pipeline: *)
(* clean collects what hook and cbak cannot reach and renumbers the rest,  *)
(* flatten leaves the entries as the only functions, verify weighs its own *)
(* findings against the verdict of the upstream checker.                   *)
(*                                                                         *)
(* A body is the sequence of its references: calls of functions, which are *)
(* numbered from the imports on, as in wasm (here from 1); touches of a    *)
(* global, which show its value and raise it; indirect calls; floats.      *)
(* Control flow within bodies is the subject of ControlPasses; unnest and  *)
(* hoist change nothing else and are no steps here.                        *)
(***************************************************************************)
EXTENDS Integers, Sequences, SequencesExt, FiniteSets, FiniteSetsExt

CONSTANTS
  Bases,          \* modules to begin from
  Inits,          \* how a global may be given
  Segments,       \* the data segments
  MemorySize,     \* the bytes of a module's memory
  MaxParts,       \* bound on the references of the base and the parts added
  MaxCalls        \* bound on the depth of calls in one run

VARIABLES
  at,             \* how far the module has come
  parts,          \* of the written module, so far
  source,         \* the module as it was written
  module,         \* what the passes have made of it
  native          \* the verdict of the upstream checker

sectionVars == <<at, parts, source, module, native>>

EntryType == "entry"        \* (i32) -> i64
GuardImport == "_g"
Unlisted == "unlisted"      \* an import that the whitelist does not have

TypeOfImport(name) ==
  CASE name = GuardImport -> "guard" [] name = "etxn_reserve" -> EntryType [] OTHER -> "api"

-----------------------------------------------------------------------------
(***************************************************************************)
(* Index spaces and references: ir.rs.                                     *)
(***************************************************************************)
Functions(m) == 1..(Len(m.imports) + Len(m.funcs))
Defined(m) == {f \in Functions(m) : f > Len(m.imports)}
TypeOf(m, f) ==
  IF f \in Defined(m) THEN m.funcs[f - Len(m.imports)].type ELSE TypeOfImport(m.imports[f])
BodyOf(m, f) == IF f \in Defined(m) THEN m.funcs[f - Len(m.imports)].body ELSE <<>>

References(body, op) == {i.n : i \in {j \in Range(body) : j.op = op}}
Uses(body, op) == \E i \in Range(body) : i.op = op
OutEdges(m, f) == References(BodyOf(m, f), "call")

ConstRef(init) == IF init.op = "get" THEN {init.n} ELSE {}

(* The functions m exports as hook and as cbak; 0 is none.                 *)
Entries(m) == {m.hook, m.cbak} \ {0}
IsEntry(m, f) == f \in Functions(m) /\ TypeOf(m, f) = EntryType

(* Some functions each call another of them: a cycle.                      *)
Recursive(m, funcs) ==
  \E S \in SUBSET funcs \ {{}} : \A f \in S : OutEdges(m, f) \cap S # {}

InOrder(S) == SetToSortSeq(S, <)

(* The order in which a depth-first search leaves the defined functions,   *)
(* begun from each in turn, of the callees the highest index first.        *)
RECURSIVE Visited(_, _, _)
Visited(m, order, f) ==
  IF f \in Range(order) THEN order
  ELSE Append(FoldLeft(LAMBDA acc, g : Visited(m, acc, g), order,
                       Reverse(InOrder(OutEdges(m, f) \cap Defined(m)))), f)

PostOrder(m) == FoldLeft(LAMBDA acc, f : Visited(m, acc, f), <<>>, InOrder(Defined(m)))

-----------------------------------------------------------------------------
(***************************************************************************)
(* clean.                                                                  *)
(***************************************************************************)
RECURSIVE Reached(_, _)
Reached(m, funcs) ==
  LET more == funcs \cup UNION {OutEdges(m, f) : f \in funcs}
  IN IF more = funcs THEN funcs ELSE Reached(m, more)

RECURSIVE WithInits(_, _)
WithInits(m, globals) ==
  LET more == globals \cup UNION {ConstRef(m.globals[g]) : g \in globals}
  IN IF more = globals THEN globals ELSE WithInits(m, more)

GlobalsOfCode(m, funcs) == UNION {References(BodyOf(m, f), "touch") : f \in funcs}

UsedGlobalsOfAll(m, funcs) ==  \* mutant
  WithInits(m, GlobalsOfCode(m, Defined(m)) \cup UNION {ConstRef(d.offset) : d \in Range(m.datas)})

UsedGlobals(m, funcs) ==
  WithInits(m, GlobalsOfCode(m, funcs) \cup UNION {ConstRef(d.offset) : d \in Range(m.datas)})

(* The place of an index among those that are kept.                        *)
NewIndex(kept, old) ==
  IF old \in kept THEN Cardinality({k \in kept : k <= old}) ELSE old

Renumbered(i, funcs, globals) ==
  CASE i.op = "call" -> [i EXCEPT !.n = NewIndex(funcs, @)]
    [] i.op \in {"touch", "get"} -> [i EXCEPT !.n = NewIndex(globals, @)]
    [] OTHER -> i

NeedsRemapOfCalls(body, funcs, globals) ==  \* mutant
  \E f \in References(body, "call") : NewIndex(funcs, f) # f

NeedsRemap(body, funcs, globals) ==
  \/ \E f \in References(body, "call") : NewIndex(funcs, f) # f
  \/ \E g \in References(body, "touch") : NewIndex(globals, g) # g

CleanBody(body, funcs, globals) ==
  IF NeedsRemap(body, funcs, globals)
  THEN [k \in DOMAIN body |-> Renumbered(body[k], funcs, globals)] ELSE body

Active(d) == d.offset.op # "passive"
End(d) == d.offset.n + Len(d.bytes)

(* Every active segment lies at a constant, within the memory and apart    *)
(* from the others (the code compares neighbours among the sorted ranges). *)
TrimIsSafe(m) ==
  LET segments == {k \in DOMAIN m.datas : Active(m.datas[k])}
  IN /\ \A k \in segments : /\ m.datas[k].offset.op = "const"
                            /\ m.memory # "none" /\ End(m.datas[k]) <= MemorySize
     /\ \A j, k \in segments :
          \/ j = k
          \/ End(m.datas[j]) <= m.datas[k].offset.n
          \/ End(m.datas[k]) <= m.datas[j].offset.n

Trimmed(bytes) == SubSeq(bytes, 1, Max({0} \cup {k \in DOMAIN bytes : bytes[k] # 0}))

CleanDatas(m, globals) ==
  LET trims == TrimIsSafe(m)
  IN FoldLeft(LAMBDA acc, d :
                LET bytes == IF trims /\ Active(d) THEN Trimmed(d.bytes) ELSE d.bytes
                IN IF trims /\ Active(d) /\ bytes = <<>> THEN acc
                   ELSE Append(acc, [offset |-> Renumbered(d.offset, {}, globals),
                                     bytes |-> bytes]),
              <<>>, m.datas)

Cleaned(m) ==
  LET funcs == Reached(m, Entries(m))
      globals == UsedGlobals(m, funcs)
      imports == InOrder(funcs \ Defined(m))
      defined == InOrder(funcs \cap Defined(m))
      kept == InOrder(globals)
  IN [m EXCEPT
        !.imports = [k \in DOMAIN imports |-> m.imports[imports[k]]],
        !.funcs = [k \in DOMAIN defined |->
                     [type |-> TypeOf(m, defined[k]),
                      body |-> CleanBody(BodyOf(m, defined[k]), funcs, globals)]],
        !.globals = [k \in DOMAIN kept |-> Renumbered(m.globals[kept[k]], funcs, globals)],
        !.hook = NewIndex(funcs, @),
        !.cbak = NewIndex(funcs, @),
        !.start = 0,
        !.extras = FALSE,
        !.datas = CleanDatas(m, globals)]

CleanFails(m) ==
  \/ m.hook = 0
  \/ \E f \in Entries(m) : ~IsEntry(m, f)
  \/ \E f \in Reached(m, Entries(m)) : Uses(BodyOf(m, f), "indirect")
  \/ m.datas # <<>> /\ m.memory # "own"

-----------------------------------------------------------------------------
(***************************************************************************)
(* flatten.                                                                *)
(***************************************************************************)
(* The bodies by function, each call of a defined function replaced by the *)
(* body its callee has by then.                                            *)
Inlined(m, bodies, i) ==
  IF i.op = "call" /\ i.n \in Defined(m) THEN bodies[i.n] ELSE <<i>>

InlinedBodies(m) ==
  FoldLeft(LAMBDA bodies, f :
             [bodies EXCEPT ![f] =
                FlattenSeq([k \in DOMAIN BodyOf(m, f) |-> Inlined(m, bodies, BodyOf(m, f)[k])])],
           [f \in Defined(m) |-> BodyOf(m, f)], PostOrder(m))

WithGuardImport(m) ==
  IF GuardImport \in Range(m.imports) THEN m.imports ELSE Append(m.imports, GuardImport)

FlattenedModule(m) ==
  LET bodies == InlinedBodies(m)
      imports == WithGuardImport(m)
      Entry(f) == [type |-> EntryType, body |-> bodies[f]]
  IN [m EXCEPT
        !.imports = imports,
        !.types = {TypeOfImport(i) : i \in Range(imports)} \cup {EntryType},
        !.funcs = <<Entry(m.hook)>> \o (IF m.cbak = 0 THEN <<>> ELSE <<Entry(m.cbak)>>),
        !.hook = Len(imports) + 1,
        !.cbak = IF @ = 0 THEN 0 ELSE Len(imports) + 2]

FlattenFails(m) ==
  \/ ~(Entries(m) \subseteq Defined(m))
  \/ Recursive(m, Functions(m))

-----------------------------------------------------------------------------
(***************************************************************************)
(* validate and verify.                                                    *)
(***************************************************************************)
IsMVP(m) ==
  \A init \in Range(m.globals) \cup {d.offset : d \in Range(m.datas)} : init.op = "const"

(* What upstream's checker does not look at.                               *)
HardFindings(m) ==
  {finding \in {"mvp", "export", "entry", "import", "memory", "start", "passive", "float",
                "indirect", "recursion"} :
     CASE finding = "mvp" -> ~IsMVP(m)
       [] finding = "export" -> m.extras
       [] finding = "entry" -> m.hook = 0 \/ \E f \in Entries(m) : ~IsEntry(m, f)
       [] finding = "import" -> Unlisted \in Range(m.imports) \/ m.memory = "imported"
       [] finding = "memory" -> m.memory = "none" /\ m.datas # <<>>
       [] finding = "start" -> m.start # 0
       [] finding = "passive" -> \E d \in Range(m.datas) : ~Active(d)
       [] finding = "float" -> \E f \in Functions(m) : Uses(BodyOf(m, f), "float")
       [] finding = "indirect" -> \E f \in Functions(m) : Uses(BodyOf(m, f), "indirect")
       [] finding = "recursion" -> Recursive(m, Functions(m))}

(* R1 and R2, which it looks at too.                                       *)
GuardFindings(m) ==
  (IF GuardImport \in Range(m.imports) THEN {} ELSE {"R1"})
  \cup (IF m.types \subseteq {TypeOfImport(i) : i \in Range(m.imports)} \cup {EntryType}
        THEN {} ELSE {"R2"})

AcceptsAsUpstream(m, verdict) ==  \* mutant
  verdict = "accepts"

(* Upstream's acceptance outweighs guard findings, never a hard one.       *)
Accepts(m, verdict) == HardFindings(m) = {} /\ verdict = "accepts"

-----------------------------------------------------------------------------
(***************************************************************************)
(* Writing the module, one part at a time.                                 *)
(***************************************************************************)
SectionsInit ==
  /\ at = "writing"
  /\ source \in Bases
  /\ parts = Len(FlattenSeq([k \in DOMAIN source.funcs |-> source.funcs[k].body]))
  /\ module = source
  /\ native = "unasked"

Add(m) ==
  /\ at = "writing"
  /\ parts < MaxParts
  /\ parts' = parts + 1
  /\ source' = m
  /\ module' = m
  /\ UNCHANGED <<at, native>>

Ops(m) ==
  {[op |-> "call", n |-> f] : f \in Functions(m)}
  \cup {[op |-> "touch", n |-> g] : g \in DOMAIN m.globals}
  \cup {[op |-> "indirect", n |-> 0], [op |-> "float", n |-> 0]}

Resolves(m, init) == init.op = "get" => init.n \in DOMAIN m.globals

AddOp ==
  \E k \in DOMAIN source.funcs, op \in Ops(source) :
    Add([source EXCEPT !.funcs[k].body = Append(@, op)])
AddGlobal ==
  \E init \in Inits :
    Resolves(source, init) /\ Add([source EXCEPT !.globals = Append(@, init)])
AddSegment ==
  \E d \in Segments :
    Resolves(source, d.offset) /\ Add([source EXCEPT !.datas = Append(@, d)])
AddCbak ==
  \E f \in Functions(source) : source.cbak = 0 /\ Add([source EXCEPT !.cbak = f])
(* A start function takes and returns nothing, so it is no entry.          *)
AddStart ==
  \E f \in Defined(source) :
    source.start = 0 /\ ~IsEntry(source, f) /\ Add([source EXCEPT !.start = f])
ChangeMemory ==
  \E memory \in {"none", "imported"} :
    source.memory = "own" /\ Add([source EXCEPT !.memory = memory])
AddExtras == ~source.extras /\ Add([source EXCEPT !.extras = TRUE])

-----------------------------------------------------------------------------
(***************************************************************************)
(* The pipeline.                                                           *)
(***************************************************************************)
SectionPass(from, fails, to, result) ==
  /\ at = from
  /\ at' = IF fails THEN "failed" ELSE to
  /\ module' = IF fails THEN module ELSE result
  /\ UNCHANGED <<parts, source, native>>

CleanModule == SectionPass("writing", CleanFails(module), "cleaned", Cleaned(module))

FlattenModule ==
  SectionPass("cleaned", FlattenFails(module), "flattened", FlattenedModule(module))

(* verify, at the end of the pipeline or as the command check.  A module   *)
(* over the size limit is refused whatever upstream says.                  *)
Verified(from, yes, no) ==
  \E verdict \in {"accepts", "rejects", "oversize"} :
    /\ at = from
    /\ native' = verdict
    /\ at' = IF Accepts(module, verdict) THEN yes ELSE no
    /\ UNCHANGED <<parts, source, module>>

VerifyModule == Verified("flattened", "accepted", "refused")

CheckModule == Verified("writing", "passed", "rejected")

SectionsNext ==
  \/ AddOp
  \/ AddGlobal
  \/ AddSegment
  \/ AddCbak
  \/ AddStart
  \/ ChangeMemory
  \/ AddExtras
  \/ CleanModule
  \/ FlattenModule
  \/ VerifyModule
  \/ CheckModule

SectionsSpec == SectionsInit /\ [][SectionsNext]_sectionVars

-----------------------------------------------------------------------------
(***************************************************************************)
(* What a module does: the memory it begins with, unless a segment does    *)
(* not fit and it traps, and what a run of each entry shows to the host.   *)
(***************************************************************************)
RECURSIVE Value(_, _)
Value(m, init) == IF init.op = "get" THEN Value(m, m.globals[init.n]) ELSE init.n

Trap == <<>>

Written(m, memory, d) ==
  LET offset == Value(m, d.offset)
  IN IF memory = Trap \/ offset + Len(d.bytes) > MemorySize THEN Trap
     ELSE [a \in DOMAIN memory |->
             IF a \in offset + 1..offset + Len(d.bytes) THEN d.bytes[a - offset] ELSE memory[a]]

Image(m) ==
  FoldLeft(LAMBDA memory, d : Written(m, memory, d), [a \in 1..MemorySize |-> 0],
           SelectSeq(m.datas, Active))

RECURSIVE Shown(_, _, _, _)
Shown(m, f, depth, w) ==
  IF f \notin Functions(m) THEN [w EXCEPT !.seen = Append(@, <<"invalid">>)]
  ELSE IF f \notin Defined(m) THEN [w EXCEPT !.seen = Append(@, <<"call", m.imports[f]>>)]
  ELSE FoldLeft(LAMBDA acc, i :
         CASE acc.cut -> acc
           [] ~acc.cut /\ i.op = "call" ->
                IF depth = MaxCalls THEN [acc EXCEPT !.cut = TRUE]
                ELSE Shown(m, i.n, depth + 1, acc)
           [] ~acc.cut /\ i.op = "touch" /\ i.n \in DOMAIN m.globals ->
                [acc EXCEPT !.seen = Append(@, <<"touch", acc.globals[i.n]>>), !.globals[i.n] = @ + 1]
           [] OTHER -> [acc EXCEPT !.seen = Append(@, <<i.op>>)],
         w, BodyOf(m, f))

RunOf(m, f) ==
  IF f = 0 THEN <<>>
  ELSE Shown(m, f, 0, [seen |-> <<>>, cut |-> FALSE,
                       globals |-> [g \in DOMAIN m.globals |-> Value(m, m.globals[g])]]).seen

Meaning(m) == <<Image(m), RunOf(m, m.hook), RunOf(m, m.cbak)>>

(* The parts of a module that every set containing the entries and closed  *)
(* under its references contains.                                          *)
Live(m) ==
  {f \in Functions(m) :
     \A S \in SUBSET Functions(m) :
       Entries(m) \subseteq S /\ (\A g \in S : OutEdges(m, g) \subseteq S) => f \in S}
LiveGlobals(m) ==
  LET roots == GlobalsOfCode(m, Live(m)) \cup UNION {ConstRef(d.offset) : d \in Range(m.datas)}
  IN {g \in DOMAIN m.globals :
        \A S \in SUBSET DOMAIN m.globals :
          roots \subseteq S /\ (\A h \in S : ConstRef(m.globals[h]) \subseteq S) => g \in S}

(* What is wrong with a module that no pass takes away.                    *)
Faulty(m) ==
  LET live == Live(m)
  IN \/ \E f \in Entries(m) : ~IsEntry(m, f)
     \/ \E f \in live : Uses(BodyOf(m, f), "indirect") \/ Uses(BodyOf(m, f), "float")
     \/ \E f \in live \ Defined(m) : m.imports[f] = Unlisted
     \/ Recursive(m, live)
     \/ m.memory = "imported" \/ (m.memory = "none" /\ m.datas # <<>>)
     \/ \E d \in Range(m.datas) : d.offset.op # "const"
     \/ \E g \in LiveGlobals(m) : m.globals[g].op # "const"

-----------------------------------------------------------------------------
(***************************************************************************)
(* Properties.                                                             *)
(***************************************************************************)
(* Whatever is collected, renumbered, trimmed or inlined, the module begins *)
(* with the memory the written one begins with, or traps as it does, and    *)
(* each entry shows the host the same calls and values, after clean and     *)
(* after flatten, for every module that has no start function.              *)
MeaningKept ==
  at \in {"cleaned", "flattened"} /\ source.start = 0 => Meaning(module) = Meaning(source)

(* clean leaves nothing that the entries and the segments do not refer to,  *)
(* and nothing for a second run to do.                                      *)
CleanIsComplete ==
  at = "cleaned" =>
    /\ Live(module) = Functions(module)
    /\ LiveGlobals(module) = DOMAIN module.globals
    /\ Cleaned(module) = module

(* Of a module that has no start function: the pipeline fails on it or      *)
(* refuses it only for a fault in what it uses, or for upstream's verdict   *)
(* or the size, and accepts it only without any; whatever else the compiler *)
(* left in it is repaired on the way, R1 and R2 included.  check, which     *)
(* repairs nothing, passes none that has the fault, or a start function, or *)
(* an export that clean would have to drop.                                 *)
RefusedForCause ==
  /\ source.start = 0 =>
       /\ at = "failed" => Faulty(source) \/ ~(Entries(source) \subseteq Defined(source))
       /\ at = "refused" => Faulty(source) \/ native # "accepts"
       /\ at = "accepted" => ~Faulty(source) /\ GuardFindings(module) = {} /\ native = "accepts"
  /\ at = "passed" => ~Faulty(source) /\ source.start = 0 /\ ~source.extras

=============================================================================
