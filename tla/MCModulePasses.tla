--------------------------- MODULE MCModulePasses ---------------------------
(***************************************************************************)
(* Modules for ModulePasses: a chain of helpers that lie before and behind *)
(* the entries that call them, a hook with an import it does not use, and  *)
(* a hook alone; segments that overlap, touch, or reach out of the memory. *)
(***************************************************************************)
EXTENDS ModulePasses

Item(op, n) == [op |-> op, n |-> n]
Fn(type, calls) == [type |-> type, body |-> [k \in DOMAIN calls |-> Item("call", calls[k])]]

ModuleOf(imports, funcs, hook) ==
  [imports |-> imports, funcs |-> funcs,
   types |-> {TypeOfImport(i) : i \in Range(imports)} \cup {f.type : f \in Range(funcs)},
   globals |-> <<>>, memory |-> "own", datas |-> <<>>,
   hook |-> hook, cbak |-> 0, start |-> 0, extras |-> FALSE]

Chain ==
  ModuleOf(<<GuardImport, "etxn_reserve">>,
           <<Fn("helper", <<5>>), Fn(EntryType, <<3>>), Fn("helper", <<>>), Fn(EntryType, <<>>)>>,
           4)
Spare == ModuleOf(<<Unlisted, "emit">>, <<Fn("helper", <<>>), Fn(EntryType, <<2>>)>>, 4)
Alone == ModuleOf(<<"emit">>, <<Fn(EntryType, <<1>>)>>, 2)

MCBases == {Chain, Spare, Alone}

MCInits == {Item("const", 1), Item("get", 1)}

Segment(offset, bytes) == [offset |-> offset, bytes |-> bytes]
MCSegments ==
  {Segment(Item("const", a), b) : a \in {0, 2}, b \in {<<1>>, <<1, 0>>, <<0, 1>>, <<0>>}}
  \cup {Segment(Item("get", 1), <<1>>), Segment(Item("passive", 0), <<0>>)}

=============================================================================
