-------------------------- MODULE MCControlPasses --------------------------
(***************************************************************************)
(* Fragments for ControlPasses: the shapes LLVM and wasm-opt lay out, down *)
(* to the operator where a pass looks at single operators.                 *)
(***************************************************************************)
EXTENDS ControlPasses

Guard == <<Const(7), Const(2), Op("_g"), Op("drop")>>
Ask(op) == <<Op("read"), op>>
Observe(op) == <<op, Op("obs")>>
Fail == <<Const(1), Op("rollback"), Op("unreachable")>>

MCHookFragment ==
  { <<Block(0)>>, <<Block(0), Block(0)>>,
    <<Op("end")>>,
    <<Op("loop")>>, <<Op("loop")>> \o Guard,
    <<Op("loop"), Block(0)>> \o Guard,
    Ask(Op("if")), <<Op("else")>>,
    <<Br(0)>>, Ask(BrIf(0)), Ask(BrIf(1)), Ask(BrTable(1)),
    Observe(Const(2)),
    Fail, <<Op("end")>> \o Fail,
    <<Const(1)>>, <<Op("rollback"), Op("unreachable")>>,
    <<Op("return")>>,
    <<Const(3), Op("helper"), Op("obs")>> }

LeaveAt(depth) == <<LocalGet(0), Op("read"), BrIf(depth), Op("drop")>>

MCHelperFragment ==
  { Observe(LocalGet(1)), <<LocalGet(0), LocalSet(1)>>,
    <<Block(0)>>, <<Op("loop")>> \o Guard, Ask(Op("if")), <<Op("end")>>, Ask(BrIf(0)),
    LeaveAt(0), LeaveAt(1), <<LocalGet(0), Op("return")>>, Fail,
    <<LocalGet(0)>>, <<LocalGet(1)>> }

Initialised == <<Const(5), LocalSet(1)>>
Bare == <<>>

MCDeadFragment ==
  {<<Block(0)>>, <<Op("end")>>, <<Op("end")>> \o Fail, <<Op("else")>>, Observe(Const(2)),
   <<LocalGet(0)>>}

(* A loop that calls the helper while the host says so, and a helper whose *)
(* own local is written only on the way out.                               *)
MCLoopHook ==
  { <<Op("loop")>> \o Guard, <<Const(3), Op("helper")>>, Ask(BrIf(0)), <<Op("end")>> }

MCLoopHelper ==
  { Observe(LocalGet(1)), <<LocalGet(0), LocalSet(1)>> }

MCScript == {<<a, b>> : a \in {0, 1}, b \in {0, 1}}

=============================================================================
