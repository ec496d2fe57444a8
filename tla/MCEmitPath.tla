----------------------------- MODULE MCEmitPath -----------------------------
(***************************************************************************)
(* EmitPath with templates of eleven shapes, and some the compiler refuses. *)
(***************************************************************************)
EXTENDS MCStoWriter, EmitPath

CONSTANTS sfFlags, sfDestination

CodeOrder ==
  <<sfTransactionType, sfFlags, sfSequence, sfFirstLedgerSequence, sfLastLedgerSequence,
    sfAmount, sfFee, sfSigningPubKey, sfMemoData, sfAccount, sfDestination, sfEntry,
    sfEntries>>
MCsfcode == [f \in Range(CodeOrder) |-> CHOOSE k \in DOMAIN CodeOrder : CodeOrder[k] = f]
MCsti ==
  [f \in Range(CodeOrder) |->
     CASE f \in {sfAmount, sfFee} -> "amount"
       [] f \in {sfSigningPubKey, sfMemoData, sfAccount, sfDestination} -> "vl"
       [] f = sfEntry -> "object"
       [] f = sfEntries -> "array"
       [] OTHER -> "scalar"]

(* Declarations.                                                            *)
F(kind, code) == [kind |-> kind, code |-> code, optional |-> FALSE, low |-> 0, high |-> 0]
Vl(code, low, high) == [F("vl", code) EXCEPT !.low = low, !.high = high]
Fixed(code) == [F("fixed", code) EXCEPT !.low = 1, !.high = 1]
Optional(i) == [i EXCEPT !.optional = TRUE]
Inside(open, inner, kind) == <<open>> \o inner \o <<F(kind, "none")>>
Entry(inner) == Inside(F("object", sfEntry), inner, "end_object")
OptionalEntry(inner) == Inside(Optional(F("object", sfEntry)), inner, "end_object")
Elements(element) == Inside(F("elements", sfEntries), element \o element, "end_array")
Flags == F("scalar", sfFlags)
Own == <<Fixed(sfAccount)>>

Transaction(flags, amount, memo, last) ==
  <<F("type", sfTransactionType)>> \o flags
  \o [k \in 1..3 |-> F("scalar", CodeOrder[k + 2])]
  \o amount \o <<F("native", sfFee), F("empty", sfSigningPubKey)>>
  \o memo \o last \o <<F("details", "none")>>

Plain == 1

MCDeclarations == <<
  Transaction(<<Optional(Flags)>>, <<>>, <<>>, Own),
  Transaction(<<>>, <<F("any", sfAmount)>>, <<Optional(Fixed(sfMemoData))>>, Own),
  Transaction(<<>>, <<Optional(F("native", sfAmount))>>, <<Vl(sfMemoData, 1, 2)>>, Own),
  Transaction(<<>>, <<Optional(F("any", sfAmount))>>, <<Optional(Vl(sfMemoData, 0, 1))>>,
    Own),
  Transaction(<<>>, <<F("issued", sfAmount)>>, <<Optional(F("empty", sfMemoData))>>, Own),
  Transaction(<<>>, <<Optional(F("issued", sfAmount))>>, <<Vl(sfMemoData, 0, 2)>>,
    Own \o <<Vl(sfDestination, 1, 2)>>),
  Transaction(<<>>, <<>>, <<>>,
    Own \o OptionalEntry(<<Flags, Vl(sfMemoData, 1, 2)>> \o OptionalEntry(<<Flags>>))),
  Transaction(<<>>, <<>>, <<>>,
    Own \o Elements(OptionalEntry(<<Flags, Optional(F("empty", sfMemoData))>>))),
  Transaction(<<>>, <<>>, <<>>, Own \o Elements(Entry(<<Vl(sfMemoData, 1, 2)>>))),
  Transaction(<<>>, <<>>, <<>>,
    Own \o Inside(Optional(F("array", sfEntries)), Entry(<<Flags>>) \o OptionalEntry(<<Flags>>),
                  "end_array")),
  Transaction(<<>>, <<>>, <<>>, Own \o OptionalEntry(Elements(OptionalEntry(<<Flags>>)))),
  \* The compiler refuses the rest: no Account at the top level, one NOP too many,
  Transaction(<<>>, <<>>, <<>>, Entry(Own)),
  Transaction(<<>>, <<>>, <<Vl(sfMemoData, 1, 2)>>,
    Own \o OptionalEntry(<<Optional(Flags), Vl(sfMemoData, 0, 2), Fixed(sfDestination)>>)),
  \* the wrong order, an impossible length, too deep, an optional Account.
  Transaction(<<>>, <<>>, <<>>, <<Fixed(sfDestination)>> \o Own),
  Transaction(<<>>, <<>>, <<Vl(sfMemoData, 2, 1)>>, Own),
  Transaction(<<>>, <<>>, <<>>, Own \o Entry(Entry(Entry(Entry(<<Flags>>))))),
  Transaction(<<>>, <<>>, <<>>, <<Optional(Fixed(sfAccount))>>)>>

EmitInit == PathInit /\ (decl = Plain \/ written = <<>>)

(* The bounds, which leave out steps of PathNext.  The writer works beside  *)
(* the plain template: freely until the template is changed, and then it    *)
(* only prepares what it resumed.  The template works while the writer is   *)
(* new or holds a resumed transaction, and the hook sets plumbing by hand   *)
(* in the plain one.                                                        *)
WriterTurn == decl = Plain /\ bytes = lay.fresh
TemplateTurn ==
  /\ ret = "ok"
  /\ written = <<>> \/ (decl = Plain /\ (finalized \/ Ready) /\ Len(written) <= Len(Baked) + 1)

EmitNext ==
  \/ WriterTurn /\ Next /\ UNCHANGED templateVars
  \/ /\ ~WriterTurn /\ Ready /\ (\E fails \in Failures : PrepareForEmit(fails))
     /\ UNCHANGED templateVars
  \/ TemplateTurn /\ TemplateNext /\ UNCHANGED <<writer, ret>>

EmitSpec == EmitInit /\ [][EmitNext]_<<vars, templateVars>>

EmitExplored ==
  /\ Explored
  /\ touched = {} \/ (decl = Plain /\ written = <<>>)
  /\ \A n \in Items : fills[n] <= 2
=============================================================================
