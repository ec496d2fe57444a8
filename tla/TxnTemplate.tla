----------------------------- MODULE TxnTemplate -----------------------------
(***************************************************************************)
(* txn_template!: a transaction whose fields are declared at compile time.  *)
(* The macro lays the declaration out as an array of bytes, checks it, and  *)
(* generates a setter for each field.  A field, or a container, that is     *)
(* optional keeps its place in the array: while it is absent the place      *)
(* holds bytes the host skips (NOP), of which every container may hold      *)
(* only so many.                                                            *)
(*                                                                          *)
(* A declaration is a sequence of items in the order of their bytes; the    *)
(* items between a container and its end are inside it.  A field header is  *)
(* one byte.  What the host makes of the bytes is the operator Parse.       *)
(***************************************************************************)
EXTENDS EmitHost, SequencesExt, FiniteSetsExt

CONSTANTS
  sfcode,               \* field -> a number: the canonical order
  sti,                  \* field -> "scalar", "amount", "vl", "object", "array"
  NativeLen, IssuedLen, \* the two forms of an amount
  ShortVl,              \* the longest value with a one-byte length prefix
  MaxNops,              \* MAX_NOPS_PER_CONTAINER
  Declarations,         \* the declarations given to the compiler: a sequence
  Inputs                \* values a setter is given

Ends == {"end_object", "end_array"}
Containers == {"object", "array", "elements"}

EndOf(kind) == IF kind = "object" THEN "end_object" ELSE "end_array"

(* The kinds of field, and the serialized type each may be declared with.   *)
Sti == [type |-> "scalar", scalar |-> "scalar", native |-> "amount",
        issued |-> "amount", any |-> "amount", empty |-> "vl", fixed |-> "vl",
        vl |-> "vl", object |-> "object", array |-> "array", elements |-> "array"]

(* low and high: MIN and MAX of a vl; high: the length of a fixed one.  The *)
(* children of "elements" are copies of one object.                         *)
Item == [kind : DOMAIN Sti, code : DOMAIN sti, optional : BOOLEAN, low : Nat, high : Nat]
   \cup [kind : Ends \cup {"details"}, code : {"none"}, optional : BOOLEAN,
         low : Nat, high : Nat]

ASSUME TemplateAssumption ==
  /\ {NativeLen, IssuedLen, ShortVl, MaxNops} \cup Inputs \subseteq Nat
  /\ 0 < NativeLen /\ NativeLen <= IssuedLen
  /\ Plumbing \cup {sfTransactionType} \subseteq DOMAIN sti
  /\ sfcode \in [DOMAIN sti -> Nat] /\ "none" \notin DOMAIN sti
  /\ \A n \in DOMAIN Declarations : Declarations[n] \in Seq(Item)

VARIABLES
  decl,       \* the declaration the template was compiled from, by number
  lay,        \* what the macro made of it: the constants of the template's type
  bytes,      \* the template
  fills,      \* setter of a vl field -> its calls in this execution
  spent,      \* guard id -> iterations in this execution
  prepared,   \* the length of the Prepared handle, or 0
  touched,    \* the plumbing fields the hook set since it was prepared
  halted      \* the host ended the execution: GUARD_VIOLATION

budgets == <<fills, spent, halted>>
compiled == <<decl, lay>>
templateVars == <<compiled, bytes, budgets, prepared, touched>>

-----------------------------------------------------------------------------
(* Bytes.                                                                   *)

Nop == <<"nop", 0>>
Zero == <<"value", 0>>
Header(code) == <<"header", code>>
Repeat(n, byte) == [k \in 1..n |-> byte]
Nops(n) == Repeat(n, Nop)

(* vl_length_prefix, vl_slot_size.                                          *)
PrefixLen(n) == IF n <= ShortVl THEN 1 ELSE 2
Prefix(n) == <<<<"length", n>>>> \o Repeat(PrefixLen(n) - 1, <<"more", n>>)
SlotSize(n) == PrefixLen(n) + n

Native(v) == Repeat(NativeLen, <<"native", v>>)
Issued(v) == Repeat(IssuedLen, <<"issued", v>>)
Blob(n, byte) == Prefix(n) \o Repeat(n, byte)
Padded(s, n) == s \o Nops(n - Len(s))

ItemLen(i) ==
  CASE i.kind \in Containers \cup Ends -> 1
    [] i.kind \in {"type", "scalar", "empty"} -> 2
    [] i.kind = "native" -> 1 + NativeLen
    [] i.kind \in {"issued", "any"} -> 1 + IssuedLen
    [] i.kind \in {"fixed", "vl"} -> 1 + SlotSize(i.high)
    [] i.kind = "details" -> DetailsMaxLen

(* What init writes for a present item.  The payload of a fixed or a vl     *)
(* field it does not write: the ground of the buffer shows.                 *)
Default(i, ground) ==
  CASE i.kind \in Containers -> <<Header(i.code)>>
    [] i.kind \in Ends -> <<<<i.kind, 0>>>>
    [] i.kind \in {"type", "scalar"} -> <<Header(i.code), Zero>>
    [] i.kind = "native" -> <<Header(i.code)>> \o Native(0)
    [] i.kind = "issued" -> <<Header(i.code)>> \o Issued(0)
    [] i.kind = "any" -> Padded(<<Header(i.code)>> \o Native(0), ItemLen(i))
    [] i.kind = "empty" -> <<Header(i.code)>> \o Prefix(0)
    [] i.kind = "fixed" -> <<Header(i.code)>> \o Blob(i.high, ground)
    [] i.kind = "vl" -> Padded(<<Header(i.code)>> \o Blob(i.low, ground), ItemLen(i))
    [] i.kind = "details" -> Repeat(DetailsMaxLen, ground)

-----------------------------------------------------------------------------
(* Compiling a declaration d.                                               *)

(* The containers around each item, outermost first; an end is still inside *)
(* the container it ends.                                                   *)
Nesting(d) ==
  LET after[n \in 0..Len(d)] ==
        IF n = 0 THEN <<>>
        ELSE CASE d[n].kind \in Containers -> Append(after[n - 1], n)
               [] d[n].kind \in Ends /\ after[n - 1] # <<>> -> Front(after[n - 1])
               [] OTHER -> after[n - 1]
  IN  [n \in 1..Len(d) + 1 |-> after[n - 1]]

(* prev: the first byte of each item.                                       *)
Starts(d) ==
  LET after[n \in 0..Len(d)] == IF n = 0 THEN 1 ELSE after[n - 1] + ItemLen(d[n])
  IN  [n \in 1..Len(d) + 1 |-> after[n - 1]]

(* A field inside a container is found too.                                 *)
FindsAnywhere(d, code) == {n \in DOMAIN d : d[n].code = code}

(* find_field: the rows of FIELDS for code at depth 0.                      *)
Finds(d, code) == {n \in DOMAIN d : d[n].code = code /\ Nesting(d)[n] = <<>>}

(* The object that is copied for every element of a homogeneous array.      *)
IsElement(d, n) ==
  LET around == Nesting(d)[n]
  IN  d[n].kind = "object" /\ around # <<>> /\ d[Last(around)].kind = "elements"

(* The items of container n, itself and its end included.                   *)
Span(d, n) ==
  LET nesting == Nesting(d)
  IN  {n} \cup {m \in DOMAIN d : n \in Range(nesting[m])}

(* What the macro's grammar admits.                                         *)
Grammatical(d) ==
  LET nesting == Nesting(d)
  IN  /\ \A n \in DOMAIN d :
           /\ d[n].kind = "type" <=> n = 1
           /\ d[n].kind = "type" => d[n].code = sfTransactionType
           /\ d[n].kind = "details" <=> n = Len(d)
           /\ d[n].optional => d[n].kind \notin Ends \cup {"type", "elements", "details"}
           /\ nesting[n] # <<>> /\ d[n].kind \notin Ends
              => (d[Last(nesting[n])].kind # "object" => d[n].kind = "object")
           /\ d[n].kind \in Ends
              => nesting[n] # <<>> /\ d[n].kind = EndOf(d[Last(nesting[n])].kind)
      /\ \A n, m \in DOMAIN d :
           IsElement(d, n) /\ IsElement(d, m) /\ nesting[n] = nesting[m]
           => SubSeq(d, n, Max(Span(d, n))) = SubSeq(d, m, Max(Span(d, m)))
      /\ Last(nesting) = <<>>

(* sti_of, and the bounds of fixed_vl and vl.                               *)
Typed(d) ==
  \A n \in DOMAIN d :
    /\ d[n].kind \in DOMAIN Sti => sti[d[n].code] = Sti[d[n].kind]
    /\ d[n].kind \in {"fixed", "vl"} => d[n].low <= d[n].high /\ d[n].high >= 1

(* The canonical order, which also forbids a field twice; the elements of   *)
(* an array are exempt.                                                     *)
Ordered(d) ==
  LET nesting == Nesting(d)
  IN  \A n, m \in {k \in DOMAIN d : d[k].kind \in DOMAIN Sti} :
        /\ n < m /\ nesting[n] = nesting[m]
        /\ nesting[n] # <<>> => d[Last(nesting[n])].kind = "object"
        => sfcode[d[n].code] < sfcode[d[m].code]

Shallow(d) ==
  \A n \in DOMAIN d :
    d[n].kind \in Containers => Len(Nesting(d)[n]) + 1 < MaxDepth

(* The length prefix of a vl is not counted.                                *)
ChargePayload(d, n) ==
  IF d[n].optional THEN SumFunctionOnSet([m \in DOMAIN d |-> ItemLen(d[m])], Span(d, n))
  ELSE CASE d[n].kind = "any" -> IssuedLen - NativeLen
         [] d[n].kind = "vl" -> d[n].high - d[n].low
         [] OTHER -> 0

(* nops: the most NOPs that item n leaves in the container around it.       *)
Charge(d, n) ==
  IF d[n].optional THEN SumFunctionOnSet([m \in DOMAIN d |-> ItemLen(d[m])], Span(d, n))
  ELSE CASE d[n].kind = "any" -> IssuedLen - NativeLen
         [] d[n].kind = "vl" -> SlotSize(d[n].high) - SlotSize(d[n].low)
         [] OTHER -> 0

(* check_nop_budget, for the top level and every container.                 *)
Budgeted(d) ==
  LET nesting == Nesting(d)
      direct(c) == {n \in DOMAIN d : d[n].kind \notin Ends
                      /\ (IF nesting[n] = <<>> THEN 0 ELSE Last(nesting[n])) = c}
  IN  \A c \in {0} \cup {n \in DOMAIN d : d[n].kind \in Containers} :
        SumFunctionOnSet([n \in DOMAIN d |-> Charge(d, n)], direct(c)) <= MaxNops

RequiredKind ==
  [f \in Plumbing |-> CASE f = sfFee -> "native" [] f = sfAccount -> "fixed"
                        [] f = sfSigningPubKey -> "empty" [] OTHER -> "scalar"]

(* field_present and field_kind_ok, for each field prepare_for_emit needs.  *)
Equipped(d) ==
  \A f \in Plumbing :
    /\ Finds(d, f) # {}
    /\ d[Min(Finds(d, f))].kind = RequiredKind[f]
    /\ ~d[Min(Finds(d, f))].optional

Compiles(d) ==
  /\ Grammatical(d) /\ Typed(d) /\ Ordered(d)
  /\ Shallow(d) /\ Budgeted(d) /\ Equipped(d)

(* The array that holds the bytes of item n while they are built.           *)
Ground(d, n) ==
  LET built == {c \in Range(Nesting(d)[n]) : d[c].optional \/ IsElement(d, c)}
  IN  IF built # {} /\ ~IsElement(d, Max(built)) THEN Nop ELSE Zero

(* The bytes of item n when, of the optional items, those in open are there. *)
Image(d, n, open) ==
  IF \A c \in {n} \cup Range(Nesting(d)[n]) : d[c].optional => c \in open
  THEN Default(d[n], Ground(d, n)) ELSE Nops(ItemLen(d[n]))

(* The bytes of items n to m.                                               *)
Images(d, n, m, open) ==
  LET start == Starts(d)
      ItemAt(k) == CHOOSE i \in n..m : k \in start[i]..start[i + 1] - 1
  IN  [k \in 1..start[m + 1] - start[n] |->
         LET at == start[n] + k - 1
         IN  Image(d, ItemAt(at), open)[at - start[ItemAt(at)] + 1]]

(* The constants of a template:                                             *)
(*   item       the declaration                                             *)
(*   start[n]   the first byte of item n                                    *)
(*   within[n]  the containers around item n                                *)
(*   close[n]   the end of container n; n itself if it is a field           *)
(*   mode[n]    the optional ones of within[n]                              *)
(*   outer[n]   within of the elements array that n is reached through      *)
(*   setter[n]  one item for all that share the setter of n: those with the *)
(*              same path, which does not tell elements of one array apart    *)
(*   plumb[f]   the item prepare_for_emit fills for f                       *)
(*   slot[n]    the bytes that make the optional container n present        *)
(*   gap[n]     the bytes that clear_n makes absent                         *)
(*   owned[o]   the items that clear_optionals clears, of element o or, for *)
(*              0, of the template                                          *)
(*   fresh      new()                                                       *)
Layout(d) ==
  LET items == DOMAIN d
      nesting == Nesting(d)
      start == Starts(d)
      close == [n \in items |-> Max(Span(d, n))]
      elements == {n \in items : IsElement(d, n)}
      mode == [n \in items |-> {c \in Range(nesting[n]) : d[c].optional}]
      path(n) == LET p == Append(nesting[n], n)
                 IN  [k \in DOMAIN p |-> IF p[k] \in elements THEN 0
                                        ELSE p[k] - (IF k = 1 THEN 0 ELSE p[k - 1])]
      outer(n) == {c \in Range(nesting[n]) : d[c].kind = "elements"}
      sparse == {n \in items : d[n].kind = "elements" /\ d[n + 1].optional}
      owners(n) == {0} \cup {c \in Range(nesting[n]) : d[c].optional \/ c \in elements}
  IN  [item |-> d, start |-> start, close |-> close, mode |-> mode,
       within |-> [n \in items |-> nesting[n]],
       outer |-> [n \in items |-> IF outer(n) = {} THEN <<>> ELSE nesting[Max(outer(n))]],
       setter |-> [n \in items |-> CHOOSE m \in items : path(m) = path(n)],
       plumb |-> [f \in Plumbing |-> Min(Finds(d, f))],
       slot |-> [n \in {m \in items : d[m].optional /\ d[m].kind \in Containers} |->
                   Images(d, n, close[n], {n} \cup mode[n])],
       gap |-> [n \in {m \in items : d[m].optional} \cup sparse |->
                  IF d[n].optional THEN start[n]..start[close[n] + 1] - 1
                  ELSE start[n] + 1..start[close[n]] - 1],
       owned |-> [o \in {0} \cup elements |->
                    {n \in items : /\ (d[n].optional /\ n \notin elements) \/ n \in sparse
                                   /\ Max(owners(n)) = o}],
       fresh |-> Images(d, 1, Len(d), {})]

Templates == {n \in DOMAIN Declarations : Compiles(Declarations[n])}
Layouts == [n \in Templates |-> Layout(Declarations[n])]

item == lay.item
Items == DOMAIN item

-----------------------------------------------------------------------------
(* The calls of a hook.  Each changes the bytes from b.                     *)

Over(b, at, s) ==
  [k \in DOMAIN b |-> IF k \in at..at + Len(s) - 1 THEN s[k - at + 1] ELSE b[k]]

Without(b, gap) == [k \in DOMAIN b |-> IF k \in gap THEN Nop ELSE b[k]]

(* nop_head_tail_split: the bytes of a slot that are not copied, a single   *)
(* run of NOPs.                                                             *)
Skipped(slot) ==
  LET nops == {k \in DOMAIN slot : slot[k] = Nop}
  IN  IF nops # {} /\ nops = Min(nops)..Max(nops) THEN nops ELSE {}

Blit(b, c) ==
  LET slot == lay.slot[c]
      copied == DOMAIN slot \ Skipped(slot)
      at(k) == k - lay.start[c] + 1
  IN  [k \in DOMAIN b |-> IF at(k) \in copied THEN slot[at(k)] ELSE b[k]]

(* A container is written whether or not it is absent.                      *)
MaterializeAlways(b, c) == Blit(b, c)

(* The optional container c is made present if it is absent.                *)
Materialize(b, c) == IF b[lay.start[c]] = Nop THEN Blit(b, c) ELSE b

(* __txn_template_ensure: the optional ones of the containers around an     *)
(* item, outermost first.                                                   *)
Ensured(b, around) ==
  LET after[k \in 0..Len(around)] ==
        IF k = 0 THEN b
        ELSE IF item[around[k]].optional THEN Materialize(after[k - 1], around[k])
        ELSE after[k - 1]
  IN  after[Len(around)]

(* An item in a homogeneous array is reached through the array's accessor.  *)
Reached(n) == Ensured(bytes, lay.outer[n])

(* The setter of an optional field writes what precedes the payload too.    *)
Opening(i) ==
  <<Header(i.code)>> \o CASE i.kind = "empty" -> Prefix(0)
                          [] i.kind = "fixed" -> Prefix(i.high)
                          [] OTHER -> <<>>

Payload(i, v) ==
  CASE i.kind = "scalar" -> <<<<"value", v>>>>
    [] i.kind = "native" -> Native(v)
    [] i.kind = "fixed" -> Repeat(i.high, <<"value", v>>)
    [] i.kind = "empty" -> <<>>

(* What the setters of a field write; those of an issued amount that is     *)
(* required may write its value alone.                                      *)
Payloads(i) ==
  CASE i.kind = "issued" ->
         {Issued(v) : v \in Inputs}
         \cup IF i.optional THEN {} ELSE {Repeat(NativeLen, <<"issued", v>>) : v \in Inputs}
    [] i.kind = "any" -> {Native(v) : v \in Inputs} \cup {Issued(v) : v \in Inputs}
    [] OTHER -> {Payload(i, v) : v \in Inputs}

Written(b, n, payload) ==
  LET at == lay.start[n]
      opening == Opening(item[n])
  IN  Over(IF item[n].optional THEN Over(b, at, opening) ELSE b,
           at + Len(opening), payload)

Opened(n) == Ensured(Reached(n), lay.within[n])

Settable(n) ==
  \/ item[n].kind \in {"scalar", "native", "issued", "any", "fixed"}
  \/ item[n].kind = "empty" /\ item[n].optional

(* set_n.                                                                   *)
Set(n, payload) ==
  /\ Settable(n)
  /\ bytes' = Written(Opened(n), n, payload)
  /\ touched' = touched \cup {f \in Plumbing : lay.plumb[f] = n}
  /\ UNCHANGED <<compiled, budgets, prepared, nonces>>

Edit(b) ==
  /\ bytes' = b
  /\ UNCHANGED <<compiled, budgets, prepared, touched, nonces>>

(* encode_native_amount refuses the drops after all else is written.        *)
Refuse(n) == item[n].kind \in {"native", "any"} /\ Edit(Written(Opened(n), n, <<>>))

(* The disambiguators of two setters are the same.                          *)
SharedGuardId(setter) == 1

(* The guard_m of a setter's loop, distinct but for a collision of hashes.  *)
(* The elements of a homogeneous array share the setters of one type.       *)
GuardId(setter) == setter

(* set_n of a vl.                                                           *)
Fill(n, len, v) ==
  LET i == item[n]
      setter == lay.setter[n]
      total == spent[GuardId(setter)] + SlotSize(i.high) - PrefixLen(len)
      \* guard_m allows one iteration more than it is asked for
      affordable == total <= SlotSize(i.high) + 1
  IN  /\ i.kind = "vl"
      /\ \/ len \notin i.low..i.high /\ Edit(Opened(n))
         \/ /\ len \in i.low..i.high /\ affordable
            /\ bytes' = Over(Opened(n), lay.start[n],
                 Padded(<<Header(i.code)>> \o Blob(len, <<"value", v>>), ItemLen(i)))
            /\ fills' = [fills EXCEPT ![setter] = @ + 1]
            /\ spent' = [spent EXCEPT ![GuardId(setter)] = total]
            /\ UNCHANGED <<compiled, halted, prepared, touched, nonces>>
         \/ /\ len \in i.low..i.high /\ ~affordable
            /\ fills' = [fills EXCEPT ![setter] = @ + 1]
            /\ halted' = TRUE
            /\ UNCHANGED <<compiled, bytes, spent, prepared, touched, nonces>>

(* reset_n of a required vl.                                                *)
Reset(n) ==
  LET i == item[n]
  IN  /\ i.kind = "vl" /\ ~i.optional
      /\ Edit(Over(Reached(n), lay.start[n],
           Padded(<<Header(i.code)>> \o Blob(i.low, Zero), ItemLen(i))))

(* clear_n, of a field, a container, an element or all optional elements.   *)
Clear(n) == n \in DOMAIN lay.gap /\ Edit(Without(Reached(n), lay.gap[n]))

(* clear_optionals, of the template or of an element.                       *)
ClearOptionals(o) ==
  /\ o \in DOMAIN lay.owned /\ lay.owned[o] # {}
  /\ Edit(Without(IF o = 0 THEN bytes ELSE Reached(o),
                  UNION {lay.gap[n] : n \in lay.owned[o]}))

(* enable_n, and enable of an element, which restores its defaults.         *)
Enable(n) ==
  /\ n \in DOMAIN lay.slot
  /\ Edit(IF n \in DOMAIN lay.owned THEN Over(Reached(n), lay.start[n], lay.slot[n])
          ELSE Materialize(Opened(n), n))

(* The accessor of a homogeneous array, which an index that is out of range *)
(* leaves at None.                                                          *)
Index(n) == item[n].kind = "elements" /\ Edit(Opened(n))

DetailsAt == lay.start[Len(item)]
Stamp(b) == Over(b, DetailsAt, Repeat(DetailsLen, <<"details", nonces + 1>>))

(* etxn_details on emit_details_region.                                     *)
FillDetails ==
  /\ nonces < MaxNonces /\ nonces' = nonces + 1
  /\ bytes' = Stamp(bytes)
  /\ UNCHANGED <<compiled, budgets, prepared, touched>>

Patching(b, f, fee) ==
  LET n == lay.plumb[f]
  IN  Over(b, lay.start[n] + Len(Opening(item[n])), Payload(item[n], Patch(f, fee)))

PreparedLen == DetailsAt - 1 + DetailsLen

(* prepare_for_emit.  When a call of the host fails, what was written       *)
(* stays, and so does the Prepared handle of an earlier call.               *)
Prepare(fails) ==
  LET ledger == Patching(Patching(bytes, sfFirstLedgerSequence, 0),
                         sfLastLedgerSequence, 0)
      own == Patching(ledger, sfAccount, 0)
  IN  /\ \/ /\ fails = "account"
            /\ bytes' = ledger /\ UNCHANGED <<nonces, prepared, touched>>
         \/ /\ fails # "account" /\ ~Answers(fails)
            /\ bytes' = own /\ UNCHANGED <<nonces, prepared, touched>>
         \/ /\ fails = "fee" /\ Answers(fails)
            /\ bytes' = Stamp(own) /\ nonces' = nonces + 1
            /\ UNCHANGED <<prepared, touched>>
         \/ /\ fails = "none" /\ Answers(fails)
            /\ bytes' = Patching(Stamp(own), sfFee, FeeBase(PreparedLen))
            /\ nonces' = nonces + 1
            /\ prepared' = PreparedLen
            /\ touched' = touched \cap {sfSequence}
      /\ UNCHANGED <<compiled, budgets>>

TemplateInit ==
  /\ decl \in Templates /\ lay = Layouts[decl]
  /\ bytes = lay.fresh
  /\ fills = [n \in Items |-> 0] /\ spent = [n \in Items |-> 0]
  /\ prepared = 0 /\ touched = {} /\ halted = FALSE

TemplateNext ==
  /\ ~halted
  /\ \/ \E n \in Items :
          \/ \E payload \in (IF Settable(n) THEN Payloads(item[n]) ELSE {}) : Set(n, payload)
          \/ \E len \in 0..item[n].high + 1, v \in Inputs : Fill(n, len, v)
          \/ Refuse(n) \/ Reset(n) \/ Clear(n) \/ Enable(n) \/ Index(n)
     \/ \E o \in {0} \cup Items : ClearOptionals(o)
     \/ FillDetails
     \/ \E fails \in Failures : Prepare(fails)

TemplateSpec ==
  TemplateInit /\ nonces = 0 /\ [][TemplateNext]_<<templateVars, nonces>>

-----------------------------------------------------------------------------
(* The host.                                                                *)

(* walk_fields, walk_array_body, with NOPs: found are the fields and the    *)
(* containers, each with its place, its code and the place of the container *)
(* it is in.  next is what the walk expects after skip bytes.               *)
Fail(s) == [s EXCEPT !.ok = FALSE]

FindField(b, s, k, next) ==
  [s EXCEPT !.next = next, !.found = @ \cup {<<k, b[k][2], Last(s.open).at>>}]

Enter(b, s, k) ==
  IF Len(s.open) > MaxWalkDepth THEN Fail(s)
  ELSE [FindField(b, s, k, "header") EXCEPT
          !.open = Append(@, [kind |-> sti[b[k][2]], at |-> k, nops |-> 0])]

Headed(b, s, k) ==
  LET type == sti[b[k][2]]
  IN  IF Last(s.open).kind = "array" /\ type # "object" THEN Fail(s)
      ELSE CASE type \in {"object", "array"} -> Enter(b, s, k)
             [] type = "scalar" -> [FindField(b, s, k, "header") EXCEPT !.skip = 1]
             [] OTHER -> FindField(b, s, k, type)

ReadHeader(b, s, k) ==
  LET kind == b[k][1]
  IN  CASE kind = "nop" ->
             IF Last(s.open).nops = MaxNops THEN Fail(s)
             ELSE [s EXCEPT !.open[Len(s.open)].nops = @ + 1]
        [] kind = "header" -> Headed(b, s, k)
        [] kind = "end_object" /\ Len(s.open) > 1 /\ Last(s.open).kind = "object"
             -> [s EXCEPT !.open = Front(@)]
        [] kind = "end_array" /\ Last(s.open).kind = "array"
             -> [s EXCEPT !.open = Front(@)]
        [] kind = "details" /\ Len(s.open) = 1
             -> [s EXCEPT !.found = @ \cup {<<k, "none", 0>>}, !.skip = DetailsLen - 1]
        [] OTHER -> Fail(s)

Read(b, s, k) ==
  IF ~s.ok THEN s
  ELSE IF s.skip > 0 THEN [s EXCEPT !.skip = @ - 1]
  ELSE CASE s.next = "header" -> ReadHeader(b, s, k)
         [] s.next = "amount" ->
              [s EXCEPT !.next = "header",
                        !.skip = (IF b[k][1] = "native" THEN NativeLen ELSE IssuedLen) - 1]
         [] OTHER ->
              IF b[k][1] # "length" THEN Fail(s)
              ELSE [s EXCEPT !.next = "header", !.skip = SlotSize(b[k][2]) - 1]

Unread == [ok |-> TRUE, skip |-> 0, next |-> "header", found |-> {},
           open |-> <<[kind |-> "object", at |-> 0, nops |-> 0]>>]

Parse(b) ==
  LET after[k \in 0..Len(b)] == IF k = 0 THEN Unread ELSE Read(b, after[k - 1], k)
      end == after[Len(b)]
  IN  [found |-> end.found,
       ok |-> end.ok /\ end.skip = 0 /\ end.next = "header" /\ Len(end.open) = 1]

(* The first byte of the value of a field found at k; 0 for an empty blob.  *)
Held(b, k) ==
  IF sti[b[k][2]] # "vl" THEN b[k + 1][2]
  ELSE IF b[k + 1][2] = 0 THEN 0 ELSE b[k + 1 + PrefixLen(b[k + 1][2])][2]

(* reject_duplicate_fields; the elements of one array share a field code.   *)
NoTwins(b, found) ==
  \A x, y \in found :
    /\ x # y /\ x[2] = y[2] /\ x[3] = y[3]
    => x[3] # 0 /\ sti[b[x[3]][2]] = "array"

(* validate_emit_blob.                                                      *)
Acceptable(b) ==
  LET walk == Parse(b)
      values(f) == {Held(b, x[1]) : x \in {y \in walk.found : y[2] = f /\ y[3] = 0}}
  IN  /\ walk.ok /\ NoTwins(b, walk.found)
      /\ FieldsAccepted([f \in Plumbing \cup {sfTransactionType} |-> values(f)],
           {b[x[1]][2] : x \in {y \in walk.found : y[2] = "none"}}, Len(b))

-----------------------------------------------------------------------------
(* What the declaration promises.                                           *)

IsPresent(b, n) ==
  \A m \in {n} \cup Range(lay.within[n]) : b[lay.start[m]] # Nop

Declared == {n \in Items : item[n].kind \in DOMAIN Sti}

(* An issued amount was replaced by a native one, whose setter leaves the   *)
(* rest of it: "call this *before* its issued setter within one execution,  *)
(* never after" (txn.rs:5617).                                              *)
LateNative(b, n) ==
  /\ item[n].kind = "any" /\ b[lay.start[n] + 1][1] = "native"
  /\ \E k \in lay.start[n] + 1 + NativeLen..lay.start[n] + IssuedLen : b[k] # Nop

(* An optional amount was refused, which leaves its header.                 *)
Hollow(b, n) ==
  /\ item[n].kind \in {"native", "any"}
  /\ b[lay.start[n]] # Nop /\ b[lay.start[n] + 1] = Nop

(* A required vl was reset in an absent container.                          *)
Orphan(b, n) ==
  /\ item[n].kind = "vl" /\ b[lay.start[n]] # Nop
  /\ \E c \in Range(lay.within[n]) : b[lay.start[c]] = Nop

Damaged(b) == \E n \in Items : LateNative(b, n) \/ Hollow(b, n) \/ Orphan(b, n)

(* Whatever the calls, the host's parser finds the fields and containers    *)
(* that are present, at their places and in their containers, and nothing   *)
(* else: no container holds more NOPs than it may, no optional container is *)
(* half there.  Excepted are the three ways in which the setters themselves *)
(* leave a field broken (txn.rs:2386-2570, 5602-6580 against emit_walk.rs   *)
(* walk_fields).                                                            *)
ReadAsDeclared ==
  LET walk == Parse(SubSeq(bytes, 1, DetailsAt - 1))
      present == {n \in Declared : IsPresent(bytes, n)}
      place(n) == IF lay.within[n] = <<>> THEN 0 ELSE lay.start[Last(lay.within[n])]
  IN  ~Damaged(bytes) =>
        /\ walk.ok
        /\ walk.found = {<<lay.start[n], item[n].code, place(n)>> : n \in present}

Content(b, n) == SubSeq(b, lay.start[n], lay.start[n + 1] - 1)

(* What enabling the innermost optional container around n makes of n.      *)
Defaults(n) ==
  LET c == Max(lay.mode[n])
      at == lay.start[n] - lay.start[c]
  IN  SubSeq(lay.slot[c], at + 1, at + ItemLen(item[n]))

Leaves == {n \in Declared : item[n].kind \notin Containers}

KeptField(b, b2, n) ==
  \/ ~IsPresent(b2, n)
  \/ IF IsPresent(b, n) THEN Content(b2, n) = Content(b, n)
     ELSE lay.mode[n] # {} /\ Content(b2, n) = Defaults(n)

OneFieldChanged ==
  LET changed == {n \in Leaves : ~KeptField(bytes, bytes', n)}
  IN  \/ Cardinality(changed) <= 1
      \/ changed \subseteq {lay.plumb[f] : f \in Patched}
      \/ \E e \in DOMAIN lay.owned \ {0} :
           \A n \in changed : e \in Range(lay.within[n]) /\ Content(bytes', n) = Defaults(n)

(* A call changes what it names and nothing else: of the fields that are    *)
(* there after it, all but one are as they were or, if the call made their  *)
(* container present, at the container's defaults.  prepare_for_emit may    *)
(* change the plumbing, and enable of an element the whole element          *)
(* (txn.rs:2462-2520: the copy into an absent container must not run on one *)
(* that is present, or it would undo what was set in it).                   *)
OneFieldPerCall ==
  [][bytes' = bytes \/ Damaged(bytes) \/ OneFieldChanged]_templateVars

(* A Prepared handle is what emit accepts: if the hook has set no plumbing  *)
(* since, whatever else it set, cleared or enabled, and the details are the *)
(* latest, the host finds every field it asks for at the top level, with a  *)
(* legal value (txn.rs prepare_for_emit, Prepared; emit_walk.rs             *)
(* validate_emit_blob).                                                     *)
PreparedIsAccepted ==
  /\ prepared # 0 /\ touched = {} /\ ~Damaged(bytes)
  /\ bytes[DetailsAt] = <<"details", nonces>>
  => Acceptable(SubSeq(bytes, 1, prepared))

(* A hook that fills each vl field at most once, in any order, is never     *)
(* halted by the guard: the budgets of two setters do not mix, and one call *)
(* stays within its own (txn.rs:5843-5885).                                 *)
FillsShareNoBudget ==
  halted => \E s \in Items : fills[s] > 1
=============================================================================
