---------------------------- MODULE MCStoWriter ----------------------------
(***************************************************************************)
(* A buffer of a few one-byte fields and a longer one, empty or already    *)
(* holding the six plumbing fields.                                        *)
(***************************************************************************)
EXTENDS StoWriter

CONSTANTS sfAmount, sfMemoData, sfEntry, sfEntries,
          MaxFresh, MaxAfter    \* other tokens in a new and in a resumed buffer

MCLength == [f \in Field \cup ObjectField \cup ArrayField |->
               IF f \in VlField THEN 3 ELSE 1]

Canonical == <<sfSequence, sfFirstLedgerSequence, sfLastLedgerSequence, sfFee,
               sfSigningPubKey, sfAccount>>
Baked == [n \in 1..Len(Canonical) |-> FieldToken(Canonical[n])]
MCResumed == {<<>>, Baked}

(* The plumbing is written in one of these orders.                          *)
Orders == {Canonical,
           <<sfFee, sfAccount, sfSequence, sfLastLedgerSequence, sfSigningPubKey,
             sfFirstLedgerSequence>>}

Ranks == {[f \in Plumbing |-> CHOOSE n \in 1..6 : o[n] = f] : o \in Orders}

Explored ==
  LET plumbing == SelectSeq(written, LAMBDA t : t.code \in Plumbing)
      others == SelectSeq(written, LAMBDA t : t.code \notin Plumbing /\ t.kind # "details")
  IN  /\ Len(others) <= IF IsPrefix(Baked, written) THEN MaxAfter ELSE MaxFresh
      /\ \E rank \in Ranks : \A n \in 2..Len(plumbing) :
           rank[plumbing[n - 1].code] <= rank[plumbing[n].code]
=============================================================================
