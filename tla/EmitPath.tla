------------------------------ MODULE EmitPath ------------------------------
(***************************************************************************)
(* One hook that builds a transaction with a StoWriter and another from a  *)
(* template: both take their EmitDetails from the same host, which knows   *)
(* only the latest ones.                                                   *)
(***************************************************************************)
EXTENDS StoWriter, TxnTemplate

PathInit == Init /\ TemplateInit

PathNext ==
  \/ Next /\ UNCHANGED templateVars
  \/ TemplateNext /\ UNCHANGED <<writer, ret>>

PathSpec == PathInit /\ [][PathNext]_<<vars, templateVars>>

(* Of two prepared transactions emit accepts at most one: whichever was     *)
(* prepared first holds details that are no longer the latest, and nothing  *)
(* tells the hook before emit refuses it (emit_walk.rs:731-739,             *)
(* backend.rs:338-369).                                                     *)
NeverBothAcceptable ==
  finalized /\ prepared # 0
    => ~(Accepts(written, pos) /\ Acceptable(SubSeq(bytes, 1, prepared)))
=============================================================================
