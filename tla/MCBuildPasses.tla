--------------------------- MODULE MCBuildPasses ----------------------------
(***************************************************************************)
(* The pipeline of a build, seen twice: bodies are varied in a module of   *)
(* plain sections, sections in a module of straight bodies.  No pass looks *)
(* at both.                                                                *)
(***************************************************************************)
EXTENDS MCControlPasses, MCModulePasses

BuildInit == Init /\ SectionsInit

BodiesTurn == at = "writing" /\ source = Alone
SectionsTurn == stage = "hook" /\ hook = <<>>

BuildNext ==
  \/ BodiesTurn /\ Next /\ UNCHANGED sectionVars
  \/ SectionsTurn /\ SectionsNext /\ UNCHANGED vars

BuildSpec == BuildInit /\ [][BuildNext]_<<vars, sectionVars>>

=============================================================================
