-------------------------- MODULE MCEquationEditor --------------------------
(* Two base channels, room for two more, drafts of every shape. *)
EXTENDS EquationEditor
MCBase == <<"Va", "Vn">>
MCAutoNames == <<"Ch1", "Ch2", "Ch3", "Ch4">>
MCDrafts ==
  {Equation("", "sine", 1), Equation("", "const", 0), Equation("", "nested", 0),
   Equation("", "bad", 0), Equation("Ch1", "other", 0)}
=============================================================================
