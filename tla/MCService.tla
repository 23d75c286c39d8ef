------------------------------- MODULE MCService -------------------------------
(***************************************************************************)
(* Setup on both builds, with one value of the user's own beside the unset *)
(* variable, and a profile that is empty or ends with a blank line.  Every *)
(* length of the history is covered: commands, failures and logins repeat  *)
(* without a bound.                                                        *)
(***************************************************************************)
EXTENDS Setup

MCUserTexts == {<<>>, <<"line", "blank">>}
=============================================================================
