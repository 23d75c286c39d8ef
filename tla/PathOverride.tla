----------------------------- MODULE PathOverride -----------------------------
(***************************************************************************)
(* What the guard promises to do with CODEX_CLI_PATH, a variable that the  *)
(* user owns: the wrapper takes its place only while the wrapper is there  *)
(* and the user's value is kept; what is kept is put back only after a     *)
(* look that found the wrapper; nothing that the variable still needs is   *)
(* dropped.  Which command does what, and where one may break off, is left *)
(* open.  Reads may fail, and misread says what has come of it: a look     *)
(* that missed the wrapper, a value kept, or put back, that is not the     *)
(* user's.                                                                 *)
(***************************************************************************)
CONSTANTS
    UserPath,       \* values of the user's own
    Unset,          \* the variable is not set
    Wrapper,        \* it names the wrapper
    Nothing         \* no value is kept

VARIABLES
    value,          \* what the variable says
    kept,           \* the user's value that is kept
    wrapper,        \* the wrapper is there
    looked,         \* a look has just found that the variable names it
    misread         \* of "look" and "value", what went wrong

overrideVars == <<value, kept, wrapper, looked, misread>>

Own == UserPath \cup {Unset}

OverrideInit ==
    /\ value \in Own
    /\ kept = Nothing
    /\ wrapper = FALSE
    /\ looked = FALSE
    /\ misread = {}

(* The user sets the variable, or a login unsets it and ends the command   *)
(* that looked.                                                            *)
OwnerSets ==
    /\ value' \in Own
    /\ looked' \in {looked, FALSE}
    /\ misread' = misread \ {"look"}
    /\ UNCHANGED <<kept, wrapper>>

PutWrapper == wrapper' = TRUE /\ UNCHANGED <<value, kept, looked, misread>>

(* Only a value of the user's own is kept, and none in the place of        *)
(* another.  The wrapper is there, and the harm of a look that missed it   *)
(* is over; what such a look has dropped is lost.                          *)
Keep ==
    /\ wrapper
    /\ \/ /\ kept # Nothing /\ kept' = kept
          /\ misread' = misread \ {"look"}
       \/ /\ kept = Nothing /\ value \in Own /\ kept' = value
          /\ misread' = misread \ {"look"}
       \/ /\ kept = Nothing /\ kept' = Unset
          /\ value = Wrapper => "look" \in misread
          /\ misread' = (misread \ {"look"}) \cup {"value"}
    /\ UNCHANGED <<value, wrapper, looked>>

Override ==
    /\ wrapper
    /\ kept # Nothing
    /\ value' = Wrapper
    /\ UNCHANGED <<kept, wrapper, looked, misread>>

Look ==
    /\ value = Wrapper
    /\ \/ looked' = TRUE /\ UNCHANGED misread
       \/ misread' = misread \cup {"look"} /\ UNCHANGED looked
    /\ UNCHANGED <<value, kept, wrapper>>

(* The variable is no longer looked at: the command failed, or died. *)
LookAway == looked' = FALSE /\ UNCHANGED <<value, kept, wrapper, misread>>

(* What the user makes of the variable between the look and this step is   *)
(* lost.                                                                   *)
PutBack ==
    /\ looked
    /\ \/ /\ value' = IF kept = Nothing THEN Unset ELSE kept
          /\ misread' = misread \ {"look"}
       \/ /\ kept # Nothing /\ value' = Unset
          /\ misread' = (misread \ {"look"}) \cup {"value"}
    /\ looked' = FALSE
    /\ UNCHANGED <<kept, wrapper>>

Unneeded == value # Wrapper \/ "look" \in misread

Drop ==
    /\ Unneeded
    /\ kept' = Nothing
    /\ misread' = misread \ {"value"}
    /\ UNCHANGED <<value, wrapper, looked>>

TakeWrapper ==
    /\ Unneeded
    /\ kept = Nothing
    /\ wrapper' = FALSE
    /\ UNCHANGED <<value, kept, looked, misread>>

OverrideNext ==
    \/ OwnerSets \/ PutWrapper \/ Keep \/ Override
    \/ Look \/ LookAway \/ PutBack \/ Drop \/ TakeWrapper

OverrideSpec == OverrideInit /\ [][OverrideNext]_overrideVars
=============================================================================
