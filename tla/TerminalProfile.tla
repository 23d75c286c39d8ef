---------------------------- MODULE TerminalProfile ----------------------------
(***************************************************************************)
(* The terminal integration on macOS: cng service terminal-enable and      *)
(* terminal-disable, and the removal that uninstall tries, edit the user's *)
(* ~/.zprofile.  It is rewritten in place, so that a write that fails, or  *)
(* ends with its process, leaves the beginning of what was to be written.  *)
(* It is a sequence of lines here; one that is not there is an empty one.  *)
(***************************************************************************)
EXTENDS Naturals, Sequences

CONSTANT UserTexts      \* what the user may write into the profile

Block == <<"start", "path", "end">>

Managed(line) == line \in {"start", "path", "end"}

UserLine == UNION {{t[i] : i \in DOMAIN t} : t \in UserTexts}

ASSUME UserTextAssumption ==
    /\ \A t \in UserTexts : t \in Seq(UserLine)
    /\ \A line \in UserLine : ~Managed(line)

VARIABLES
    profile,        \* .zprofile
    readable,       \* it is UTF-8
    shellBackup,    \* shell-backup/zprofile is there
    mine,           \* history: the user's own lines, as last written
    said            \* history: the last command that reported no error;
                    \* "broken" from one that failed at the profile, or could
                    \* not read it, until the user writes it as a whole

file == <<profile, readable, shellBackup>>
terminalVars == <<file, mine, said>>

TerminalInit ==
    /\ profile \in UserTexts /\ mine = profile
    /\ readable \in BOOLEAN
    /\ shellBackup = FALSE /\ said = "none"

---------------------------------------------------------------------------
At(text, line) == {i \in DOMAIN text : text[i] = line}

First(S) == CHOOSE i \in S : \A j \in S : i <= j

(* Blank lines at the end are dropped, as long as one is before them. *)
Trim(text) ==
    SubSeq(text, 1, CHOOSE n \in 0..Len(text) :
                       /\ \A i \in n + 1..Len(text) : i > 1 /\ text[i] = "blank"
                       /\ n > 1 => text[n] # "blank")

(* mutant: everything from the first line of the block on is removed *)
RemovedToTheEnd(text) ==
    IF At(text, "start") = {} THEN text
    ELSE Trim(SubSeq(text, 1, First(At(text, "start")) - 1))

(* remove_managed_block: a block without its end is left alone. *)
Removed(text) ==
    LET starts == At(text, "start")
        ends   == {i \in At(text, "end") : \E s \in starts : s < i /\ First(starts) = s}
    IN  IF starts = {} \/ ends = {} THEN text
        ELSE Trim(SubSeq(text, 1, First(starts) - 1)
                  \o SubSeq(text, First(ends) + 1, Len(text)))

Appended(text) == IF At(text, "start") = {} THEN text \o Block ELSE text

(* What a write of text that breaks off may leave. *)
Cuts(text) == {SubSeq(text, 1, n) : n \in 0..Len(text)}

(* read_to_string(..).unwrap_or_default() *)
Readable == IF readable THEN profile ELSE <<>>

(* The first copy is kept. *)
BackUpProfile ==
    shellBackup' = (shellBackup \/ (profile # <<>> /\ At(Readable, "start") = {}))

Report(word) ==
    /\ said' = IF said = "broken" THEN "broken" ELSE word
    /\ UNCHANGED mine

(* Nothing is said of the user's lines from here on. *)
Break == said' = "broken" /\ mine' = <<>>

(* terminal-enable. *)
Enable ==
    /\ profile' = Appended(Readable)
    /\ readable' = TRUE
    /\ BackUpProfile
    /\ IF readable THEN Report("enabled") ELSE Break

(* Before the write, or in its middle. *)
EnableBreaks ==
    /\ At(Readable, "start") = {}
    /\ \/ /\ UNCHANGED <<profile, readable, mine, said>>
          /\ UNCHANGED shellBackup \/ BackUpProfile
       \/ /\ profile' \in Cuts(Appended(Readable))
          /\ readable' = TRUE
          /\ BackUpProfile
          /\ Break

(* terminal-disable. *)
DisableProfile ==
    /\ readable
    /\ profile' = Removed(profile)
    /\ Report("disabled")
    /\ UNCHANGED <<readable, shellBackup>>

(* The profile cannot be read or written, or the write breaks off. *)
DisableBreaks ==
    /\ \/ UNCHANGED profile
       \/ readable /\ profile' \in Cuts(Removed(profile))
    /\ Break
    /\ UNCHANGED <<readable, shellBackup>>

(* The user writes the profile anew, or lines before and behind the block. *)
UserEdits ==
    /\ \/ /\ profile' \in UserTexts /\ mine' = profile'
          /\ said' = "none"
       \/ /\ At(profile, "end") # {}
          /\ \E before, behind \in UserTexts :
                /\ profile' = before \o Block \o behind
                /\ mine' = IF said = "broken" THEN <<>> ELSE before \o behind
          /\ UNCHANGED said
    /\ readable' \in BOOLEAN
    /\ UNCHANGED shellBackup

TerminalNext == Enable \/ EnableBreaks \/ DisableProfile \/ DisableBreaks

---------------------------------------------------------------------------
(* Properties.                                                             *)

(* The lines that are not the block's. *)
Lines(text) ==
    LET kept[n \in 0..Len(text)] ==
            IF n = 0 THEN <<>>
            ELSE IF Managed(text[n]) THEN kept[n - 1] ELSE Append(kept[n - 1], text[n])
    IN  kept[Len(text)]

(* "terminal-enable adds only a clearly delimited PATH management block in *)
(* ~/.zprofile; terminal-disable removes it completely" (README.en.md): as *)
(* often as the two and the user's edits alternate, the user's lines are   *)
(* the user's, up to blank ones at the end, and the block is there once or *)
(* not at all.                                                             *)
ProfileIsMine ==
    said # "broken" =>
        /\ Trim(Lines(profile)) = Trim(mine)
        /\ said = "enabled"  => Len(profile) = Len(Lines(profile)) + Len(Block)
        /\ said = "disabled" => profile = Lines(profile)
=============================================================================
