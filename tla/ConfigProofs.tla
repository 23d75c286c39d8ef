----------------------------- MODULE ConfigProofs -----------------------------
(***************************************************************************)
(* The configuration file, for any number of processes and configurations. *)
(*                                                                         *)
(* Neither FileIsWhole nor FileIsPrivate is inductive: ConfigInv adds what *)
(* a save that runs alone has already made of config.tmp, and that without *)
(* a clash every save runs alone.                                          *)
(***************************************************************************)
EXTENDS ConfigStore, TLAPS

(* What is saved is a configuration. *)
ValueInv ==
    \A p \in Process :
        proc[p].pc \in WriteStage \cup {"renamed"} => proc[p].value \in Config

(* Names that are not there, and handles that are not held. *)
NamesInv ==
    /\ toml.text = NoFile => toml = Missing
    /\ tmp.text = NoFile => tmp = Missing
    /\ \A p \in Process : proc[p].pc = "read" => toml # Missing

AloneInv ==
    /\ \A p, q \in alone : p = q
    /\ alone # {} \/ ~clash => Saving \subseteq alone

(* How far a save that runs alone is. *)
Progress(p) ==
    /\ proc[p].pc = "write" => proc[p].handle = "tmp" /\ tmp.text = Empty
    /\ proc[p].pc \in {"protect", "rename"} => tmp.text = proc[p].value
    /\ proc[p].pc = "rename" => tmp.private

ConfigInv ==
    /\ ValueInv
    /\ NamesInv
    /\ AloneInv
    /\ \A p \in alone \cap Saving : Progress(p)
    /\ ~clash => toml = Missing \/ (toml.text \in Config /\ toml.private)

Stage == {"idle", "read", "renamed"} \cup WriteStage

ProcType == [pc : Stage, value : Config \cup {NoFile}, handle : Handle]

(* What each action does to the processes and the files. *)
LEMMA EnterEffect ==
  ASSUME ConfigTypeOK, NEW p \in Process, NEW c \in Config, Enter(p, c)
  PROVE  /\ proc' \in [Process -> ProcType]
         /\ proc'[p] = [pc |-> "open", value |-> c, handle |-> "none"]
         /\ \A q \in Process \ {p} : proc'[q] = proc[q]
  BY DEF ConfigTypeOK, Enter, ProcType, Stage, WriteStage, Handle

(* Look begins the save of the defaults, or a read. *)
LEMMA LookEffect ==
  ASSUME ConfigTypeOK, NEW p \in Process, Look(p)
  PROVE  \/ toml = Missing /\ Enter(p, Defaults)
         \/ /\ toml # Missing
            /\ proc' \in [Process -> ProcType]
            /\ proc'[p] = [proc[p] EXCEPT !.pc = "read"]
            /\ \A q \in Process \ {p} : proc'[q] = proc[q]
            /\ UNCHANGED <<toml, tmp, reply, alone, clash>>
<1>1. CASE StartRead(p)
  BY <1>1 DEF StartRead, ConfigTypeOK, ProcType, Stage, WriteStage
<1> QED BY <1>1 DEF Look

(* The steps of a save that keep their process busy. *)
LEMMA SaveEffect ==
  ASSUME ConfigTypeOK, NEW p \in Process, Open(p) \/ Write(p) \/ Protect(p)
  PROVE  /\ proc' \in [Process -> ProcType]
         /\ proc[p].pc \in WriteStage /\ proc'[p].pc \in WriteStage
         /\ proc'[p].value = proc[p].value
         /\ \A q \in Process \ {p} : proc'[q] = proc[q]
         /\ UNCHANGED <<reply, alone, clash>>
<1>1. CASE Open(p)
  BY <1>1 DEF Open, ConfigTypeOK, ProcType, Stage, WriteStage, Handle
<1>2. CASE Write(p)
  BY <1>2 DEF Write, ConfigTypeOK, ProcType, Stage, WriteStage, Handle
<1>3. CASE Protect(p)
  BY <1>3 DEF Protect, ConfigTypeOK, ProcType, Stage, WriteStage
<1> QED BY <1>1, <1>2, <1>3

(* The rename changes where the other handles lead, and nothing else of    *)
(* the other processes.                                                    *)
LEMMA RenameEffect ==
  ASSUME ConfigTypeOK, NEW p \in Process, Rename(p)
  PROVE  /\ proc' \in [Process -> ProcType]
         /\ proc'[p].pc = "renamed" /\ proc'[p].value = proc[p].value
         /\ \A q \in Process \ {p} : /\ proc'[q].pc = proc[q].pc
                                     /\ proc'[q].value = proc[q].value
<1>1. \A h \in Handle : Moved(h) \in Handle
  BY DEF Moved, Handle
<1>2. \A q \in Process : proc[q] \in ProcType
  BY DEF ConfigTypeOK, ProcType, Stage
<1>3. \A q \in Process :
        proc'[q] = [proc[q] EXCEPT !.pc = IF q = p THEN "renamed" ELSE proc[q].pc,
                                   !.handle = Moved(proc[q].handle)]
  BY DEF Rename
<1>4. \A q \in Process :
         /\ proc'[q] \in ProcType
         /\ proc'[q].pc = IF q = p THEN "renamed" ELSE proc[q].pc
         /\ proc'[q].value = proc[q].value
  <2> TAKE q \in Process
  <2> DEFINE h == Moved(proc[q].handle)
  <2>1. h \in Handle
    BY <1>1, <1>2 DEF ProcType
  <2> HIDE DEF h
  <2>2. proc'[q] = [proc[q] EXCEPT !.pc = IF q = p THEN "renamed" ELSE proc[q].pc, !.handle = h]
    BY <1>3 DEF h
  <2> QED BY <1>2, <2>1, <2>2 DEF ProcType, Stage
<1>5. proc' = [q \in Process |-> proc'[q]]
  BY DEF Rename
<1> QED BY <1>4, <1>5

(* An operation that is over. *)
LEMMA IdleEffect ==
  ASSUME ConfigTypeOK, NEW p \in Process, Read(p) \/ Return(p) \/ Stop(p)
  PROVE  /\ proc' \in [Process -> ProcType]
         /\ proc'[p] = Idle
         /\ \A q \in Process \ {p} : proc'[q] = proc[q]
         /\ UNCHANGED <<alone, clash>>
<1>1. Idle \in ProcType
  BY DEF Idle, ProcType, Stage, Handle
<1>2. proc' = [proc EXCEPT ![p] = Idle] /\ UNCHANGED <<alone, clash>>
  BY DEF Read, Return, Stop
<1>3. proc \in [Process -> ProcType]
  BY DEF ConfigTypeOK, ProcType, Stage
<1> QED BY <1>1, <1>2, <1>3

(* A file is written only through the handle its process holds. *)
LEMMA FillEffect ==
  ASSUME ConfigTypeOK, NEW p \in Process, NEW x \in Text, Fill(p, x)
  PROVE  /\ toml' \in File /\ tmp' \in File
         /\ tmp'  = IF proc[p].handle = "tmp"  THEN [text |-> x, private |-> tmp.private]  ELSE tmp
         /\ toml' = IF proc[p].handle = "toml" THEN [text |-> x, private |-> toml.private] ELSE toml
  BY DEF Fill, ConfigTypeOK, File

(* What a save writes is its configuration, or torn. *)
LEMMA LaidType ==
  ASSUME NEW c \in Config, NEW old
  PROVE  Laid(old, c) \subseteq {c, Torn} /\ Laid(Empty, c) = {c}
  BY DEF Laid

(* No step makes a save forget its configuration. *)
LEMMA ValueStep == ConfigTypeOK /\ ValueInv /\ [ConfigNext]_configVars => ValueInv'
<1> SUFFICES ASSUME ConfigTypeOK, ValueInv, [ConfigNext]_configVars PROVE ValueInv'
  OBVIOUS
<1> USE DEF ValueInv
<1>1. ASSUME NEW p \in Process, NEW c \in Config, Enter(p, c)
      PROVE  ValueInv'
  <2>1. proc'[p].value = c /\ \A q \in Process \ {p} : proc'[q] = proc[q]
    BY <1>1 DEF Enter, ConfigTypeOK
  <2> QED BY <2>1
<1>2. ASSUME NEW p \in Process, StartSave(p) \/ Look(p) PROVE ValueInv'
  <2>1. CASE StartSave(p)
    BY <1>1, <2>1 DEF StartSave
  <2>2. CASE Look(p)
    <3>1. CASE proc'[p] = [proc[p] EXCEPT !.pc = "read"]
               /\ \A q \in Process \ {p} : proc'[q] = proc[q]
      BY <3>1 DEF WriteStage, ConfigTypeOK
    <3> QED BY <1>1, <2>2, <3>1, LookEffect, ConfigAssumption
  <2> QED BY <1>2, <2>1, <2>2
<1>3. ASSUME NEW p \in Process, Open(p) \/ Write(p) \/ Protect(p) PROVE ValueInv'
  BY <1>3, SaveEffect
<1>4. ASSUME NEW p \in Process, Rename(p) PROVE ValueInv'
  <2>1. proc[p].pc \in WriteStage
    BY <1>4 DEF Rename, WriteStage
  <2> QED BY <1>4, <2>1, RenameEffect
<1>5. ASSUME NEW p \in Process, Read(p) \/ Return(p) \/ Stop(p) PROVE ValueInv'
  BY <1>5, IdleEffect DEF Idle, WriteStage
<1>6. CASE UNCHANGED configVars
  BY <1>6 DEF configVars
<1> QED BY <1>2, <1>3, <1>4, <1>5, <1>6 DEF ConfigNext

(* The type invariant; a read ends with a configuration or an error.       *)
THEOREM ConfigTypeCorrect == ConfigSpec => []ConfigTypeOK
<1> USE DEF ConfigTypeOK
<1>1. ConfigInit => ConfigTypeOK
  <2> SUFFICES ASSUME ConfigInit PROVE ConfigTypeOK
    OBVIOUS
  <2>1. Missing \in File /\ Idle \in ProcType
    BY DEF Missing, File, Idle, ProcType, Stage, Handle
  <2> QED BY <2>1 DEF ConfigInit, ProcType, Stage
<1>2. ConfigTypeOK /\ ValueInv /\ [ConfigNext]_configVars => ConfigTypeOK'
  <2> SUFFICES ASSUME ConfigTypeOK, ValueInv, [ConfigNext]_configVars PROVE ConfigTypeOK'
    OBVIOUS
  <2>0. ASSUME NEW p \in Process, NEW c \in Config, Enter(p, c)
        PROVE  ConfigTypeOK'
    <3>1. clash' \in BOOLEAN
      BY <2>0 DEF Enter
    <3>2. alone' \in SUBSET Process
      BY <2>0 DEF Enter
    <3> QED BY <2>0, <3>1, <3>2, EnterEffect DEF Enter, ProcType, Stage
  <2>1. ASSUME NEW p \in Process, StartSave(p) PROVE ConfigTypeOK'
    BY <2>0, <2>1 DEF StartSave
  <2>2. ASSUME NEW p \in Process, Look(p) PROVE ConfigTypeOK'
    BY <2>0, <2>2, LookEffect, ConfigAssumption DEF ProcType, Stage
  <2>3. ASSUME NEW p \in Process, Read(p) PROVE ConfigTypeOK'
    <3>1. \A x : Parsed(x) \subseteq Config \cup {Failed}
      BY ConfigAssumption DEF Parsed
    <3>2. reply' \in [Process -> Config \cup {Failed, NoReply}]
      BY <2>3, <3>1 DEF Read
    <3> QED BY <2>3, <3>2, IdleEffect DEF Read, ProcType, Stage
  <2>4. ASSUME NEW p \in Process, Open(p) PROVE ConfigTypeOK'
    BY <2>4, SaveEffect DEF Open, ProcType, Stage, File, Text
  <2>5. ASSUME NEW p \in Process, Write(p) PROVE ConfigTypeOK'
    <3>1. proc[p].value \in Config \cup {NoFile}
      OBVIOUS
    <3>2. PICK x \in Laid(Held(p), proc[p].value) : Fill(p, x)
      BY <2>5 DEF Write
    <3>3. x \in Text \cup {NoFile}
      BY <3>1, <3>2 DEF Laid, Text
    <3>4. toml' \in File /\ tmp' \in File
      BY <3>2, <3>3 DEF Fill, File
    <3> QED BY <2>5, <3>4, SaveEffect DEF ProcType, Stage
  <2>6. ASSUME NEW p \in Process, Protect(p) PROVE ConfigTypeOK'
    BY <2>6, SaveEffect DEF Protect, ProcType, Stage, File
  <2>7. ASSUME NEW p \in Process, Rename(p) PROVE ConfigTypeOK'
    <3>1. clash' \in BOOLEAN
      BY <2>7 DEF Rename
    <3> QED BY <2>7, <3>1, RenameEffect DEF Rename, ProcType, Stage, Missing, File
  <2>8. ASSUME NEW p \in Process, Return(p) PROVE ConfigTypeOK'
    BY <2>8, IdleEffect DEF Return, ProcType, Stage, ValueInv
  <2>9. ASSUME NEW p \in Process, Stop(p) PROVE ConfigTypeOK'
    <3>1. toml' \in File /\ tmp' \in File
      BY <2>9, FillEffect DEF Stop, Text
    <3> QED BY <2>9, <3>1, IdleEffect DEF Stop, ProcType, Stage
  <2>10. CASE UNCHANGED configVars
    BY <2>10 DEF configVars
  <2> QED BY <2>1, <2>2, <2>3, <2>4, <2>5, <2>6, <2>7, <2>8, <2>9, <2>10 DEF ConfigNext
<1>3. ConfigInit => ValueInv
  BY DEF ConfigInit, ValueInv, Idle, WriteStage
<1>4. ConfigTypeOK /\ ValueInv /\ [ConfigNext]_configVars => ValueInv'
  BY ValueStep
<1> QED BY <1>1, <1>2, <1>3, <1>4, PTL DEF ConfigSpec

(* A save either runs alone, or there is a clash and none does. *)
LEMMA Lonely ==
  ASSUME AloneInv, NEW p \in Saving
  PROVE  (alone = {p} /\ Saving = {p}) \/ (alone = {} /\ clash)
  BY DEF AloneInv, Saving

(* A save that does not run alone may do anything to the two files but     *)
(* take their names away; one that does keeps to its progress.             *)
LEMMA SaveStep ==
  ASSUME ConfigInv, NEW p \in Saving, UNCHANGED <<alone, clash>>,
         Saving' = Saving,
         \A q \in Process : proc'[q].pc = "read" => proc[q].pc = "read",
         ValueInv',
         toml'.text = NoFile => toml' = Missing,
         tmp'.text = NoFile => tmp' = Missing,
         toml # Missing => toml' # Missing,
         alone = {p} => Progress(p)' /\ UNCHANGED toml
  PROVE  ConfigInv'
<1> USE DEF ConfigInv
<1>1. NamesInv'
  BY DEF NamesInv
<1>2. AloneInv'
  BY DEF AloneInv
<1>3. CASE alone = {p}
  BY <1>1, <1>2, <1>3
<1>4. CASE alone = {} /\ clash
  BY <1>1, <1>2, <1>4
<1> QED BY <1>3, <1>4, Lonely

(* The same when the save is over. *)
LEMMA OverStep ==
  ASSUME ConfigInv, NEW p \in Saving, UNCHANGED alone,
         Saving' = Saving \ {p},
         \A q \in Process : proc'[q].pc = "read" => proc[q].pc = "read",
         ValueInv',
         toml'.text = NoFile => toml' = Missing,
         tmp'.text = NoFile => tmp' = Missing,
         toml # Missing => toml' # Missing,
         alone = {} => UNCHANGED clash,
         alone = {p} /\ ~clash' => toml' = Missing \/ (toml'.text \in Config /\ toml'.private)
  PROVE  ConfigInv'
<1> USE DEF ConfigInv
<1>1. NamesInv'
  BY DEF NamesInv
<1>3. CASE alone = {p} /\ Saving = {p}
  <2>1. Saving' = {}
    BY <1>3
  <2> QED BY <1>1, <1>3, <2>1 DEF AloneInv
<1>4. CASE alone = {} /\ clash
  BY <1>1, <1>4 DEF AloneInv
<1> QED BY <1>3, <1>4, Lonely

(* The strengthening is inductive. *)
LEMMA ConfigInvStep == ConfigTypeOK /\ ConfigInv /\ [ConfigNext]_configVars => ConfigInv'
<1> SUFFICES ASSUME ConfigTypeOK, ConfigInv, [ConfigNext]_configVars PROVE ConfigInv'
  OBVIOUS
<1>0. ValueInv /\ ValueInv' /\ NamesInv /\ AloneInv
  BY ValueStep DEF ConfigInv
<1> DEFINE Sound == toml = Missing \/ (toml.text \in Config /\ toml.private)
<1>1. ASSUME NEW p \in Process, NEW c \in Config, Enter(p, c),
             proc[p].pc = "idle"
      PROVE  ConfigInv'
  <2>1. /\ proc'[p] = [pc |-> "open", value |-> c, handle |-> "none"]
        /\ \A q \in Process \ {p} : proc'[q] = proc[q]
    BY <1>1 DEF Enter, ConfigTypeOK
  <2>2. /\ UNCHANGED <<toml, tmp>>
        /\ alone' = IF Saving = {} THEN {p} ELSE {}
        /\ clash' = (clash \/ Saving # {})
    BY <1>1 DEF Enter
  <2>3. Saving' = Saving \cup {p}
    BY <2>1 DEF Saving, WriteStage
  <2>4. NamesInv'
    BY <1>0, <2>1, <2>2 DEF NamesInv
  <2>5. CASE Saving = {}
    <3>1. alone' = {p} /\ Saving' = {p} /\ (~clash' => ~clash)
      BY <2>2, <2>3, <2>5
    <3>2. AloneInv'
      BY <3>1 DEF AloneInv
    <3>3. proc'[p].pc = "open"
      BY <1>1, <2>1
    <3>4. Progress(p)'
      BY <2>2, <3>3 DEF Progress
    <3> QED BY <1>0, <2>2, <2>4, <3>1, <3>2, <3>4 DEF ConfigInv
  <2>6. CASE Saving # {}
    <3>1. alone' = {} /\ clash'
      BY <2>2, <2>6
    <3> QED BY <1>0, <2>4, <3>1 DEF ConfigInv, AloneInv
  <2> QED BY <2>5, <2>6
<1>2. ASSUME NEW p \in Process, StartSave(p) PROVE ConfigInv'
  BY <1>1, <1>2 DEF StartSave
<1>3. ASSUME NEW p \in Process, Look(p) PROVE ConfigInv'
  <2>1. proc[p].pc = "idle"
    BY <1>3 DEF Look
  <2>2. CASE toml # Missing /\ proc'[p] = [proc[p] EXCEPT !.pc = "read"]
             /\ (\A q \in Process \ {p} : proc'[q] = proc[q])
             /\ UNCHANGED <<toml, tmp, reply, alone, clash>>
    <3>1. proc'[p].pc = "read"
      BY <2>2 DEF ConfigTypeOK
    <3>2. \A q \in Saving : q # p /\ proc'[q] = proc[q]
      BY <2>1, <2>2 DEF Saving, WriteStage
    <3>3. Saving' = Saving
      BY <2>1, <2>2, <3>1 DEF Saving, WriteStage
    <3>4. NamesInv'
      BY <1>0, <2>2 DEF NamesInv
    <3>5. \A q \in alone' \cap Saving' : Progress(q)'
      BY <2>2, <3>2, <3>3 DEF ConfigInv, Progress
    <3>6. AloneInv'
      BY <1>0, <2>2, <3>3 DEF AloneInv
    <3> QED BY <1>0, <2>2, <3>4, <3>5, <3>6 DEF ConfigInv
  <2> QED BY <1>1, <1>3, <2>1, <2>2, LookEffect, ConfigAssumption
<1>4. ASSUME NEW p \in Process, Open(p) \/ Write(p) \/ Protect(p) PROVE ConfigInv'
  <2>1. p \in Saving /\ Saving' = Saving
    BY <1>4, SaveEffect DEF Saving
  <2>2. /\ UNCHANGED <<alone, clash>>
        /\ \A q \in Process : proc'[q].pc = "read" => proc[q].pc = "read"
    <3>1. proc'[p].pc # "read"
      BY <1>4, SaveEffect DEF WriteStage
    <3> QED BY <1>4, <3>1, SaveEffect
  <2>3. proc[p].value \in Config /\ Empty # NoFile /\ Torn # NoFile /\ NoFile \notin Config
    BY <1>0, <2>1, ConfigAssumption DEF ValueInv, Saving
  <2>4. alone = {p} => Progress(p)
    BY <2>1 DEF ConfigInv
  <2>5. CASE Open(p)
    <3>1. /\ UNCHANGED toml /\ tmp'.text = Empty
          /\ proc'[p].pc = "write" /\ proc'[p].handle = "tmp"
      BY <2>5 DEF Open, ConfigTypeOK
    <3>2. alone = {p} => Progress(p)'
      BY <2>4, <3>1 DEF Progress
    <3> QED BY <1>0, <2>1, <2>2, <2>3, <3>1, <3>2, SaveStep DEF NamesInv
  <2>6. CASE Write(p)
    <3>1. PICK x \in Laid(Held(p), proc[p].value) : Fill(p, x)
      BY <2>6 DEF Write
    <3>2. x \in {proc[p].value, Torn}
      BY <2>3, <3>1, LaidType
    <3>3. x \in Text /\ x # NoFile
      BY <2>3, <3>2 DEF Text
    <3>4. /\ tmp'  = IF proc[p].handle = "tmp"  THEN [text |-> x, private |-> tmp.private]  ELSE tmp
          /\ toml' = IF proc[p].handle = "toml" THEN [text |-> x, private |-> toml.private] ELSE toml
      BY <3>1, <3>3, FillEffect
    <3>5. proc[p].pc = "write" /\ proc'[p].pc = "protect" /\ proc'[p].value = proc[p].value
      BY <2>6 DEF Write, ConfigTypeOK
    <3>6. toml'.text = NoFile => toml' = Missing
      BY <1>0, <3>3, <3>4 DEF NamesInv
    <3>7. tmp'.text = NoFile => tmp' = Missing
      BY <1>0, <3>3, <3>4 DEF NamesInv
    <3>8. toml # Missing => toml' # Missing
      BY <3>3, <3>4 DEF Missing
    <3>9. ASSUME alone = {p} PROVE Progress(p)' /\ UNCHANGED toml
      <4>1. proc[p].handle = "tmp" /\ tmp.text = Empty
        BY <2>4, <3>5, <3>9 DEF Progress
      <4>2. x = proc[p].value
        BY <2>3, <3>1, <4>1, LaidType DEF Held
      <4>3. tmp'.text = proc'[p].value /\ UNCHANGED toml
        BY <3>4, <3>5, <4>1, <4>2
      <4> QED BY <3>5, <4>1, <4>3 DEF Progress
    <3> QED BY <1>0, <2>1, <2>2, <3>6, <3>7, <3>8, <3>9, SaveStep
  <2>7. CASE Protect(p)
    <3>1. /\ UNCHANGED toml /\ tmp # Missing /\ tmp'.private = TRUE /\ tmp'.text = tmp.text
          /\ proc[p].pc = "protect" /\ proc'[p].pc = "rename" /\ proc'[p].value = proc[p].value
      BY <2>7 DEF Protect, ConfigTypeOK, File
    <3>2. alone = {p} => Progress(p)'
      BY <2>4, <3>1 DEF Progress
    <3>3. tmp'.text # NoFile
      BY <1>0, <3>1 DEF NamesInv
    <3> QED BY <1>0, <2>1, <2>2, <3>1, <3>2, <3>3, SaveStep DEF NamesInv
  <2> QED BY <1>4, <2>5, <2>6, <2>7
<1>5. ASSUME NEW p \in Process, Rename(p) PROVE ConfigInv'
  <2>1. proc[p].pc = "rename" /\ p \in Saving
    BY <1>5 DEF Rename, Saving, WriteStage
  <2>2. /\ proc'[p].pc = "renamed"
        /\ \A q \in Process \ {p} : proc'[q].pc = proc[q].pc
    BY <1>5, RenameEffect
  <2>3. Saving' = Saving \ {p}
    BY <2>1, <2>2 DEF Saving, WriteStage
  <2>4. \A q \in Process : proc'[q].pc = "read" => proc[q].pc = "read"
    BY <2>2
  <2>5. tmp # Missing /\ toml' = tmp /\ tmp' = Missing /\ UNCHANGED alone
        /\ clash' = (clash /\ p \notin alone)
    BY <1>5 DEF Rename
  <2>6. toml'.text # NoFile /\ toml' # Missing
    BY <1>0, <2>5 DEF NamesInv
  <2>7. alone = {p} => toml'.text \in Config /\ toml'.private
    BY <1>0, <2>1, <2>5 DEF ConfigInv, Progress, ValueInv, Saving
  <2>8. alone = {} => UNCHANGED clash
    <3>1. clash \in BOOLEAN
      BY DEF ConfigTypeOK
    <3> QED BY <2>5, <3>1
  <2> QED BY <1>0, <2>1, <2>3, <2>4, <2>5, <2>6, <2>7, <2>8, OverStep
<1>6. ASSUME NEW p \in Process, Read(p) \/ Return(p) \/ Stop(p) PROVE ConfigInv'
  <2>1. /\ proc'[p] = Idle /\ \A q \in Process \ {p} : proc'[q] = proc[q]
        /\ UNCHANGED <<alone, clash>>
    BY <1>6, IdleEffect
  <2>2. Saving' = Saving \ {p}
    BY <2>1 DEF Saving, Idle, WriteStage
  <2>3. \A q \in Process : proc'[q].pc = "read" => proc[q].pc = "read"
    BY <2>1 DEF Idle
  <2>4. CASE UNCHANGED <<toml, tmp>>
    <3>1. NamesInv'
      BY <1>0, <2>3, <2>4 DEF NamesInv
    <3>2. AloneInv'
      BY <1>0, <2>1, <2>2 DEF AloneInv
    <3>3. \A q \in alone' \cap Saving' : Progress(q)'
      BY <2>1, <2>2, <2>4 DEF ConfigInv, Progress, Saving
    <3> QED BY <1>0, <2>1, <2>4, <3>1, <3>2, <3>3 DEF ConfigInv
  <2>5. CASE proc[p].pc = "write" /\ Fill(p, Torn)
    <3>1. p \in Saving
      BY <2>5 DEF Saving, WriteStage
    <3>2. /\ tmp'  = IF proc[p].handle = "tmp"  THEN [text |-> Torn, private |-> tmp.private]  ELSE tmp
          /\ toml' = IF proc[p].handle = "toml" THEN [text |-> Torn, private |-> toml.private] ELSE toml
      BY <2>5, FillEffect DEF Text
    <3>3. Torn # NoFile
      BY ConfigAssumption
    <3>4. toml'.text = NoFile => toml' = Missing
      BY <1>0, <3>2, <3>3 DEF NamesInv
    <3>5. tmp'.text = NoFile => tmp' = Missing
      BY <1>0, <3>2, <3>3 DEF NamesInv
    <3>6. toml # Missing => toml' # Missing
      BY <3>2, <3>3 DEF Missing
    <3>7. alone = {p} => UNCHANGED toml
      BY <2>5, <3>1, <3>2 DEF ConfigInv, Progress
    <3>8. alone = {p} /\ ~clash' => toml' = Missing \/ (toml'.text \in Config /\ toml'.private)
      BY <2>1, <3>7 DEF ConfigInv
    <3> QED BY <1>0, <2>1, <2>2, <2>3, <3>1, <3>4, <3>5, <3>6, <3>8, OverStep
  <2> QED BY <1>6, <2>4, <2>5 DEF Read, Return, Stop
<1>7. CASE UNCHANGED configVars
  BY <1>0, <1>7 DEF configVars, ConfigInv, NamesInv, AloneInv, Progress, Saving
<1> QED BY <1>2, <1>3, <1>4, <1>5, <1>6, <1>7 DEF ConfigNext

(* It holds of every state that can be reached. *)
LEMMA ConfigInvCorrect == ConfigSpec => [](ConfigTypeOK /\ ConfigInv)
<1>1. ConfigInit => ConfigInv
  <2> SUFFICES ASSUME ConfigInit PROVE ConfigInv
    OBVIOUS
  <2>1. \A p \in Process : proc[p].pc = "idle"
    BY DEF ConfigInit, Idle
  <2>2. Saving = {}
    BY <2>1 DEF Saving, WriteStage
  <2> QED BY <2>1, <2>2
          DEF ConfigInit, ConfigInv, ValueInv, NamesInv, AloneInv, Missing, WriteStage
<1> QED BY <1>1, ConfigInvStep, ConfigTypeCorrect, PTL DEF ConfigSpec

(* Wherever any number of processes fail or end, without a clash the file  *)
(* is one configuration as it was saved.                                   *)
THEOREM FileIsWholeCorrect == ConfigSpec => []FileIsWhole
<1>1. ConfigTypeOK /\ ConfigInv => FileIsWhole
  BY DEF ConfigInv, FileIsWhole, Missing
<1> QED BY <1>1, ConfigInvCorrect, PTL

(* And nobody else can read it. *)
THEOREM FileIsPrivateCorrect == ConfigSpec => []FileIsPrivate
<1>1. ConfigTypeOK /\ ConfigInv => FileIsPrivate
  BY DEF ConfigInv, FileIsPrivate
<1> QED BY <1>1, ConfigInvCorrect, PTL

---------------------------------------------------------------------------
(* The refinement.                                                         *)

Op == [p \in Process |-> Doing(p)]

(* What each process does to the register. *)
LEMMA DoingWhat ==
  ASSUME NEW p \in Process
  PROVE  /\ Doing(p).value = proc[p].value
         /\ proc[p].pc \in WriteStage => Doing(p).pc = "saving"
         /\ proc[p].pc = "renamed" => Doing(p).pc = "saved"
         /\ proc[p].pc = "read" => Doing(p).pc = "reading"
         /\ proc[p].pc = "idle" => Doing(p).pc = "idle"
<1> DEFINE pc == CASE proc[p].pc \in WriteStage -> "saving"
                   [] proc[p].pc = "renamed" -> "saved"
                   [] proc[p].pc = "read" -> "reading"
                   [] OTHER -> "idle"
<1>1. Doing(p) = [pc |-> pc, value |-> proc[p].value]
  BY DEF Doing
<1>2. /\ proc[p].pc \in WriteStage => pc = "saving"
      /\ proc[p].pc = "renamed" => pc = "saved"
      /\ proc[p].pc = "read" => pc = "reading"
      /\ proc[p].pc = "idle" => pc = "idle"
  BY DEF WriteStage
<1> HIDE DEF pc
<1> QED BY <1>1, <1>2

(* The stages of a save are one to the register. *)
LEMMA StaysSaving ==
  ASSUME NEW p \in Process, proc[p].pc \in WriteStage, proc'[p].pc \in WriteStage,
         proc'[p].value = proc[p].value
  PROVE  Doing(p)' = Doing(p)
<1> DEFINE pc == CASE proc[p].pc \in WriteStage -> "saving"
                   [] proc[p].pc = "renamed" -> "saved"
                   [] proc[p].pc = "read" -> "reading"
                   [] OTHER -> "idle"
<1>1. /\ Doing(p)  = [pc |-> pc, value |-> proc[p].value]
      /\ Doing(p)' = [pc |-> pc', value |-> proc'[p].value]
  BY DEF Doing
<1>2. pc = "saving" /\ pc' = "saving"
  BY DEF WriteStage
<1> HIDE DEF pc
<1> QED BY <1>1, <1>2

(* The abstract operations of the other processes stay when one changes. *)
LEMMA OneMoves ==
  ASSUME NEW p \in Process, NEW r, Doing(p)' = r,
         \A q \in Process \ {p} : proc'[q].pc = proc[q].pc /\ proc'[q].value = proc[q].value
  PROVE  Op' = [Op EXCEPT ![p] = r]
  BY DEF Op, Doing

(* Neither do any when a save is only taken further. *)
LEMMA NoneMoves ==
  ASSUME NEW p \in Process, Doing(p)' = Doing(p),
         \A q \in Process \ {p} : proc'[q].pc = proc[q].pc /\ proc'[q].value = proc[q].value
  PROVE  Op' = Op
  BY DEF Op, Doing

(* The abstract value of a file that is there. *)
LEMMA ValueType ==
  ASSUME ConfigTypeOK, ConfigInv
  PROVE  /\ Value \in Config \cup {NoFile, Damaged}
         /\ toml # Missing => Value # NoFile /\ toml.text # NoFile
         /\ toml.text \in Config => Value = toml.text
  BY ConfigAssumption DEF Value, ConfigInv, NamesInv

(* The abstract processes that save are those that save. *)
LEMMA SameSaving == Register!Saving = Saving
<1>1. \A p \in Process : Doing(p).pc = "saving" <=> proc[p].pc \in WriteStage
  BY DEF Doing, WriteStage
<1> QED BY <1>1 DEF Register!Saving, Saving

(* Every step of the processes is a step of the register, or none of its.  *)
LEMMA RegisterStep ==
  ConfigTypeOK /\ ConfigInv /\ ConfigInv' /\ ConfigTypeOK' /\ [ConfigNext]_configVars
  => [Register!RegisterNext]_Register!registerVars
<1> SUFFICES ASSUME ConfigTypeOK, ConfigInv, ConfigInv', ConfigTypeOK', [ConfigNext]_configVars
             PROVE  [Register!RegisterNext]_Register!registerVars
  OBVIOUS
<1>0. ValueInv /\ NamesInv /\ AloneInv /\ NoFile \notin Config /\ NoFile # Damaged
  BY ConfigAssumption DEF ConfigInv
<1>a. \A p \in Process : Op[p] = Doing(p)
  BY DEF Op
<1>1. ASSUME NEW p \in Process, NEW c \in Config, Enter(p, c),
             proc[p].pc = "idle"
      PROVE  Register!BeginSave(p)
  <2>1. /\ proc'[p].pc = "open" /\ proc'[p].value = c
        /\ \A q \in Process \ {p} : proc'[q] = proc[q]
    BY <1>1 DEF Enter, ConfigTypeOK
  <2>2. Doing(p)' = [pc |-> "saving", value |-> c]
    BY <2>1 DEF Doing, WriteStage
  <2>3. Op' = [Op EXCEPT ![p] = [pc |-> "saving", value |-> c]]
    BY <2>1, <2>2, OneMoves
  <2>4. Op[p].pc = "idle"
    BY <1>1, <1>a, DoingWhat
  <2>5. UNCHANGED <<Value, reply>>
    BY <1>1 DEF Enter, Value
  <2>6. alone' = (IF Saving = {} THEN {p} ELSE {}) /\ clash' = (clash \/ Saving # {})
    BY <1>1 DEF Enter
  <2> QED BY <2>3, <2>4, <2>5, <2>6, SameSaving DEF Register!BeginSave, Op
<1>2. ASSUME NEW p \in Process, StartSave(p) PROVE Register!BeginSave(p)
  BY <1>1, <1>2 DEF StartSave
<1>3. ASSUME NEW p \in Process, Look(p) PROVE Register!BeginSave(p) \/ Register!BeginRead(p)
  <2>1. proc[p].pc = "idle"
    BY <1>3 DEF Look
  <2>2. CASE toml # Missing /\ proc'[p] = [proc[p] EXCEPT !.pc = "read"]
             /\ (\A q \in Process \ {p} : proc'[q] = proc[q])
             /\ UNCHANGED <<toml, tmp, reply, alone, clash>>
    <3>1. proc'[p].pc = "read" /\ proc'[p].value = proc[p].value
      BY <2>2 DEF ConfigTypeOK
    <3>2. Doing(p)' = [Doing(p) EXCEPT !.pc = "reading"]
      BY <3>1 DEF Doing, WriteStage
    <3>3. Op' = [Op EXCEPT ![p] = [Doing(p) EXCEPT !.pc = "reading"]]
      BY <2>2, <3>2, OneMoves
    <3>4. Op' = [Op EXCEPT ![p].pc = "reading"]
      BY <1>a, <3>3
    <3>5. Op[p].pc = "idle"
      BY <2>1, <1>a, DoingWhat
    <3>6. Value # NoFile /\ UNCHANGED Value
      BY <2>2, ValueType DEF Value
    <3> QED BY <2>2, <3>4, <3>5, <3>6 DEF Register!BeginRead, Op
  <2> QED BY <1>1, <1>3, <2>1, <2>2, LookEffect, ConfigAssumption
<1>4. ASSUME NEW p \in Process, Read(p) PROVE Register!Get(p) \/ Register!GiveUp(p)
  <2>1. PICK r \in Parsed(toml.text) : reply' = [reply EXCEPT ![p] = r]
    BY <1>4 DEF Read
  <2>2. proc[p].pc = "read" /\ UNCHANGED <<toml, alone, clash>>
    BY <1>4 DEF Read
  <2>3. proc'[p] = Idle /\ \A q \in Process \ {p} : proc'[q] = proc[q]
    BY <1>4, IdleEffect
  <2>4. Doing(p)' = [pc |-> "idle", value |-> NoFile]
    BY <2>3 DEF Doing, Idle, WriteStage
  <2>5. Op' = [Op EXCEPT ![p] = Register!Resting]
    BY <2>3, <2>4, OneMoves DEF Register!Resting
  <2>6. Op[p].pc = "reading" /\ UNCHANGED Value
    BY <2>2, <1>a, DoingWhat DEF Value
  <2>7. CASE r = Failed
    BY <2>1, <2>2, <2>5, <2>6, <2>7 DEF Register!GiveUp, Op
  <2>8. CASE r # Failed
    <3>1. r \in Config
      BY <2>1, <2>8, ConfigAssumption DEF Parsed
    <3>2. ~clash => r = Value
      <4>1. ~clash => toml.text \in Config
        BY <1>0, <2>2 DEF ConfigInv, NamesInv
      <4> QED BY <2>1, <4>1, ValueType DEF Parsed
    <3>3. r \in IF clash THEN Config ELSE {Value}
      BY <3>1, <3>2
    <3> QED BY <2>1, <2>2, <2>5, <2>6, <3>3 DEF Register!Get, Op
  <2> QED BY <2>7, <2>8
<1>5. ASSUME NEW p \in Process, Open(p) \/ Protect(p) PROVE UNCHANGED Register!registerVars
  <2>1. UNCHANGED <<toml, reply, alone, clash>>
    BY <1>5 DEF Open, Protect
  <2>2. Doing(p)' = Doing(p)
    <3>1. proc[p].pc \in WriteStage /\ proc'[p].pc \in WriteStage
          /\ proc'[p].value = proc[p].value
      BY <1>5, SaveEffect
    <3> QED BY <3>1, StaysSaving
  <2>3. Op' = Op
    BY <1>5, <2>2, SaveEffect, NoneMoves
  <2> QED BY <2>1, <2>3 DEF Register!registerVars, Value, Op
<1>6. ASSUME NEW p \in Process, NEW x \in {proc[p].value, Torn}, proc[p].pc = "write", Fill(p, x)
      PROVE  UNCHANGED Value \/ (clash /\ Value' \in Config \cup {Damaged})
  <2>1. p \in Saving
    BY <1>6 DEF Saving, WriteStage
  <2>2. CASE alone = {p}
    <3>1. proc[p].handle = "tmp"
      BY <1>6, <2>1, <2>2 DEF ConfigInv, Progress
    <3>2. UNCHANGED toml
      BY <1>6, <3>1 DEF Fill
    <3> QED BY <3>2 DEF Value
  <2>3. CASE clash
    <3>1. x # NoFile
      BY <1>0, <1>6, <2>1, ConfigAssumption DEF ValueInv, Saving
    <3>2. UNCHANGED toml \/ toml'.text = x
      BY <1>6 DEF Fill, ConfigTypeOK, File
    <3> QED BY <2>3, <3>1, <3>2 DEF Value
  <2> QED BY <1>0, <2>1, <2>2, <2>3, Lonely
<1>7. ASSUME NEW p \in Process, Write(p)
      PROVE  UNCHANGED Register!registerVars \/ Register!Spoil
  <2>1. UNCHANGED <<reply, alone, clash>>
    BY <1>7 DEF Write
  <2>2. Op' = Op
    <3>1. proc[p].pc \in WriteStage /\ proc'[p].pc \in WriteStage
          /\ proc'[p].value = proc[p].value
      BY <1>7, SaveEffect
    <3>2. Doing(p)' = Doing(p)
      BY <3>1, StaysSaving
    <3> QED BY <1>7, <3>2, SaveEffect, NoneMoves
  <2>3. PICK x \in Laid(Held(p), proc[p].value) : Fill(p, x)
    BY <1>7 DEF Write
  <2>4. proc[p].pc = "write" /\ x \in {proc[p].value, Torn}
    BY <1>7, <2>3 DEF Write, Laid
  <2>5. UNCHANGED Value \/ (clash /\ Value' \in Config \cup {Damaged})
    BY <1>6, <2>3, <2>4
  <2> QED BY <2>1, <2>2, <2>5 DEF Register!registerVars, Register!Spoil, Op
<1>8. ASSUME NEW p \in Process, Rename(p) PROVE Register!Put(p)
  <2>1. proc[p].pc = "rename" /\ p \in Saving
    BY <1>8 DEF Rename, Saving, WriteStage
  <2>2. Doing(p)' = [Doing(p) EXCEPT !.pc = "saved"]
    BY <1>8, RenameEffect DEF Doing, WriteStage
  <2>3. Op' = [Op EXCEPT ![p].pc = "saved"]
    <3>1. Op' = [Op EXCEPT ![p] = [Doing(p) EXCEPT !.pc = "saved"]]
      BY <1>8, <2>2, RenameEffect, OneMoves
    <3> QED BY <1>a, <3>1
  <2>4. Op[p].pc = "saving" /\ Op[p].value = proc[p].value
    BY <2>1, <1>a, DoingWhat DEF WriteStage
  <2>5. UNCHANGED <<reply, alone>> /\ clash' = (clash /\ p \notin alone) /\ toml' = tmp
        /\ tmp # Missing
    BY <1>8 DEF Rename
  <2>6. CASE alone = {p}
    <3>1. tmp.text = proc[p].value /\ tmp.text \in Config
      BY <1>0, <2>1, <2>6 DEF ConfigInv, Progress, ValueInv, Saving
    <3>2. Value' = Op[p].value /\ clash' = FALSE
      BY <2>4, <2>5, <2>6, <3>1 DEF Value
    <3> QED BY <2>3, <2>4, <2>5, <2>6, <3>2 DEF Register!Put, Op
  <2>7. CASE alone = {} /\ clash
    <3>1. tmp.text # NoFile
      BY <1>0, <2>5 DEF NamesInv
    <3>2. Value' \in Config \cup {Damaged}
      BY <2>5, <3>1 DEF Value
    <3>3. UNCHANGED clash
      BY <2>5, <2>7 DEF ConfigTypeOK
    <3> QED BY <2>3, <2>4, <2>5, <2>7, <3>2, <3>3 DEF Register!Put, Op
  <2> QED BY <1>0, <2>1, <2>6, <2>7, Lonely
<1>9. ASSUME NEW p \in Process, Return(p) PROVE Register!Acknowledge(p)
  <2>1. proc[p].pc = "renamed" /\ UNCHANGED <<toml, alone, clash>>
        /\ reply' = [reply EXCEPT ![p] = proc[p].value]
    BY <1>9 DEF Return
  <2>2. proc'[p] = Idle /\ \A q \in Process \ {p} : proc'[q] = proc[q]
    BY <1>9, IdleEffect
  <2>3. Doing(p)' = [pc |-> "idle", value |-> NoFile]
    BY <2>2 DEF Doing, Idle, WriteStage
  <2>4. Op' = [Op EXCEPT ![p] = Register!Resting]
    BY <2>2, <2>3, OneMoves DEF Register!Resting
  <2>5. Op[p].pc = "saved" /\ Op[p].value = proc[p].value /\ UNCHANGED Value
    BY <2>1, <1>a, DoingWhat DEF Value
  <2> QED BY <2>1, <2>4, <2>5 DEF Register!Acknowledge, Op
<1>10. ASSUME NEW p \in Process, Stop(p) PROVE Register!GiveUp(p)
  <2>1. proc[p].pc # "idle" /\ UNCHANGED <<alone, clash>>
        /\ reply' = [reply EXCEPT ![p] = Failed]
    BY <1>10 DEF Stop
  <2>2. proc'[p] = Idle /\ \A q \in Process \ {p} : proc'[q] = proc[q]
    BY <1>10, IdleEffect
  <2>3. Doing(p)' = [pc |-> "idle", value |-> NoFile]
    BY <2>2 DEF Doing, Idle, WriteStage
  <2>4. Op' = [Op EXCEPT ![p] = Register!Resting]
    BY <2>2, <2>3, OneMoves DEF Register!Resting
  <2>5. Op[p].pc # "idle"
    <3>1. proc[p].pc \in {"read", "renamed"} \cup WriteStage
      BY <2>1 DEF ConfigTypeOK
    <3> QED BY <1>a, <3>1, DoingWhat
  <2>6. UNCHANGED Value \/ (clash /\ Value' \in Config \cup {Damaged})
    <3>1. CASE UNCHANGED toml
      BY <3>1 DEF Value
    <3>2. CASE proc[p].pc = "write" /\ Fill(p, Torn)
      BY <1>6, <3>2
    <3> QED BY <1>10, <3>1, <3>2 DEF Stop
  <2> QED BY <2>1, <2>4, <2>5, <2>6 DEF Register!GiveUp, Op
<1>11. CASE UNCHANGED configVars
  BY <1>11 DEF configVars, Register!registerVars, Doing, Value
<1> QED
  BY <1>2, <1>3, <1>4, <1>5, <1>7, <1>8, <1>9, <1>10, <1>11
     DEF ConfigNext, Register!RegisterNext

(* The names, the truncation and the steps of a save implement a register  *)
(* that each save replaces as a whole, for any number of processes.        *)
THEOREM StoreImplementsRegister == ConfigSpec => ImplementsRegister
<1>1. ConfigInit => Register!RegisterInit
  BY DEF ConfigInit, Register!RegisterInit, Register!Resting, Doing, Idle, Missing, Value,
         WriteStage
<1> QED BY <1>1, RegisterStep, ConfigInvCorrect, PTL
        DEF ConfigSpec, ImplementsRegister, Register!RegisterSpec
=============================================================================
