---------------------------- MODULE ConfigRegister ----------------------------
(***************************************************************************)
(* What the configuration file promises to the processes that share it: a  *)
(* register that each save replaces as a whole, or leaves as it was.  The  *)
(* promise is for saves that run alone; two that overlap may spoil it, and *)
(* the next save that runs alone repairs it.                               *)
(***************************************************************************)
CONSTANTS
    Config,         \* what a configuration may say
    Defaults,       \* GuardConfig::default
    Process,        \* requests of the daemon, and starts of the programs
    NoFile,         \* there is no file, or no configuration is involved
    Damaged,        \* a file that is none of the configurations
    Failed, NoReply

VARIABLES
    value,          \* what the file says
    op,             \* what each process is doing
    reply,          \* how its last operation ended
    alone,          \* the save no other save has run beside
    clash           \* saves overlapped since the last save that ran alone

registerVars == <<value, op, reply, alone, clash>>

Resting == [pc |-> "idle", value |-> NoFile]

Saving == {p \in Process : op[p].pc = "saving"}

RegisterInit ==
    /\ value = NoFile
    /\ op = [p \in Process |-> Resting]
    /\ reply = [p \in Process |-> NoReply]
    /\ alone = {}
    /\ clash = FALSE

(* A save of c begins: one that was asked for, or that of the defaults by  *)
(* a program which found no file.                                          *)
BeginSave(p) ==
    /\ op[p].pc = "idle"
    /\ \E c \in Config : op' = [op EXCEPT ![p] = [pc |-> "saving", value |-> c]]
    /\ alone' = IF Saving = {} THEN {p} ELSE {}
    /\ clash' = (clash \/ Saving # {})
    /\ UNCHANGED <<value, reply>>

Put(p) ==
    /\ op[p].pc = "saving"
    /\ op' = [op EXCEPT ![p].pc = "saved"]
    /\ IF clash /\ p \notin alone
       THEN value' \in Config \cup {Damaged} /\ UNCHANGED clash
       ELSE value' = op[p].value /\ clash' = FALSE
    /\ UNCHANGED <<reply, alone>>

Acknowledge(p) ==
    /\ op[p].pc = "saved"
    /\ op' = [op EXCEPT ![p] = Resting]
    /\ reply' = [reply EXCEPT ![p] = op[p].value]
    /\ UNCHANGED <<value, alone, clash>>

BeginRead(p) ==
    /\ op[p].pc = "idle"
    /\ value # NoFile
    /\ op' = [op EXCEPT ![p].pc = "reading"]
    /\ UNCHANGED <<value, reply, alone, clash>>

Get(p) ==
    /\ op[p].pc = "reading"
    /\ op' = [op EXCEPT ![p] = Resting]
    /\ \E c \in IF clash THEN Config ELSE {value} : reply' = [reply EXCEPT ![p] = c]
    /\ UNCHANGED <<value, alone, clash>>

(* An operation fails, or its process ends: the register is as it was.     *)
GiveUp(p) ==
    /\ op[p].pc # "idle"
    /\ op' = [op EXCEPT ![p] = Resting]
    /\ reply' = [reply EXCEPT ![p] = Failed]
    /\ \/ UNCHANGED value
       \/ clash /\ value' \in Config \cup {Damaged}
    /\ UNCHANGED <<alone, clash>>

(* Saves that overlap reach each other's file. *)
Spoil ==
    /\ clash
    /\ value' \in Config \cup {Damaged}
    /\ UNCHANGED <<op, reply, alone, clash>>

RegisterNext ==
    \/ \E p \in Process : BeginSave(p) \/ Put(p) \/ Acknowledge(p)
                          \/ BeginRead(p) \/ Get(p) \/ GiveUp(p)
    \/ Spoil

RegisterSpec == RegisterInit /\ [][RegisterNext]_registerVars
=============================================================================
