------------------------------ MODULE SetupProofs ------------------------------
(***************************************************************************)
(* The service commands and the user's profile.  What is proved of the     *)
(* commands alone holds when they also edit the profile, whatever it says  *)
(* and however its writes end; the profile stays the user's, for every set *)
(* of texts the user may write; and an uninstall that gets to its end has  *)
(* cleaned it.                                                             *)
(*                                                                         *)
(* The texts are of any length: what Lines, Trim and Removed make of them  *)
(* is proved by taking the least position at which something would go      *)
(* wrong.                                                                  *)
(***************************************************************************)
EXTENDS Setup, ServiceProofs, SequenceTheorems, WellFoundedInduction

(* The profile never decides what a command does: with it the commands are *)
(* the commands without it.                                                *)
THEOREM SetupIsService == SetupSpec => ServiceSpec
<1>1. SetupInit => ServiceInit
  BY DEF SetupInit
<1>2. [SetupNext]_setupVars => [ServiceNext]_vars
  BY DEF SetupNext, ServiceStep, TerminalStep, EditStep, setupVars
<1> QED BY <1>1, <1>2, PTL DEF SetupSpec, ServiceSpec

---------------------------------------------------------------------------
(* Texts.                                                                  *)

Line == UserLine \cup {"start", "path", "end"}

Text == Seq(Line)

(* Nothing of the block is in the text. *)
Plain(text) == text \in Text /\ \A i \in 1..Len(text) : ~Managed(text[i])

(* A set of naturals that is not empty has a least member: induction, in   *)
(* the form in which it is used here.                                      *)
LEMMA Least ==
  ASSUME NEW T, T \subseteq Nat, T # {}
  PROVE  \E x \in T : \A y \in T : ~(y < x)
<1> DEFINE R == OpToRel(<, Nat)
<1>1. IsWellFoundedOn(R, Nat)
  BY NatLessThanWellFounded
<1>2. \E x \in T : \A y \in T : ~(<<y, x>> \in R)
  <2> HIDE DEF R
  <2> QED BY <1>1, WFMin
<1>3. \A x, y \in Nat : y < x => <<y, x>> \in R
  BY DEF OpToRel
<1> HIDE DEF R
<1> QED BY <1>2, <1>3

(* The equation of the function that Lines is read off. *)
Keeps(f, text) ==
    f = [n \in 0..Len(text) |->
            IF n = 0 THEN <<>>
            ELSE IF Managed(text[n]) THEN f[n - 1] ELSE Append(f[n - 1], text[n])]

(* Only one function satisfies the equation from which Lines is read off.  *)
LEMMA LinesAre ==
  ASSUME NEW text \in Text, NEW f, Keeps(f, text)
  PROVE  Lines(text) = f[Len(text)]
<1> DEFINE g == CHOOSE h : Keeps(h, text)
<1>1. Keeps(g, text)
  OBVIOUS
<1>2. Lines(text) = g[Len(text)]
  BY DEF Lines, Keeps
<1>3. Len(text) \in Nat
  BY DEF Text
<1> HIDE DEF g
<1> DEFINE T == {n \in 0..Len(text) : f[n] # g[n]}
<1>4. T = {}
  <2> SUFFICES ASSUME T # {} PROVE FALSE
    OBVIOUS
  <2>1. T \subseteq Nat
    BY <1>3
  <2>2. PICK n \in T : \A m \in T : ~(m < n)
    <3> HIDE DEF T
    <3> QED BY <2>1, Least
  <2>3. n \in 0..Len(text) /\ f[n] # g[n]
    OBVIOUS
  <2>4. n # 0
    BY <1>1, <2>3, <1>3 DEF Keeps
  <2>5. n - 1 \in 0..Len(text) /\ n - 1 < n
    BY <2>3, <2>4, <1>3
  <2>6. f[n - 1] = g[n - 1]
    BY <2>2, <2>5
  <2>7. f[n] = IF Managed(text[n]) THEN f[n - 1] ELSE Append(f[n - 1], text[n])
    BY <2>3, <2>4, <1>3 DEF Keeps
  <2>8. g[n] = IF Managed(text[n]) THEN g[n - 1] ELSE Append(g[n - 1], text[n])
    BY <1>1, <2>3, <2>4, <1>3 DEF Keeps
  <2> QED BY <2>3, <2>6, <2>7, <2>8
<1>5. Len(text) \in 0..Len(text)
  BY <1>3
<1> QED BY <1>2, <1>4, <1>5

(* Where d lines of the block's stand behind the first k of the user's,    *)
(* Lines finds the user's.                                                 *)
LEMMA LinesWithGap ==
  ASSUME NEW text \in Text, NEW user, Plain(user),
         NEW k \in Nat, NEW d \in Nat, k <= Len(user), Len(text) = Len(user) + d,
         \A i \in 1..k : text[i] = user[i],
         \A i \in k + 1..k + d : Managed(text[i]),
         \A i \in k + 1..Len(user) : text[d + i] = user[i]
  PROVE  Lines(text) = user
<1>1. Len(text) \in Nat /\ Len(user) \in Nat /\ user \in Seq(Line)
  BY DEF Text, Plain
<1> DEFINE Clamp(n) == IF n <= k THEN n ELSE IF n <= k + d THEN k ELSE n - d
           f == [n \in 0..Len(text) |-> SubSeq(user, 1, Clamp(n))]
<1>2. SubSeq(user, 1, 0) = <<>> /\ SubSeq(user, 1, Len(user)) = user
  BY <1>1, SubSeqEmpty, SubSeqFull
<1>3. \A m \in 1..Len(user) : SubSeq(user, 1, m) = Append(SubSeq(user, 1, m - 1), user[m])
  <2> SUFFICES ASSUME NEW m \in 1..Len(user)
               PROVE  SubSeq(user, 1, m) = Append(SubSeq(user, 1, m - 1), user[m])
    OBVIOUS
  <2>1. SubSeq(user, 1, m) = SubSeq(user, 1, m - 1) \o <<user[m]>>
    <3>1. m \in 1..m /\ 1 \in 1..Len(user) /\ m \in 1..Len(user)
      BY <1>1
    <3> QED BY <1>1, <3>1, SubSeqRecursiveSecond
  <2>2. SubSeq(user, 1, m - 1) \in Seq(Line) /\ user[m] \in Line
    BY <1>1, SubSeqProperties, ElementOfSeq
  <2> QED BY <2>1, <2>2, AppendIsConcat
<1>4. Keeps(f, text)
  <2> SUFFICES ASSUME NEW n \in 0..Len(text)
               PROVE  f[n] = IF n = 0 THEN <<>>
                             ELSE IF Managed(text[n]) THEN f[n - 1]
                                  ELSE Append(f[n - 1], text[n])
    BY DEF Keeps
  <2>1. CASE n = 0
    BY <2>1, <1>1, <1>2
  <2>2. ASSUME NEW m \in 1..Len(user), n # 0, text[n] = user[m],
               Clamp(n) = m, Clamp(n - 1) = m - 1
        PROVE  f[n] = Append(f[n - 1], text[n]) /\ ~Managed(text[n])
    <3>1. f[n] = SubSeq(user, 1, m) /\ f[n - 1] = SubSeq(user, 1, m - 1)
      <4>1. n \in 0..Len(text) /\ n - 1 \in 0..Len(text)
        BY <2>2, <1>1
      <4> HIDE DEF Clamp
      <4> QED BY <4>1, <2>2
    <3>2. ~Managed(text[n])
      BY <2>2 DEF Plain
    <3> HIDE DEF f
    <3> QED BY <3>1, <3>2, <2>2, <1>3
  <2>3. CASE n # 0 /\ n <= k
    <3>1. n \in 1..Len(user) /\ text[n] = user[n] /\ Clamp(n) = n /\ Clamp(n - 1) = n - 1
      BY <2>3, <1>1
    <3> HIDE DEF f, Clamp
    <3> QED BY <3>1, <2>2, <2>3
  <2>4. CASE k < n /\ n <= k + d
    <3>1. Managed(text[n]) /\ n # 0
      BY <2>4, <1>1
    <3>2. Clamp(n) = k /\ Clamp(n - 1) = k
      BY <2>4, <1>1
    <3>3. n \in 0..Len(text) /\ n - 1 \in 0..Len(text)
      BY <2>4, <1>1
    <3>4. f[n] = f[n - 1]
      <4> HIDE DEF Clamp
      <4> QED BY <3>2, <3>3
    <3> HIDE DEF f
    <3> QED BY <3>1, <3>4
  <2>5. CASE k + d < n
    <3>1. PICK m \in k + 1..Len(user) : n = d + m
      <4>1. n - d \in k + 1..Len(user) /\ n = d + (n - d)
        BY <2>5, <1>1
      <4> QED BY <4>1
    <3>2. m \in 1..Len(user) /\ n # 0 /\ Clamp(n) = m /\ Clamp(n - 1) = m - 1
      BY <3>1, <2>5, <1>1
    <3>3. text[n] = user[m]
      BY <3>1
    <3> HIDE DEF f, Clamp
    <3> QED BY <3>2, <3>3, <2>2
  <2>6. n = 0 \/ (n # 0 /\ n <= k) \/ (k < n /\ n <= k + d) \/ k + d < n
    BY <1>1
  <2> HIDE DEF f
  <2> QED BY <2>1, <2>3, <2>4, <2>5, <2>6
<1>5. f[Len(text)] = user
  <2>1. Clamp(Len(text)) = Len(user) /\ Len(text) \in 0..Len(text)
    BY <1>1
  <2> QED BY <2>1, <1>2
<1> HIDE DEF f
<1> QED BY <1>4, <1>5, LinesAre

(* Of a text without the block Lines drops nothing.                        *)
LEMMA LinesOfPlain ==
  ASSUME NEW text, Plain(text)
  PROVE  Lines(text) = text
<1>1. text \in Text /\ Len(text) \in Nat
  BY DEF Plain, Text
<1>2. \A i \in 0 + 1..0 + 0 : Managed(text[i])
  OBVIOUS
<1>3. \A i \in 0 + 1..Len(text) : text[0 + i] = text[i]
  BY <1>1
<1> QED BY <1>1, <1>2, <1>3, LinesWithGap

(* The block is a text of three lines.                                     *)
LEMMA BlockIsText ==
  /\ Block \in Text /\ Len(Block) = 3
  /\ Block[1] = "start" /\ Block[2] = "path" /\ Block[3] = "end"
<1>1. Block \in Seq(Line)
  BY DEF Block, Line
<1> QED BY <1>1 DEF Block, Text

(* What the user's lines before and behind the block are together ...      *)
LEMMA Together ==
  ASSUME NEW before, NEW behind, Plain(before), Plain(behind)
  PROVE  /\ Plain(before \o behind)
         /\ Len(before \o behind) = Len(before) + Len(behind)
         /\ \A i \in 1..Len(before) : (before \o behind)[i] = before[i]
         /\ \A i \in 1..Len(behind) : (before \o behind)[Len(before) + i] = behind[i]
<1>1. /\ before \in Seq(Line) /\ behind \in Seq(Line)
      /\ Len(before) \in Nat /\ Len(behind) \in Nat
  BY DEF Plain, Text
<1> DEFINE u == before \o behind
<1>2. /\ u \in Seq(Line) /\ Len(u) = Len(before) + Len(behind)
      /\ \A i \in 1..Len(before) + Len(behind) :
            u[i] = IF i <= Len(before) THEN before[i] ELSE behind[i - Len(before)]
  BY <1>1, ConcatProperties
<1> HIDE DEF u
<1>3. \A i \in 1..Len(before) : u[i] = before[i]
  BY <1>1, <1>2
<1>4. \A i \in 1..Len(behind) : u[Len(before) + i] = behind[i]
  BY <1>1, <1>2
<1>5. \A i \in 1..Len(u) : ~Managed(u[i])
  <2> SUFFICES ASSUME NEW i \in 1..Len(u) PROVE ~Managed(u[i])
    OBVIOUS
  <2>1. CASE i <= Len(before)
    BY <2>1, <1>1, <1>2, <1>3 DEF Plain
  <2>2. CASE ~(i <= Len(before))
    <3>1. i - Len(before) \in 1..Len(behind) /\ u[i] = behind[i - Len(before)]
      BY <2>2, <1>1, <1>2
    <3> QED BY <3>1 DEF Plain
  <2> QED BY <2>1, <2>2
<1> QED BY <1>2, <1>3, <1>4, <1>5 DEF u, Plain, Text

(* ... and what the text with the block between them looks like.           *)
IsBetween(text, before, behind) ==
    Plain(before) /\ Plain(behind) /\ text = before \o Block \o behind

LEMMA Between ==
  ASSUME NEW text, NEW before, NEW behind, IsBetween(text, before, behind)
  PROVE  /\ text \in Text /\ Len(text) = Len(before) + 3 + Len(behind)
         /\ \A i \in 1..Len(before) : text[i] = before[i]
         /\ text[Len(before) + 1] = "start"
         /\ text[Len(before) + 2] = "path"
         /\ text[Len(before) + 3] = "end"
         /\ \A i \in 1..Len(behind) : text[Len(before) + 3 + i] = behind[i]
<1>1. /\ before \in Seq(Line) /\ behind \in Seq(Line) /\ Block \in Seq(Line)
      /\ Len(before) \in Nat /\ Len(behind) \in Nat
  BY BlockIsText DEF Plain, Text, IsBetween
<1> DEFINE u == before \o Block
<1>0. text = u \o behind
  BY DEF IsBetween
<1>2. /\ u \in Seq(Line) /\ Len(u) = Len(before) + Len(Block)
      /\ \A i \in 1..Len(before) + Len(Block) :
            u[i] = IF i <= Len(before) THEN before[i] ELSE Block[i - Len(before)]
  BY <1>1, ConcatProperties
<1> HIDE DEF u
<1>3. /\ Len(u) = Len(before) + 3
      /\ \A i \in 1..Len(before) : u[i] = before[i]
      /\ u[Len(before) + 1] = "start" /\ u[Len(before) + 2] = "path"
      /\ u[Len(before) + 3] = "end"
  <2>1. (Len(before) + 1) - Len(before) = 1 /\ (Len(before) + 2) - Len(before) = 2
        /\ (Len(before) + 3) - Len(before) = 3
    BY <1>1
  <2>2. \A i \in 1..Len(before) : i \in 1..Len(before) + 3 /\ i <= Len(before)
    BY <1>1
  <2>3. \A j \in {1, 2, 3} : /\ Len(before) + j \in 1..Len(before) + 3
                             /\ ~(Len(before) + j <= Len(before))
    BY <1>1
  <2> QED BY <2>1, <2>2, <2>3, <1>2, BlockIsText
<1>4. /\ text \in Seq(Line) /\ Len(text) = Len(u) + Len(behind)
      /\ \A i \in 1..Len(u) + Len(behind) :
            text[i] = IF i <= Len(u) THEN u[i] ELSE behind[i - Len(u)]
  <2>1. /\ u \o behind \in Seq(Line) /\ Len(u \o behind) = Len(u) + Len(behind)
        /\ \A i \in 1..Len(u) + Len(behind) :
              (u \o behind)[i] = IF i <= Len(u) THEN u[i] ELSE behind[i - Len(u)]
    <3>1. u \in Seq(Line)
      BY <1>2
    <3>2. behind \in Seq(Line)
      BY <1>1
    <3> QED BY <3>1, <3>2, ConcatProperties
  <2> QED BY <1>0, <2>1
<1>5. \A i \in 1..Len(before) + 3 : text[i] = u[i]
  <2>1. \A i \in 1..Len(before) + 3 : i \in 1..Len(u) + Len(behind) /\ i <= Len(u)
    BY <1>1, <1>3
  <2> QED BY <2>1, <1>4
<1>6. \A i \in 1..Len(behind) : text[Len(before) + 3 + i] = behind[i]
  <2> SUFFICES ASSUME NEW i \in 1..Len(behind)
               PROVE  text[Len(before) + 3 + i] = behind[i]
    OBVIOUS
  <2>1. /\ Len(before) + 3 + i \in 1..Len(u) + Len(behind)
        /\ ~(Len(before) + 3 + i <= Len(u)) /\ (Len(before) + 3 + i) - Len(u) = i
    BY <1>1, <1>3
  <2> QED BY <2>1, <1>4
<1>7. /\ \A i \in 1..Len(before) : i \in 1..Len(before) + 3
      /\ \A j \in {1, 2, 3} : Len(before) + j \in 1..Len(before) + 3
  BY <1>1
<1> QED BY <1>1, <1>3, <1>4, <1>5, <1>6, <1>7 DEF Text

(* Lines finds the user's lines on both sides of the block.                *)
LEMMA LinesOfBetween ==
  ASSUME NEW before, NEW behind, Plain(before), Plain(behind)
  PROVE  Lines(before \o Block \o behind) = before \o behind
<1> DEFINE u == before \o behind
           t == before \o Block \o behind
           k == Len(before)
<1>1. k \in Nat /\ Len(behind) \in Nat
  BY DEF Plain, Text
<1>0. IsBetween(t, before, behind)
  BY DEF IsBetween
<1>9. k = Len(before)
  OBVIOUS
<1>2. /\ Plain(u) /\ Len(u) = k + Len(behind)
      /\ \A i \in 1..k : u[i] = before[i]
      /\ \A i \in 1..Len(behind) : u[k + i] = behind[i]
  BY Together
<1> HIDE DEF u, t, k
<1>3. /\ t \in Text /\ Len(t) = k + 3 + Len(behind)
      /\ \A i \in 1..k : t[i] = before[i]
      /\ t[k + 1] = "start" /\ t[k + 2] = "path" /\ t[k + 3] = "end"
      /\ \A i \in 1..Len(behind) : t[k + 3 + i] = behind[i]
  <2>1. /\ t \in Text /\ Len(t) = Len(before) + 3 + Len(behind)
        /\ \A i \in 1..Len(before) : t[i] = before[i]
        /\ t[Len(before) + 1] = "start"
        /\ t[Len(before) + 2] = "path"
        /\ t[Len(before) + 3] = "end"
        /\ \A i \in 1..Len(behind) : t[Len(before) + 3 + i] = behind[i]
    BY <1>0, Between
  <2> QED BY <1>9, <2>1
<1>4. \A i \in k + 1..k + 3 : Managed(t[i])
  <2>1. \A i \in k + 1..k + 3 : i = k + 1 \/ i = k + 2 \/ i = k + 3
    BY <1>1
  <2> QED BY <2>1, <1>3 DEF Managed
<1>5. \A i \in k + 1..Len(u) : t[3 + i] = u[i]
  <2> SUFFICES ASSUME NEW i \in k + 1..Len(u) PROVE t[3 + i] = u[i]
    OBVIOUS
  <2>1. i - k \in 1..Len(behind) /\ k + (i - k) = i /\ k + 3 + (i - k) = 3 + i
    BY <1>1, <1>2
  <2> QED BY <2>1, <1>2, <1>3
<1>6. k <= Len(u) /\ Len(t) = Len(u) + 3 /\ 3 \in Nat /\ \A i \in 1..k : t[i] = u[i]
  BY <1>1, <1>2, <1>3
<1>7. Lines(t) = u
  BY <1>1, <1>2, <1>3, <1>4, <1>5, <1>6, LinesWithGap
<1> QED BY <1>7 DEF t, u

---------------------------------------------------------------------------
(* Trim.                                                                   *)

(* Everything behind the first n lines is blank, and they do not end with  *)
(* a blank line themselves, unless it is the first.                        *)
TrimmedAt(text, n) ==
    /\ n \in 0..Len(text)
    /\ \A i \in n + 1..Len(text) : i > 1 /\ text[i] = "blank"
    /\ n > 1 => text[n] # "blank"

(* A text is trimmed at one place only ...                                 *)
LEMMA TrimmedAtOnce ==
  ASSUME NEW text \in Text, NEW m, NEW n, TrimmedAt(text, m), TrimmedAt(text, n)
  PROVE  m = n
<1>1. Len(text) \in Nat
  BY DEF Text
<1>2. m < n => n \in m + 1..Len(text)
  BY <1>1 DEF TrimmedAt
<1>3. n < m => m \in n + 1..Len(text)
  BY <1>1 DEF TrimmedAt
<1> QED BY <1>1, <1>2, <1>3 DEF TrimmedAt

(* ... and at one there always is.                                         *)
LEMMA TrimmedSomewhere ==
  ASSUME NEW text \in Text
  PROVE  \E n \in 0..Len(text) : TrimmedAt(text, n)
<1> DEFINE T == {n \in 0..Len(text) : \A i \in n + 1..Len(text) : i > 1 /\ text[i] = "blank"}
<1>1. Len(text) \in Nat
  BY DEF Text
<1>2. Len(text) \in T
  BY <1>1
<1>3. T \subseteq Nat
  BY <1>1
<1>4. PICK n \in T : \A m \in T : ~(m < n)
  <2> HIDE DEF T
  <2> QED BY <1>2, <1>3, Least
<1>5. ASSUME n > 1, text[n] = "blank" PROVE FALSE
  <2>1. \A i \in (n - 1) + 1..Len(text) : i = n \/ i \in n + 1..Len(text)
    BY <1>1
  <2>2. n - 1 \in T
    BY <1>1, <1>5, <2>1
  <2>3. n - 1 < n
    BY <1>1
  <2> QED BY <1>4, <2>2, <2>3
<1> QED BY <1>4, <1>5 DEF TrimmedAt

(* Trim cuts the text off there: its CHOOSE is never empty.                *)
LEMMA TrimIs ==
  ASSUME NEW text \in Text, NEW n, TrimmedAt(text, n)
  PROVE  Trim(text) = SubSeq(text, 1, n)
<1> DEFINE c == CHOOSE m \in 0..Len(text) :
                   /\ \A i \in m + 1..Len(text) : i > 1 /\ text[i] = "blank"
                   /\ m > 1 => text[m] # "blank"
<1>1. TrimmedAt(text, c)
  BY TrimmedSomewhere DEF TrimmedAt
<1>2. Trim(text) = SubSeq(text, 1, c)
  BY DEF Trim
<1> HIDE DEF c
<1> QED BY <1>1, <1>2, TrimmedAtOnce

(* Trimming again changes nothing.                                         *)
LEMMA TrimTwice ==
  ASSUME NEW text \in Text
  PROVE  Trim(Trim(text)) = Trim(text)
<1>1. Len(text) \in Nat /\ text \in Seq(Line)
  BY DEF Text
<1>2. PICK n \in 0..Len(text) : TrimmedAt(text, n)
  BY TrimmedSomewhere
<1> DEFINE t == SubSeq(text, 1, n)
<1>3. Trim(text) = t
  BY <1>2, TrimIs
<1>4. t \in Seq(Line) /\ Len(t) = n /\ \A i \in 1..n : t[i] = text[i]
  BY <1>1, SubSeqProperties, ElementOfSeq
<1> HIDE DEF t
<1>5. TrimmedAt(t, n)
  BY <1>1, <1>2, <1>4 DEF TrimmedAt
<1>6. Trim(t) = SubSeq(t, 1, n)
  BY <1>4, <1>5, TrimIs DEF Text
<1>7. SubSeq(t, 1, n) = t
  BY <1>4, SubSeqFull
<1> QED BY <1>3, <1>6, <1>7

(* Trimming brings no line of the block in.                                *)
LEMMA TrimOfPlain ==
  ASSUME NEW text, Plain(text)
  PROVE  Plain(Trim(text))
<1>1. text \in Seq(Line) /\ Len(text) \in Nat
  BY DEF Plain, Text
<1>2. PICK n \in 0..Len(text) : TrimmedAt(text, n)
  BY <1>1, TrimmedSomewhere DEF Text
<1> DEFINE t == SubSeq(text, 1, n)
<1>3. Trim(text) = t
  BY <1>1, <1>2, TrimIs DEF Text
<1>4. t \in Seq(Line) /\ Len(t) = n /\ \A i \in 1..n : t[i] = text[i]
  BY <1>1, SubSeqProperties, ElementOfSeq
<1> HIDE DEF t
<1> QED BY <1>1, <1>3, <1>4 DEF Plain, Text

---------------------------------------------------------------------------
(* Removed.                                                                *)

(* The first of one position.                                              *)
LEMMA FirstOfOne ==
  ASSUME NEW i \in Nat
  PROVE  First({i}) = i
BY DEF First

(* No line of a text without the block is a mark.                          *)
LEMMA NoMarks ==
  ASSUME NEW text, Plain(text)
  PROVE  At(text, "start") = {} /\ At(text, "end") = {}
<1>1. DOMAIN text = 1..Len(text)
  BY DEF Plain, Text
<1> QED BY <1>1 DEF Plain, At, Managed

(* remove_managed_block leaves a text without the block as it is.          *)
LEMMA RemovedFromPlain ==
  ASSUME NEW text, Plain(text)
  PROVE  Removed(text) = text
BY NoMarks DEF Removed

(* Where the marks are when the block is there.                            *)
LEMMA MarksBetween ==
  ASSUME NEW before, NEW behind, Plain(before), Plain(behind)
  PROVE  /\ At(before \o Block \o behind, "start") = {Len(before) + 1}
         /\ At(before \o Block \o behind, "end") = {Len(before) + 3}
<1> DEFINE t == before \o Block \o behind
           k == Len(before)
<1>1. k \in Nat /\ Len(behind) \in Nat
  BY DEF Plain, Text
<1>0. IsBetween(t, before, behind)
  BY DEF IsBetween
<1>9. k = Len(before)
  OBVIOUS
<1> HIDE DEF t, k
<1>2. /\ t \in Text /\ Len(t) = k + 3 + Len(behind)
      /\ \A i \in 1..k : t[i] = before[i]
      /\ t[k + 1] = "start" /\ t[k + 2] = "path" /\ t[k + 3] = "end"
      /\ \A i \in 1..Len(behind) : t[k + 3 + i] = behind[i]
  <2>1. /\ t \in Text /\ Len(t) = Len(before) + 3 + Len(behind)
        /\ \A i \in 1..Len(before) : t[i] = before[i]
        /\ t[Len(before) + 1] = "start"
        /\ t[Len(before) + 2] = "path"
        /\ t[Len(before) + 3] = "end"
        /\ \A i \in 1..Len(behind) : t[Len(before) + 3 + i] = behind[i]
    BY <1>0, Between
  <2> QED BY <1>9, <2>1
<1>3. \A i \in 1..k : before[i] # "start" /\ before[i] # "end"
  BY <1>9 DEF Plain, Managed
<1>4. \A i \in 1..Len(behind) : behind[i] # "start" /\ behind[i] # "end"
  BY DEF Plain, Managed
<1>5. DOMAIN t = 1..k + 3 + Len(behind)
  BY <1>2 DEF Text
<1>6. \A i \in DOMAIN t : t[i] \in {"start", "end"} => i = k + 1 \/ i = k + 3
  <2> SUFFICES ASSUME NEW i \in 1..k + 3 + Len(behind), t[i] \in {"start", "end"}
               PROVE  i = k + 1 \/ i = k + 3
    BY <1>5
  <2>1. ~(i <= k)
    BY <1>1, <1>2, <1>3
  <2>2. i # k + 2
    BY <1>2
  <2>3. ~(k + 3 < i)
    <3> SUFFICES ASSUME k + 3 < i PROVE FALSE
      OBVIOUS
    <3>1. i - (k + 3) \in 1..Len(behind) /\ k + 3 + (i - (k + 3)) = i
      BY <1>1
    <3> QED BY <3>1, <1>2, <1>4
  <2> QED BY <1>1, <2>1, <2>2, <2>3
<1>7. k + 1 \in DOMAIN t /\ k + 3 \in DOMAIN t
  BY <1>1, <1>5
<1>8. At(t, "start") = {k + 1} /\ At(t, "end") = {k + 3}
  BY <1>2, <1>6, <1>7 DEF At
<1> QED BY <1>8 DEF t, k

(* Of a text with one block what is before it and what is behind it stay,  *)
(* up to blank lines at the end.                                           *)
LEMMA RemovedBetween ==
  ASSUME NEW text \in Text, NEW a \in Nat, NEW b \in Nat, a < b,
         At(text, "start") = {a}, At(text, "end") = {b}
  PROVE  Removed(text) = Trim(SubSeq(text, 1, a - 1) \o SubSeq(text, b + 1, Len(text)))
<1>1. First({a}) = a /\ First({b}) = b
  BY FirstOfOne
<1>2. {i \in {b} : \E s \in {a} : s < i /\ First({a}) = s} = {b}
  BY <1>1
<1> QED BY <1>1, <1>2 DEF Removed

(* remove_managed_block gives back the user's lines, on whichever side of  *)
(* the block they are.                                                     *)
LEMMA RemovedBlock ==
  ASSUME NEW before, NEW behind, Plain(before), Plain(behind)
  PROVE  Removed(before \o Block \o behind) = Trim(before \o behind)
<1> DEFINE t == before \o Block \o behind
           k == Len(before)
<1>1. /\ before \in Seq(Line) /\ behind \in Seq(Line)
      /\ k \in Nat /\ Len(behind) \in Nat
  BY DEF Plain, Text
<1>3. At(t, "start") = {k + 1} /\ At(t, "end") = {k + 3}
  BY MarksBetween
<1>0. IsBetween(t, before, behind)
  BY DEF IsBetween
<1>4. Len(before) = k
  OBVIOUS
<1> HIDE DEF t, k
<1>2. /\ t \in Seq(Line) /\ Len(t) = k + 3 + Len(behind)
      /\ \A i \in 1..k : t[i] = before[i]
      /\ \A i \in 1..Len(behind) : t[k + 3 + i] = behind[i]
  <2>1. /\ t \in Text /\ Len(t) = Len(before) + 3 + Len(behind)
        /\ \A i \in 1..Len(before) : t[i] = before[i]
        /\ t[Len(before) + 1] = "start"
        /\ t[Len(before) + 2] = "path"
        /\ t[Len(before) + 3] = "end"
        /\ \A i \in 1..Len(behind) : t[Len(before) + 3 + i] = behind[i]
    BY <1>0, Between
  <2> QED BY <1>4, <2>1 DEF Text
<1>5. \A i \in 1..Len(t) : t[i] \in Line
  BY <1>2, ElementOfSeq
<1>6. SubSeq(t, 1, k) = before
  <2> DEFINE u == SubSeq(t, 1, k)
  <2>1. /\ u \in Seq(Line) /\ Len(u) = k
        /\ \A i \in 1..k : u[i] = t[1 + i - 1]
    BY <1>1, <1>2, <1>5, SubSeqProperties
  <2>2. \A i \in 1..k : u[i] = before[i]
    BY <1>1, <1>2, <2>1
  <2> HIDE DEF u
  <2> QED BY <1>1, <1>4, <2>1, <2>2, SeqEqual DEF u
<1>7. SubSeq(t, (k + 3) + 1, Len(t)) = behind
  <2> DEFINE m == (k + 3) + 1
             u == SubSeq(t, m, Len(t))
  <2>1. \A i \in m..Len(t) : t[i] \in Line
    BY <1>1, <1>2, <1>5
  <2>2. /\ u \in Seq(Line)
        /\ Len(u) = IF m <= Len(t) THEN Len(t) - m + 1 ELSE 0
        /\ \A i \in 1..Len(t) - m + 1 : u[i] = t[m + i - 1]
    <3>1. m \in Int /\ Len(t) \in Int
      BY <1>1, <1>2
    <3> HIDE DEF m
    <3> QED BY <1>2, <2>1, <3>1, SubSeqProperties
  <2>3. Len(u) = Len(behind)
    BY <1>1, <1>2, <2>2
  <2>4. \A i \in 1..Len(behind) : u[i] = behind[i]
    <3> SUFFICES ASSUME NEW i \in 1..Len(behind) PROVE u[i] = behind[i]
      OBVIOUS
    <3>1. i \in 1..Len(t) - m + 1 /\ m + i - 1 = k + 3 + i
      BY <1>1, <1>2
    <3> HIDE DEF u, m
    <3> QED BY <1>2, <2>2, <3>1
  <2> HIDE DEF u, m
  <2> QED BY <1>1, <2>2, <2>3, <2>4, SeqEqual DEF u, m
<1>8. /\ k + 1 \in Nat /\ k + 3 \in Nat /\ k + 1 < k + 3 /\ (k + 1) - 1 = k
  BY <1>1
<1>9. Removed(t) = Trim(SubSeq(t, 1, (k + 1) - 1) \o SubSeq(t, (k + 3) + 1, Len(t)))
  BY <1>2, <1>3, <1>8, RemovedBetween DEF Text
<1> QED BY <1>6, <1>7, <1>8, <1>9 DEF t

---------------------------------------------------------------------------
(* The profile.                                                            *)

(* What the user writes has no line of the block.                          *)
LEMMA UserTextsArePlain ==
  ASSUME NEW text \in UserTexts
  PROVE  Plain(text)
<1>1. text \in Seq(UserLine)
  BY UserTextAssumption
<1>2. text \in Seq(Line)
  BY <1>1, SeqMonotonic DEF Line
<1>3. \A i \in 1..Len(text) : text[i] \in UserLine
  BY <1>1, ElementOfSeq
<1> QED BY <1>2, <1>3, UserTextAssumption DEF Plain, Text

(* The text is the user's lines with the block somewhere among them.       *)
Holds(text, user) ==
    \E before, behind : IsBetween(text, before, behind) /\ user = before \o behind

(* Then Lines and Removed find the user's lines, and the block is there.   *)
LEMMA HoldsBoth ==
  ASSUME NEW text, NEW user, Holds(text, user)
  PROVE  /\ Plain(user) /\ Lines(text) = user /\ Removed(text) = Trim(user)
         /\ At(text, "start") # {} /\ Len(text) = Len(user) + 3 /\ text # user
<1>0. PICK before, behind : IsBetween(text, before, behind) /\ user = before \o behind
  BY DEF Holds
<1>1. /\ Plain(before) /\ Plain(behind)
      /\ user = before \o behind /\ text = before \o Block \o behind
  BY <1>0 DEF IsBetween
<1>2. Plain(user) /\ Lines(text) = user /\ Removed(text) = Trim(user)
  BY <1>1, Together, LinesOfBetween, RemovedBlock
<1>3. At(text, "start") # {}
  BY <1>1, MarksBetween
<1>4. Len(before) \in Nat /\ Len(behind) \in Nat
  BY <1>1 DEF Plain, Text
<1>5. Len(text) = Len(user) + 3 /\ Len(user) \in Nat
  <2>1. Len(text) = Len(before) + 3 + Len(behind)
    BY <1>0, Between
  <2>2. Len(user) = Len(before) + Len(behind)
    BY <1>1, Together
  <2> QED BY <1>4, <2>1, <2>2
<1> QED BY <1>2, <1>3, <1>5

(* The block at the end of the user's lines is one such place.             *)
LEMMA HoldsAppended ==
  ASSUME NEW user, Plain(user)
  PROVE  Holds(user \o Block, user)
<1>1. user \in Seq(Line) /\ Block \in Seq(Line) /\ Plain(<<>>)
  BY BlockIsText DEF Plain, Text
<1>2. user \o Block \in Seq(Line)
  BY <1>1, ConcatProperties
<1>3. user \o <<>> = user /\ (user \o Block) \o <<>> = user \o Block
  BY <1>1, <1>2, ConcatEmptySeq
<1> QED BY <1>1, <1>3 DEF Holds, IsBetween

(* While no command has failed at it, the profile is the user's lines with *)
(* the block somewhere among them, or without it; and it is without it     *)
(* when uninstall goes on to remove the executables.                       *)
ProfileInv ==
    said # "broken" =>
        /\ Plain(Lines(profile))
        /\ profile = Lines(profile) \/ Holds(profile, Lines(profile))
        /\ Trim(Lines(profile)) = Trim(mine)
        /\ said = "enabled"  => profile # Lines(profile)
        /\ said = "disabled" => profile = Lines(profile)

ScrubbedInv ==
    platform = "macos" /\ step = "remove" /\ said # "broken" => profile = Lines(profile)

(* terminal-enable adds the block if it is not there, and no second one.   *)
LEMMA EnableKeeps ==
  ASSUME ProfileInv, Enable
  PROVE  ProfileInv'
<1> SUFFICES ASSUME said' # "broken" PROVE ProfileInv'
  BY DEF ProfileInv
<1>1. said # "broken" /\ readable /\ said' = "enabled" /\ mine' = mine
  BY DEF Enable, Report, Break
<1> DEFINE user == Lines(profile)
<1>2. /\ Plain(user) /\ Trim(user) = Trim(mine)
      /\ profile = user \/ Holds(profile, user)
  BY <1>1 DEF ProfileInv
<1>3. profile' = Appended(profile)
  BY <1>1 DEF Enable, Readable
<1> HIDE DEF user
<1>4. Holds(profile', user)
  <2>1. CASE profile = user
    BY <2>1, <1>2, <1>3, NoMarks, HoldsAppended DEF Appended
  <2>2. CASE Holds(profile, user)
    BY <2>2, <1>3, HoldsBoth DEF Appended
  <2> QED BY <2>1, <2>2, <1>2
<1>5. Lines(profile') = user /\ profile' # user
  BY <1>4, HoldsBoth
<1> QED BY <1>1, <1>2, <1>4, <1>5 DEF ProfileInv

(* terminal-disable leaves the profile without the block.                  *)
LEMMA DisableCleans ==
  ASSUME ProfileInv, DisableProfile, said' # "broken"
  PROVE  ProfileInv' /\ profile' = Lines(profile')
<1>1. /\ said # "broken" /\ profile' = Removed(profile)
      /\ mine' = mine /\ said' = "disabled"
  BY DEF DisableProfile, Report
<1> DEFINE user == Lines(profile)
<1>2. /\ Plain(user) /\ Trim(user) = Trim(mine)
      /\ profile = user \/ Holds(profile, user)
  BY <1>1 DEF ProfileInv
<1> HIDE DEF user
<1>3. profile' = user \/ profile' = Trim(user)
  BY <1>1, <1>2, RemovedFromPlain, HoldsBoth
<1>4. Plain(profile') /\ Trim(profile') = Trim(user)
  BY <1>2, <1>3, TrimOfPlain, TrimTwice DEF Plain
<1>5. Lines(profile') = profile'
  BY <1>4, LinesOfPlain
<1> QED BY <1>1, <1>2, <1>4, <1>5 DEF ProfileInv

(* The user may write the profile anew or edit around the block.           *)
LEMMA UserKeeps ==
  ASSUME ProfileInv, UserEdits
  PROVE  ProfileInv'
<1> SUFFICES ASSUME said' # "broken" PROVE ProfileInv'
  BY DEF ProfileInv
<1>1. CASE profile' \in UserTexts /\ mine' = profile' /\ said' = "none"
  BY <1>1, UserTextsArePlain, LinesOfPlain DEF ProfileInv
<1>2. CASE /\ At(profile, "end") # {}
           /\ \E before, behind \in UserTexts :
                 /\ profile' = before \o Block \o behind
                 /\ mine' = IF said = "broken" THEN <<>> ELSE before \o behind
           /\ UNCHANGED said
  <2>1. PICK before, behind \in UserTexts :
               /\ profile' = before \o Block \o behind
               /\ mine' = IF said = "broken" THEN <<>> ELSE before \o behind
    BY <1>2
  <2>2. Plain(before) /\ Plain(behind) /\ mine' = before \o behind
    BY <1>2, <2>1, UserTextsArePlain
  <2>3. Holds(profile', mine')
    BY <2>1, <2>2 DEF Holds, IsBetween
  <2>4. said # "disabled"
    BY <1>2, NoMarks DEF ProfileInv
  <2> QED BY <1>2, <2>3, <2>4, HoldsBoth DEF ProfileInv
<1> QED BY <1>1, <1>2 DEF UserEdits

(* The terminal commands keep the invariant, however they end.             *)
LEMMA TerminalKeeps ==
  ASSUME ProfileInv, TerminalNext
  PROVE  ProfileInv'
<1>1. CASE Enable
  BY <1>1, EnableKeeps
<1>2. CASE EnableBreaks
  BY <1>2 DEF EnableBreaks, Break, ProfileInv
<1>3. CASE DisableProfile
  BY <1>3, DisableCleans DEF ProfileInv
<1>4. CASE DisableBreaks
  BY <1>4 DEF DisableBreaks, Break, ProfileInv
<1> QED BY <1>1, <1>2, <1>3, <1>4 DEF TerminalNext

(* Nothing but the removal of the saved value comes before the removal of  *)
(* the executables.                                                        *)
LEMMA OnlyForgetLeads ==
  ASSUME TypeInv, ServiceNext, step' = "remove", step # "remove"
  PROVE  step = "forget" /\ platform' = platform
<1> USE DEF service, paths, old, control
<1>1. CASE Begin
  BY <1>1 DEF Begin
<1>2. CASE Install
  <2> USE DEF TypeInv, BuildInv
  <2>1. CASE Copy \/ Register \/ Bootstrap \/ SavePrevious \/ SetPath \/ Run
    BY <2>1, Continuing DEF Copy, Register, Bootstrap, SavePrevious, SetPath, Run
  <2>2. CASE Bootout
    BY <2>2, Continuing DEF Bootout, GoTo
  <2>3. CASE CopyBreaks \/ Installed \/ NotHealthy \/ InstallFails
    BY <2>3 DEF CopyBreaks, Installed, NotHealthy, InstallFails, End, RollBack
  <2> QED BY <1>2, <2>1, <2>2, <2>3 DEF Install
<1>3. CASE Uninstall
  BY <1>3 DEF Uninstall, Unload, Unregister, Compare, Restore, Forget, Remove,
              RemoveBreaks, UninstallFails, GoTo, End
<1>4. CASE Others
  BY <1>4 DEF Others, RestartDaemon, RestartFails, Check, BackUp, Disable, MigrateFails,
              GoTo, End
<1>5. CASE Die \/ UserSets \/ DaemonMoves \/ Login
  BY <1>5 DEF Die, UserSets, DaemonMoves, Login
<1> QED BY <1>1, <1>2, <1>3, <1>4, <1>5 DEF ServiceNext

(* A machine stays on its build.                                           *)
LEMMA ServiceKeepsPlatform == ServiceNext => platform' = platform
<1> USE DEF service, paths, old, control
<1>1. CASE Begin \/ Install
  BY <1>1 DEF Begin, Install, Copy, CopyBreaks, Register, Bootout, Bootstrap, SavePrevious,
              SetPath, Run, Installed, NotHealthy, InstallFails
<1>2. CASE Uninstall \/ Others
  BY <1>2 DEF Uninstall, Unload, Unregister, Compare, Restore, Forget, Remove, RemoveBreaks,
              UninstallFails, Others, RestartDaemon, RestartFails, Check, BackUp, Disable,
              MigrateFails
<1>3. CASE Die \/ UserSets \/ DaemonMoves \/ Login
  BY <1>3 DEF Die, UserSets, DaemonMoves, Login
<1> QED BY <1>1, <1>2, <1>3 DEF ServiceNext

(* The two hold in every state: a command on the profile keeps the first,  *)
(* and the second becomes true with the removal of the block that comes    *)
(* before the executables are removed.                                     *)
LEMMA ProfileInvariant == SetupSpec => [](ProfileInv /\ ScrubbedInv)
<1>1. SetupInit => ProfileInv /\ ScrubbedInv
  <2> SUFFICES ASSUME SetupInit PROVE ProfileInv /\ ScrubbedInv
    OBVIOUS
  <2>1. Plain(profile) /\ Lines(profile) = profile
    BY UserTextsArePlain, LinesOfPlain DEF SetupInit, TerminalInit
  <2> QED BY <2>1 DEF SetupInit, TerminalInit, ProfileInv, ScrubbedInv
<1>2. TypeInv /\ ProfileInv /\ ScrubbedInv /\ [SetupNext]_setupVars
      => (ProfileInv /\ ScrubbedInv)'
  <2> SUFFICES ASSUME TypeInv, ProfileInv, ScrubbedInv, [SetupNext]_setupVars
               PROVE  ProfileInv' /\ ScrubbedInv'
    OBVIOUS
  <2>1. CASE ServiceStep
    <3>1. CASE platform = "macos" /\ step = "forget" /\ step' = "remove"
      <4>1. CASE DisableProfile
        BY <4>1, DisableCleans DEF DisableProfile, ProfileInv, ScrubbedInv
      <4>2. CASE DisableBreaks
        BY <4>2 DEF DisableBreaks, Break, ProfileInv, ScrubbedInv
      <4> QED BY <2>1, <3>1, <4>1, <4>2 DEF ServiceStep, Scrub
    <3>2. CASE ~(platform = "macos" /\ step = "forget" /\ step' = "remove")
      <4>1. UNCHANGED terminalVars /\ ServiceNext
        BY <2>1, <3>2 DEF ServiceStep
      <4>2. ProfileInv'
        BY <4>1 DEF terminalVars, file, ProfileInv
      <4>3. platform' = "macos" /\ step' = "remove" => platform = "macos" /\ step = "remove"
        BY <3>2, <4>1, OnlyForgetLeads, ServiceKeepsPlatform
      <4> QED BY <4>1, <4>2, <4>3 DEF terminalVars, file, ScrubbedInv
    <3> QED BY <3>1, <3>2
  <2>2. CASE TerminalStep
    <3>1. ProfileInv' /\ step' = "idle"
      BY <2>2, TerminalKeeps DEF TerminalStep, vars, control
    <3> QED BY <3>1 DEF ScrubbedInv
  <2>3. CASE EditStep
    <3>1. ProfileInv'
      BY <2>3, UserKeeps DEF EditStep
    <3>2. step' = step /\ platform' = platform /\ UserEdits
      BY <2>3 DEF EditStep, vars, control
    <3>3. ASSUME platform = "macos", step = "remove", said' # "broken"
          PROVE  profile' = Lines(profile')
      <4>1. CASE profile' \in UserTexts
        BY <4>1, UserTextsArePlain, LinesOfPlain
      <4>2. CASE At(profile, "end") # {} /\ UNCHANGED said
        BY <3>3, <4>2, NoMarks DEF ScrubbedInv, ProfileInv
      <4> QED BY <3>2, <4>1, <4>2 DEF UserEdits
    <3> QED BY <3>1, <3>2, <3>3 DEF ScrubbedInv
  <2>4. CASE UNCHANGED setupVars
    BY <2>4 DEF setupVars, vars, control, terminalVars, file, ProfileInv, ScrubbedInv
  <2> QED BY <2>1, <2>2, <2>3, <2>4 DEF SetupNext
<1> QED BY <1>1, <1>2, SetupIsService, TypeInvariant, PTL DEF SetupSpec

(* For every set of texts the user may write: as long as no command has    *)
(* failed at the profile, it holds the user's lines, the block once after  *)
(* terminal-enable and not at all after terminal-disable.                  *)
THEOREM ProfileIsMineCorrect == SetupSpec => []ProfileIsMine
<1>1. ProfileInv => ProfileIsMine
  <2> SUFFICES ASSUME ProfileInv, said # "broken" PROVE ProfileIsMine
    BY DEF ProfileIsMine
  <2>1. Plain(Lines(profile)) /\ Len(Block) = 3
    BY BlockIsText DEF ProfileInv
  <2>2. profile # Lines(profile) => Len(profile) = Len(Lines(profile)) + 3
    BY HoldsBoth DEF ProfileInv
  <2> QED BY <2>1, <2>2 DEF ProfileInv, ProfileIsMine
<1> QED BY <1>1, ProfileInvariant, PTL

(* An uninstall that reports no error has left nothing of the block in the *)
(* profile, unless the profile could not be read or written.               *)
THEOREM ShellRestoredCorrect == SetupSpec => ShellRestored
<1> DEFINE Step1 ==
      step = "remove" /\ reply' = "uninstalled" /\ platform = "macos" /\ said # "broken"
      => profile = Lines(profile)
<1>1. ScrubbedInv => Step1
  BY DEF ScrubbedInv
<1>2. ScrubbedInv /\ [SetupNext]_setupVars => [Step1]_setupVars
  BY <1>1
<1> QED BY <1>2, ProfileInvariant, PTL DEF SetupSpec, ShellRestored
=============================================================================
