---------------------- MODULE RecoveryConsoleProofs ----------------------
(***************************************************************************)
(* Proofs about RecoveryConsole, for every size of the buffer, alphabet    *)
(* and set of commands.                                                    *)
(***************************************************************************)
EXTENDS RecoveryConsole, TLAPS

-----------------------------------------------------------------------------
(* Prefixes.                                                               *)

(* One more element changes no part of a sequence before it.               *)
LEMMA PartKept ==
    ASSUME NEW S, NEW s \in Seq(S), NEW b \in S,
           NEW from \in 1 .. Len(s) + 1, NEW to \in 0 .. Len(s)
    PROVE  SubSeq(Append(s, b), from, to) = SubSeq(s, from, to)
OBVIOUS

(* The part up to the end grows with the sequence.                         *)
LEMMA TailGrows ==
    ASSUME NEW S, NEW s \in Seq(S), NEW b \in S, NEW from \in 1 .. Len(s) + 1
    PROVE  SubSeq(Append(s, b), from, Len(s) + 1) = Append(SubSeq(s, from, Len(s)), b)
OBVIOUS

-----------------------------------------------------------------------------
(* The inductive invariant.                                                *)

(* The buffer holds the line begun, or the line is too long already.       *)
Pending ==
    \A from \in 1 .. Len(received) + 1 :
        IsLine(from, Len(received) + 1) =>
            IF discarding
            THEN line = <<>> /\ Len(received) + 1 - from >= Cap
            ELSE line = SubSeq(received, from, Len(received))

Inv == TypeOK /\ Pending /\ AnswersEachLineOnce

(* What a command says is one of the answers there are.                    *)
LEMMA AnswerTypes ==
    ASSUME NEW text, NEW outcome \in Handled(text)
    PROVE  outcome.say \in Says /\ outcome.stays \in BOOLEAN
<1>1. /\ Outcomes["STATUS"] = {Stays("STATUS")} /\ Outcomes["HELP"] = {Stays("HELP")}
      /\ Outcomes["REBOOT"] = {Leaves("REBOOT")}
      /\ Outcomes["UPDATE"] = {Leaves("UPDATE_OK"), Stays("UPDATE_FAIL")}
      /\ Outcomes["ERASE"] = {Stays("ERASE_OK"), Stays("ERASE_FAIL")}
      /\ Outcomes["BOOT"] = {Leaves("BOOT_OK"), Stays("BOOT_FAIL")}
  BY DEF Outcomes
<1>2. \A say \in Says : /\ Stays(say).say \in Says /\ Stays(say).stays \in BOOLEAN
                        /\ Leaves(say).say \in Says /\ Leaves(say).stays \in BOOLEAN
  BY DEF Stays, Leaves
<1>3. ASSUME NEW command \in Commands, outcome \in Outcomes[command]
      PROVE  \E say \in Says : outcome = Stays(say) \/ outcome = Leaves(say)
  BY <1>1, <1>3 DEF Says, Commands
<1>4. CASE outcome \in {Stays("nothing"), Stays("UNKNOWN")}
  BY <1>2, <1>4 DEF Says
<1>5. CASE \E command \in Commands : outcome \in Outcomes[command]
  BY <1>2, <1>3, <1>5
<1> QED
  BY <1>4, <1>5, ConsoleAssumption DEF Handled, Executed

LEMMA TypeStep ==
    ASSUME TypeOK, [Next]_vars
    PROVE  TypeOK'
<1> USE ConsoleAssumption DEF TypeOK
<1>1. CASE UNCHANGED vars
  BY <1>1 DEF vars
<1>2. ASSUME NEW byte \in Bytes, LineEnd(byte)
      PROVE  TypeOK'
  BY <1>2, AnswerTypes DEF LineEnd, Reads
<1>3. ASSUME NEW byte \in Bytes, DiscardEnds(byte) \/ Discard(byte)
      PROVE  TypeOK'
  <2>1. "nothing" \in Says
    BY DEF Says
  <2>2. CASE DiscardEnds(byte)
    <3>1. received' \in Seq(Bytes) /\ answers' \in Seq(Says) /\ Len(answers') = Len(received')
      BY <2>1, <2>2 DEF DiscardEnds, Reads
    <3>2. line' \in Seq(Bytes) /\ Len(line') < Cap
      BY <2>2 DEF DiscardEnds
    <3>3. discarding' \in BOOLEAN
      BY <2>2 DEF DiscardEnds
    <3>4. running' \in BOOLEAN
      BY <2>2, Zenon DEF DiscardEnds
    <3> QED
      BY <3>1, <3>2, <3>3, <3>4
  <2>3. CASE Discard(byte)
    BY <2>1, <2>3 DEF Discard, Reads
  <2> QED
    BY <1>3, <2>2, <2>3
<1>4. ASSUME NEW byte \in Bytes, Gather(byte)
      PROVE  TypeOK'
  BY <1>4 DEF Gather, Fits, Reads, Says
<1>5. ASSUME NEW byte \in Bytes, Overflow(byte)
      PROVE  TypeOK'
  BY <1>5 DEF Overflow, DropRest, Reads, Says
<1> QED
  BY <1>1, <1>2, <1>3, <1>4, <1>5 DEF Next

(* Reading a byte neither begins nor ends a line before it.                *)
LEMMA SameLines ==
    ASSUME TypeOK, NEW byte \in Bytes, received' = Append(received, byte),
           NEW to \in 1 .. Len(received) + 1, NEW from \in 1 .. to
    PROVE  IsLine(from, to)' <=> IsLine(from, to)
BY DEF TypeOK, IsLine

(* After the end of a line only the empty line is begun.                   *)
LEMMA NewLine ==
    ASSUME TypeOK, NEW byte \in LineEnds, received' = Append(received, byte),
           line' = <<>>, discarding' = FALSE
    PROVE  Pending'
<1> SUFFICES ASSUME NEW from \in 1 .. Len(received') + 1, IsLine(from, Len(received) + 1)'
             PROVE  line' = SubSeq(received', from, Len(received'))
  BY DEF Pending
<1>1. byte \in Bytes
  BY ConsoleAssumption
<1>2. Len(received') = Len(received) + 1 /\ received'[Len(received')] = byte
  BY <1>1 DEF TypeOK
<1>3. from = Len(received') + 1
  BY <1>2 DEF IsLine, TypeOK
<1> QED
  BY <1>1, <1>2, <1>3 DEF TypeOK

(* Within a line the line begun stays the same one.                        *)
LEMMA SameLine ==
    ASSUME TypeOK, NEW byte \in Bytes \ LineEnds, received' = Append(received, byte),
           NEW from \in 1 .. Len(received') + 1, IsLine(from, Len(received) + 1)'
    PROVE  from \in 1 .. Len(received) + 1 /\ IsLine(from, Len(received) + 1)
<1>1. Len(received') = Len(received) + 1 /\ received'[Len(received')] = byte
  BY DEF TypeOK
<1>2. from # Len(received') + 1
  BY <1>1 DEF IsLine, TypeOK
<1> QED
  BY <1>1, <1>2 DEF IsLine, TypeOK

LEMMA PendingStep ==
    ASSUME TypeOK, Pending, [Next]_vars
    PROVE  Pending'
<1>1. CASE UNCHANGED vars
  BY <1>1 DEF vars, Pending, IsLine
<1>2. ASSUME NEW byte \in Bytes, LineEnd(byte) \/ DiscardEnds(byte)
      PROVE  Pending'
  <2>1. byte \in LineEnds
    BY <1>2 DEF LineEnd, DiscardEnds
  <2>2. received' = Append(received, byte) /\ line' = <<>>
    BY <1>2 DEF LineEnd, DiscardEnds, Reads
  <2>3. discarding' = FALSE
    <3>1. CASE LineEnd(byte)
      BY <3>1 DEF LineEnd, TypeOK
    <3>2. CASE DiscardEnds(byte)
      BY <3>2 DEF DiscardEnds
    <3> QED
      BY <1>2, <3>1, <3>2
  <2> QED
    BY <2>1, <2>2, <2>3, NewLine
<1>3. ASSUME NEW byte \in Bytes, Discard(byte) \/ Gather(byte) \/ Overflow(byte)
      PROVE  Pending'
  <2>1. byte \in Bytes \ LineEnds /\ received' = Append(received, byte)
    BY <1>3 DEF Discard, Gather, Overflow, Reads
  <2>2. Len(received') = Len(received) + 1 /\ Len(received) \in Nat /\ Cap \in Nat
    BY <2>1, ConsoleAssumption DEF TypeOK
  <2> SUFFICES ASSUME NEW from \in 1 .. Len(received') + 1, IsLine(from, Len(received) + 1)'
               PROVE  IF discarding'
                      THEN line' = <<>> /\ Len(received') + 1 - from >= Cap
                      ELSE line' = SubSeq(received', from, Len(received'))
    BY DEF Pending
  <2>3. from \in 1 .. Len(received) + 1 /\ IsLine(from, Len(received) + 1)
    BY <2>1, SameLine
  <2>4. IF discarding
        THEN line = <<>> /\ Len(received) + 1 - from >= Cap
        ELSE line = SubSeq(received, from, Len(received))
    BY <2>3 DEF Pending
  <2>5. CASE Discard(byte)
    BY <2>5, <2>2, <2>3, <2>4 DEF Discard
  <2>6. CASE Gather(byte)
    <3>1. SubSeq(received', from, Len(received')) = Append(SubSeq(received, from, Len(received)), byte)
      BY <2>1, <2>2, <2>3, TailGrows DEF TypeOK
    <3> QED
      BY <3>1, <2>4, <2>6 DEF Gather
  <2>7. CASE Overflow(byte)
    <3>1. Len(line) = Len(received) + 1 - from
      BY <2>2, <2>3, <2>4, <2>7 DEF Overflow, TypeOK
    <3> QED
      BY <3>1, <2>2, <2>3, <2>7 DEF Overflow, Fits, DropRest
  <2> QED
    BY <1>3, <2>5, <2>6, <2>7
<1> QED
  BY <1>1, <1>2, <1>3 DEF Next

(* The last byte is answered as the line it belongs to demands.            *)
LEMMA LastAnswer ==
    ASSUME TypeOK, Pending, NEW byte \in Bytes,
           \/ LineEnd(byte) \/ DiscardEnds(byte)
           \/ Discard(byte) \/ Gather(byte) \/ Overflow(byte),
           NEW to, to = Len(received) + 1, NEW from \in 1 .. to, IsLine(from, to)
    PROVE  answers'[to] \in Permitted(from, to)'
<1> DEFINE text == SubSeq(received, from, Len(received))
<1>1. /\ received' = Append(received, byte) /\ received'[to] = byte
      /\ Len(received) \in Nat /\ to \in Nat /\ Cap \in Nat \ {0} /\ to - 1 = Len(received)
  BY ConsoleAssumption DEF LineEnd, DiscardEnds, Discard, Gather, Overflow, Reads, TypeOK
<1>2. SubSeq(received', from, to - 1) = text
  BY <1>1, PartKept DEF TypeOK
<1>3. Len(text) = to - from
  BY <1>1 DEF TypeOK
<1>4. IF discarding THEN Len(text) >= Cap ELSE line = text
  BY <1>1, <1>3 DEF Pending
<1>5. Permitted(from, to)' =
        IF byte \in LineEnds
        THEN IF Len(text) < Cap THEN {o.say : o \in Handled(text)} ELSE {"nothing"}
        ELSE IF Len(text) = Cap - 1 THEN {"TOO_LONG"} ELSE {"nothing"}
  BY <1>1, <1>2 DEF Permitted
<1>6. ASSUME NEW say, answers' = Append(answers, say)
      PROVE  answers'[to] = say
  BY <1>6 DEF TypeOK
<1>7. Len(text) \in Nat /\ (~discarding => Len(text) < Cap)
  BY <1>1, <1>3, <1>4 DEF TypeOK
<1> HIDE DEF text
<1>8. CASE LineEnd(byte)
  BY <1>4, <1>5, <1>6, <1>7, <1>8 DEF LineEnd, Reads
<1>9. CASE DiscardEnds(byte)
  <2>1. answers' = Append(answers, "nothing")
    BY <1>9 DEF DiscardEnds, Reads
  <2>2. answers'[to] = "nothing"
    BY <2>1, <1>6
  <2>3. byte \in LineEnds /\ ~(Len(text) < Cap)
    BY <1>1, <1>4, <1>7, <1>9 DEF DiscardEnds
  <2>4. Permitted(from, to)' = {"nothing"}
    BY <1>5, <2>3
  <2> QED
    BY <2>2, <2>4
<1>10. CASE Discard(byte)
  <2>1. answers' = Append(answers, "nothing")
    BY <1>10 DEF Discard, Reads
  <2>2. answers'[to] = "nothing"
    BY <2>1, <1>6
  <2>3. byte \notin LineEnds /\ Len(text) # Cap - 1
    BY <1>1, <1>4, <1>7, <1>10 DEF Discard
  <2>4. Permitted(from, to)' = {"nothing"}
    BY <1>5, <2>3
  <2> QED
    BY <2>2, <2>4
<1>11. CASE Gather(byte)
  <2>1. answers' = Append(answers, "nothing")
    BY <1>11 DEF Gather, Reads
  <2>2. answers'[to] = "nothing"
    BY <2>1, <1>6
  <2>3. byte \notin LineEnds /\ Len(text) # Cap - 1
    BY <1>1, <1>4, <1>7, <1>11 DEF Gather, Fits
  <2>4. Permitted(from, to)' = {"nothing"}
    BY <1>5, <2>3
  <2> QED
    BY <2>2, <2>4
<1>12. CASE Overflow(byte)
  <2>1. answers' = Append(answers, "TOO_LONG")
    BY <1>12 DEF Overflow, Reads
  <2>2. answers'[to] = "TOO_LONG"
    BY <2>1, <1>6
  <2>3. byte \notin LineEnds /\ Len(text) = Cap - 1
    BY <1>1, <1>4, <1>7, <1>12 DEF Overflow, Fits
  <2>4. Permitted(from, to)' = {"TOO_LONG"}
    BY <1>5, <2>3
  <2> QED
    BY <2>2, <2>4
<1> QED
  BY <1>8, <1>9, <1>10, <1>11, <1>12

LEMMA AnswersStep ==
    ASSUME Inv, [Next]_vars
    PROVE  AnswersEachLineOnce'
<1> USE DEF Inv
<1>1. CASE UNCHANGED vars
  BY <1>1 DEF vars, AnswersEachLineOnce, IsLine, Permitted
<1>2. ASSUME NEW byte \in Bytes,
             \/ LineEnd(byte) \/ DiscardEnds(byte)
             \/ Discard(byte) \/ Gather(byte) \/ Overflow(byte)
      PROVE  AnswersEachLineOnce'
  <2>1. PICK say : received' = Append(received, byte) /\ answers' = Append(answers, say)
    BY <1>2 DEF LineEnd, DiscardEnds, Discard, Gather, Overflow, Reads
  <2>2. Len(received') = Len(received) + 1 /\ Len(received) \in Nat
    BY <2>1 DEF TypeOK
  <2> SUFFICES ASSUME NEW to \in 1 .. Len(received) + 1, NEW from \in 1 .. to,
                      IsLine(from, to)'
               PROVE  answers'[to] \in Permitted(from, to)'
    BY <2>2 DEF AnswersEachLineOnce
  <2>3. IsLine(from, to)
    BY <2>1, SameLines
  <2>4. CASE to = Len(received) + 1
    BY <1>2, <2>3, <2>4, LastAnswer
  <2>5. CASE to \in 1 .. Len(received)
    <3>1. answers'[to] = answers[to] /\ received'[to] = received[to]
      BY <2>1, <2>5 DEF TypeOK
    <3>2. SubSeq(received', from, to - 1) = SubSeq(received, from, to - 1)
      <4>1. from \in 1 .. Len(received) + 1 /\ to - 1 \in 0 .. Len(received)
        BY <2>2, <2>5
      <4> QED
        BY <2>1, <4>1, PartKept DEF TypeOK
    <3>3. answers[to] \in Permitted(from, to)
      BY <2>3, <2>5 DEF AnswersEachLineOnce
    <3> QED
      BY <3>1, <3>2, <3>3 DEF Permitted
  <2> QED
    BY <2>2, <2>4, <2>5
<1> QED
  BY <1>1, <1>2 DEF Next

(* The inductive invariant holds.                                          *)
LEMMA InvHolds == Spec => []Inv
<1>1. Init => Inv
  <2> SUFFICES ASSUME Init
               PROVE  Inv
    OBVIOUS
  <2>1. received = <<>> /\ answers = <<>> /\ line = <<>> /\ Len(received) = 0
    BY DEF Init
  <2>2. TypeOK
    <3>1. line \in Seq(Bytes) /\ Len(line) < Cap
      BY <2>1, ConsoleAssumption
    <3>2. discarding \in BOOLEAN /\ running \in BOOLEAN
      BY Zenon DEF Init
    <3>3. received \in Seq(Bytes) /\ answers \in Seq(Says) /\ Len(answers) = Len(received)
      BY <2>1
    <3> QED
      BY <3>1, <3>2, <3>3 DEF TypeOK
  <2>3. Pending
    BY <2>1 DEF Init, Pending
  <2>4. AnswersEachLineOnce
    BY <2>1 DEF AnswersEachLineOnce
  <2> QED
    BY <2>2, <2>3, <2>4 DEF Inv
<1>2. Inv /\ [Next]_vars => Inv'
  BY TypeStep, PendingStep, AnswersStep DEF Inv
<1> QED
  BY <1>1, <1>2, PTL DEF Spec

(* The line stays inside the buffer of enter_recovery_loop, with room for  *)
(* the '\0', whatever the host sends.                                      *)
THEOREM ConsoleTypes == Spec => []TypeOK
<1>1. Inv => TypeOK
  BY DEF Inv
<1> QED
  BY <1>1, InvHolds, PTL

(* Every line a host sends to the recovery console is executed once and as *)
(* it was sent, or reported once as too long and not executed at all.      *)
THEOREM ConsoleAnswers == Spec => []AnswersEachLineOnce
<1>1. Inv => AnswersEachLineOnce
  BY DEF Inv
<1> QED
  BY <1>1, InvHolds, PTL
=============================================================================
