------------------------ MODULE RecoveryConsole ------------------------
(***************************************************************************)
(* enter_recovery_loop of main.c: bytes are gathered into command lines in *)
(* a buffer of a fixed size, a line that does not fit is reported once and *)
(* dropped to its end, and handle_recovery_command executes the others.    *)
(* An action is what the loop does with one byte of the UART.              *)
(***************************************************************************)
EXTENDS Integers, Sequences

CONSTANTS
    Cap,           \* BL_RECOVERY_CMD_MAX_LEN
    Bytes,         \* the bytes a host may send
    LineEnds,      \* '\n' and '\r'
    Nul,           \* '\0'
    Lower,         \* normalize_ascii_lowercase of a byte
    CommandOf,     \* the commands, by their text in lower case
    MaxReceived    \* bound: how many bytes the host sends

Commands == {"STATUS", "HELP", "REBOOT", "UPDATE", "ERASE", "BOOT"}

Says == Commands \cup {"UPDATE_OK", "UPDATE_FAIL", "ERASE_OK", "ERASE_FAIL",
                       "BOOT_OK", "BOOT_FAIL", "UNKNOWN", "TOO_LONG", "nothing"}

ASSUME ConsoleAssumption ==
    /\ Cap \in Nat \ {0} /\ MaxReceived \in Nat
    /\ LineEnds \subseteq Bytes /\ Nul \in Bytes \ LineEnds
    /\ Lower \in [Bytes -> Bytes]
    /\ DOMAIN CommandOf \subseteq Seq(Bytes)
    /\ \A text \in DOMAIN CommandOf : CommandOf[text] \in Commands

VARIABLES
    line,        \* line[0 .. line_index - 1]
    discarding,  \* discarding_oversized_line
    running,     \* FALSE: the loop was left, or the chip resets
    received,    \* history: the bytes read
    answers      \* history: what reading each of them made the console say

vars == <<line, discarding, running, received, answers>>

Init == /\ line = <<>> /\ discarding = FALSE /\ running = TRUE
        /\ received = <<>> /\ answers = <<>>

-----------------------------------------------------------------------------
(* handle_recovery_command.                                                *)

Stays(say) == [say |-> say, stays |-> TRUE]
Leaves(say) == [say |-> say, stays |-> FALSE]

(* What executing a command may come to: an erase, an update or an image   *)
(* check works or fails; reboot does not return. The bytes an update reads *)
(* for itself are not the console's.                                       *)
Outcomes ==
    [STATUS |-> {Stays("STATUS")},
     HELP   |-> {Stays("HELP")},
     REBOOT |-> {Leaves("REBOOT")},
     UPDATE |-> {Leaves("UPDATE_OK"), Stays("UPDATE_FAIL")},
     ERASE  |-> {Stays("ERASE_OK"), Stays("ERASE_FAIL")},
     BOOT   |-> {Leaves("BOOT_OK"), Stays("BOOT_FAIL")}]

(* A C string ends at its first '\0', wherever the line ends.              *)
CString(text) ==
    LET Ends(n) == \A i \in 1 .. n : text[i] # Nul
    IN SubSeq(text, 1, CHOOSE n \in 0 .. Len(text) :
                           Ends(n) /\ (n < Len(text) => text[n + 1] = Nul))

Normalized(text) ==
    LET string == CString(text) IN [i \in 1 .. Len(string) |-> Lower[string[i]]]

Executed(text) ==
    IF Normalized(text) \in DOMAIN CommandOf
    THEN Outcomes[CommandOf[Normalized(text)]]
    ELSE {Stays("UNKNOWN")}

(* A line that is empty, as a C string, is not a command.                  *)
Handled(text) == IF CString(text) = <<>> THEN {Stays("nothing")} ELSE Executed(text)

-----------------------------------------------------------------------------
(* The loop.                                                               *)

Reads(byte, say) ==
    /\ running /\ Len(received) < MaxReceived
    /\ received' = Append(received, byte)
    /\ answers' = Append(answers, say)

LineEnd(byte) ==
    /\ byte \in LineEnds /\ ~discarding
    /\ \E outcome \in Handled(line) :
           Reads(byte, outcome.say) /\ running' = outcome.stays
    /\ line' = <<>>
    /\ UNCHANGED discarding

DiscardEnds(byte) ==
    /\ byte \in LineEnds /\ discarding
    /\ Reads(byte, "nothing")
    /\ discarding' = FALSE /\ line' = <<>>
    /\ UNCHANGED running

Discard(byte) ==
    /\ byte \notin LineEnds /\ discarding
    /\ Reads(byte, "nothing")
    /\ UNCHANGED <<line, discarding, running>>

(* Mutant of Fits: the byte for the '\0' is forgotten.                     *)
FitsWithoutNul(text) == Len(text) < Cap

Fits(text) == Len(text) < Cap - 1

Gather(byte) ==
    /\ byte \notin LineEnds /\ ~discarding /\ Fits(line)
    /\ Reads(byte, "nothing")
    /\ line' = Append(line, byte)
    /\ UNCHANGED <<discarding, running>>

(* Mutant of DropRest: only what was gathered is dropped; the rest of the  *)
(* line is taken for a line of its own.                                    *)
KeepRest == UNCHANGED discarding

DropRest == discarding' = TRUE

Overflow(byte) ==
    /\ byte \notin LineEnds /\ ~discarding /\ ~Fits(line)
    /\ Reads(byte, "TOO_LONG")
    /\ line' = <<>> /\ DropRest
    /\ UNCHANGED running

Next == \E byte \in Bytes :
            LineEnd(byte) \/ DiscardEnds(byte) \/ Discard(byte) \/ Gather(byte) \/ Overflow(byte)

Spec == Init /\ [][Next]_vars

-----------------------------------------------------------------------------
(* Properties.                                                             *)

(* The buffer has room for the '\0' the end of the line stores.            *)
TypeOK ==
    /\ line \in Seq(Bytes) /\ Len(line) < Cap
    /\ discarding \in BOOLEAN /\ running \in BOOLEAN
    /\ received \in Seq(Bytes)
    /\ answers \in Seq(Says) /\ Len(answers) = Len(received)

(* received[from .. to - 1] is a line, or the beginning of one.            *)
IsLine(from, to) ==
    /\ from = 1 \/ received[from - 1] \in LineEnds
    /\ \A j \in from .. to - 1 : received[j] \notin LineEnds

(* What the last byte of received[from .. to] may make the console say:    *)
(* the end of a line that fits executes that line; the byte that does not  *)
(* fit any more is reported; anything else is silent.                      *)
Permitted(from, to) ==
    LET text == SubSeq(received, from, to - 1)
    IN IF received[to] \in LineEnds
       THEN IF Len(text) < Cap THEN {o.say : o \in Handled(text)} ELSE {"nothing"}
       ELSE IF Len(text) = Cap - 1 THEN {"TOO_LONG"} ELSE {"nothing"}

(* The console against the stream it read: every line that fits is         *)
(* executed once, as it was sent (up to a '\0'); a line that does not fit   *)
(* is reported once and no part of it is ever executed (BOOT_SEQUENCE.md,  *)
(* "Recovery console status").                                             *)
AnswersEachLineOnce ==
    \A to \in 1 .. Len(received) : \A from \in 1 .. to :
        IsLine(from, to) => answers[to] \in Permitted(from, to)
=============================================================================
