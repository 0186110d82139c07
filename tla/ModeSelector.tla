-------------------------- MODULE ModeSelector --------------------------
(***************************************************************************)
(* run_mode_selector of main.c: the boot button, sampled every 10 ms, arms *)
(* the selector, cycles through the ring of modes with short presses and   *)
(* executes the shown one with a long press.  Each action is one sample    *)
(* and what the code does until the next; times count 10 ms delays.        *)
(***************************************************************************)
EXTENDS Integers, Sequences

CONSTANTS
    Arm,         \* ARM_DETECT_MS / 10
    ShortMin,    \* SHORT_PRESS_MIN_MS / 10
    ShortMax,    \* SHORT_PRESS_MAX_MS / 10
    Long         \* LONG_PRESS_MIN_MS / 10

ASSUME TimingAssumption ==
    /\ {Arm, ShortMin, ShortMax, Long} \subseteq Nat \ {0}
    /\ ShortMin <= ShortMax /\ ShortMax < Long

(* Three arrays with one index: the modes, the names printed for them, and *)
(* the colours lit for them.                                               *)
s_mode_ring == <<"BOOT_MODE_UPDATE", "BOOT_MODE_RECOVERY", "BOOT_MODE_NORMAL">>

s_mode_ring_names == <<"UPDATE", "RECOVERY", "NORMAL">>

s_mode_ring_colors == <<"amber", "magenta", "green">>

(* Mutant of Display: the colours are in another order than the modes.     *)
ColorsOutOfOrder(idx) ==
    [name |-> s_mode_ring_names[idx], color |-> <<"amber", "green", "magenta">>[idx]]

(* What the operator sees of entry idx.                                    *)
Display(idx) == [name |-> s_mode_ring_names[idx], color |-> s_mode_ring_colors[idx]]

Nothing == [name |-> "none", color |-> "none"]

VARIABLES
    pc,        \* the loop the selector is in
    held,      \* hold_ms or press_ms, in delays
    mode_idx,  \* 1-based
    shown,     \* the name and the colour last shown
    mode,      \* the mode returned
    run,       \* history: how many samples in a row were low
    released,  \* history: a high sample was taken since the selector armed
    stuck      \* the button is held down for good

vars == <<pc, held, mode_idx, shown, mode, run, released, stuck>>

(* Longer runs of low samples need not be told apart.                      *)
RunBound == Long + 2

Init ==
    /\ pc = "guard" /\ held = 0 /\ mode_idx = 1
    /\ shown = Nothing /\ mode = "none"
    /\ run = 0 /\ released = FALSE /\ stuck = FALSE

(* One reading of the button: low is pressed.                              *)
Sample(low) ==
    /\ stuck => low
    /\ run' = IF low THEN (IF run < RunBound THEN run + 1 ELSE run) ELSE 0
    /\ UNCHANGED stuck

Return(m) == pc' = "done" /\ mode' = m

(* The button is up at the guard point, or released before it armed.       *)
BootNormal ==
    /\ pc \in {"guard", "arm"} /\ Sample(FALSE)
    /\ Return("BOOT_MODE_NORMAL")
    /\ UNCHANGED <<held, mode_idx, shown, released>>

GuardPressed ==
    /\ pc = "guard" /\ Sample(TRUE)
    /\ pc' = "arm" /\ held' = 0
    /\ UNCHANGED <<mode_idx, shown, mode, released>>

HoldToArm ==
    /\ pc = "arm" /\ Sample(TRUE) /\ held + 1 < Arm
    /\ held' = held + 1
    /\ UNCHANGED <<pc, mode_idx, shown, mode, released>>

(* Mutant of AfterArming: the wait for the release is missing.             *)
NoWaitForRelease == "loop"

AfterArming == "armed"

(* MODE_SELECT_ARMED, and the first mode is shown at once.                 *)
Armed ==
    /\ pc = "arm" /\ Sample(TRUE) /\ held + 1 >= Arm
    /\ pc' = AfterArming /\ held' = 0
    /\ mode_idx' = 1 /\ shown' = Display(1)
    /\ UNCHANGED <<mode, released>>

AwaitRelease(low) ==
    /\ pc = "armed" /\ Sample(low)
    /\ pc' = (IF low THEN "armed" ELSE "loop")
    /\ released' = (released \/ ~low)
    /\ UNCHANGED <<held, mode_idx, shown, mode>>

(* Mutant of FreshPress: press_ms goes on from the press before.           *)
PressGoesOn == held

FreshPress == 0

LoopPoll(low) ==
    /\ pc = "loop" /\ Sample(low)
    /\ IF low THEN pc' = "press" /\ held' = FreshPress
              ELSE UNCHANGED <<pc, held>>
    /\ released' = (released \/ ~low)
    /\ UNCHANGED <<mode_idx, shown, mode>>

(* Mutant of OneDelayMore: the press is not counted.                       *)
NoDelayMore(n) == n

OneDelayMore(n) == n + 1

(* Mutant of LongEnough: one delay too late.                               *)
LongerThanLong(n) == n > Long

LongEnough(n) == n >= Long

PressHeld ==
    /\ pc = "press" /\ Sample(TRUE) /\ ~LongEnough(OneDelayMore(held))
    /\ held' = OneDelayMore(held)
    /\ UNCHANGED <<pc, mode_idx, shown, mode, released>>

LongPress ==
    /\ pc = "press" /\ Sample(TRUE) /\ LongEnough(OneDelayMore(held))
    /\ held' = 0 /\ Return(s_mode_ring[mode_idx])
    /\ UNCHANGED <<mode_idx, shown, released>>

IsShortPress == ShortMin <= held /\ held <= ShortMax

(* Mutant of ShowMode: the mode shown is the one left.                     *)
ShowModeBefore(idx) == shown' = Display(mode_idx)

ShowMode(idx) == shown' = Display(idx)

NextMode ==
    /\ mode_idx' = (mode_idx % Len(s_mode_ring)) + 1
    /\ ShowMode(mode_idx')

PressReleased ==
    /\ pc = "press" /\ Sample(FALSE)
    /\ pc' = "loop"
    /\ IF IsShortPress THEN NextMode ELSE UNCHANGED <<mode_idx, shown>>
    /\ released' = TRUE
    /\ UNCHANGED <<held, mode>>

Polls == \/ BootNormal \/ GuardPressed \/ HoldToArm \/ Armed
         \/ \E low \in BOOLEAN : AwaitRelease(low) \/ LoopPoll(low)
         \/ PressHeld \/ LongPress \/ PressReleased

(* The button is pressed and never let go again.                           *)
HoldForGood ==
    /\ ~stuck /\ pc # "done"
    /\ stuck' = TRUE
    /\ UNCHANGED <<pc, held, mode_idx, shown, mode, run, released>>

Next == Polls \/ HoldForGood

(* The loops poll for ever; the operator need not do anything.             *)
Spec == Init /\ [][Next]_vars /\ WF_vars(Polls)

-----------------------------------------------------------------------------
(* Properties.                                                             *)

(* How the operator reads the display: the name of the mode, and the       *)
(* colour update mode, the recovery console and the hand-off light         *)
(* themselves.                                                             *)
Meaning == [BOOT_MODE_UPDATE   |-> [name |-> "UPDATE",   color |-> "amber"],
            BOOT_MODE_RECOVERY |-> [name |-> "RECOVERY", color |-> "magenta"],
            BOOT_MODE_NORMAL   |-> [name |-> "NORMAL",   color |-> "green"]]

Modes == {"BOOT_MODE_UPDATE", "BOOT_MODE_RECOVERY", "BOOT_MODE_NORMAL"}

TypeOK ==
    /\ pc \in {"guard", "arm", "armed", "loop", "press", "done"}
    /\ held \in Nat /\ (held < Arm \/ held < Long)
    /\ mode_idx \in 1 .. Len(s_mode_ring)
    /\ shown \in {Display(i) : i \in 1 .. Len(s_mode_ring)} \cup {Nothing}
    /\ mode \in Modes \cup {"none"}
    /\ run \in 0 .. RunBound
    /\ released \in BOOLEAN /\ stuck \in BOOLEAN

(* An armed selector executes the mode whose name it printed last and      *)
(* whose colour it lights, after any sequence of presses: the three arrays *)
(* agree and are read at one index.  A selector that never armed boots     *)
(* normally.                                                               *)
ExecutesWhatItShows ==
    pc = "done" => IF shown = Nothing THEN mode = "BOOT_MODE_NORMAL"
                                      ELSE shown = Meaning[mode]

(* A button that never comes up after arming, stuck or taped down,         *)
(* executes nothing.                                                       *)
ReleaseBeforeExecute == pc = "done" /\ shown # Nothing => released

(* Only one press of the length of a short press moves the ring: bounces   *)
(* and taps do not add up, and a press too long to be short is ignored.    *)
OnlyShortPressMoves ==
    [][mode_idx' # mode_idx => run - 1 \in ShortMin .. ShortMax]_vars

(* A button held down once the interaction loop runs executes the mode.    *)
HoldingExecutes == stuck /\ pc \in {"loop", "press"} ~> pc = "done"
=============================================================================
