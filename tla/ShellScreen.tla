---------------------------- MODULE ShellScreen ----------------------------
(***************************************************************************)
(* The prompt of shell_loop on the text screen: every key changes the line *)
(* and what the user sees of it.                                           *)
(*                                                                         *)
(* A command is what it prints, or a clear_screen, and the path it leaves  *)
(* for the next prompt.                                                    *)
(***************************************************************************)
EXTENDS ShellLine, Console

CONSTANTS
  Prompts,         \* "[nova] path >> " for each path, without the '\n' before it
  Outputs          \* what commands print

\* Keys that yield '\n' and '\b' are Enter and Backspace, so no line, no name of a
\* directory and no prompt has one.
ASSUME ScreenAssumption ==
  /\ {"\n", "bs"} \cap Chars = {}
  /\ \A text \in Prompts \cup Outputs : text \in Seq(Range(text))
  /\ \A text \in Prompts : {"\n", "bs"} \cap Range(text) = {}

VARIABLE prompt    \* the one of current_path

screenVars == <<screen, last_time_str, prompt>>

Prompted(s, text) == print(put_char(s, "\n"), text)

\* One round of the loop: the clock is drawn before the key is looked at.
Polled(time) == screen' = draw_shell_dynamic(time) /\ last_time_str' = time

\* A poll without a key, or with one that the line ignores.
Idle(time) == Polled(time) /\ UNCHANGED <<lineVars, prompt>>

TypeKey(time, ch) ==
  /\ Insert(ch)
  /\ LET s == draw_shell_dynamic(time)
     IN  screen' = IF pos' > pos THEN put_char(s, ch) ELSE s
  /\ last_time_str' = time /\ UNCHANGED prompt

BackspaceKey(time) ==
  /\ Backspace
  /\ LET s == draw_shell_dynamic(time)
     IN  screen' = IF pos > 0 THEN put_char(s, "bs") ELSE s
  /\ last_time_str' = time /\ UNCHANGED prompt

\* Mutant: the recalled line is printed over the old one.
ErasedNothing(s) == [s EXCEPT !.x = IF pos > s.x THEN 0 ELSE s.x - pos]
Erased(s) == print(s, [i \in 1..pos |-> "bs"])

UpKey(time) ==
  /\ Up
  /\ screen' = print(Erased(draw_shell_dynamic(time)), history_buf[history_pos'])
  /\ last_time_str' = time /\ UNCHANGED prompt

\* A line without a word runs no command.
EnterKey(time) ==
  /\ Enter
  /\ LET s == put_char(draw_shell_dynamic(time), "\n")
     IN  IF split_args(Text, MAX_ARGS) = <<>>
         THEN screen' = Prompted(s, prompt) /\ UNCHANGED prompt
         ELSE /\ prompt' \in Prompts
              /\ \/ \E out \in Outputs : screen' = Prompted(print(s, out), prompt')
                 \/ screen' = Prompted(clear_screen, prompt')
  /\ last_time_str' = time

ScreenInit ==
  /\ LineInit
  /\ last_time_str = "" /\ prompt \in Prompts
  /\ screen = Prompted(clear_screen, prompt)

ScreenNext ==
  \E time \in Times :
    \/ Idle(time) \/ BackspaceKey(time) \/ UpKey(time) \/ EnterKey(time)
    \/ \E ch \in Chars : TypeKey(time, ch)

ScreenSpec == ScreenInit /\ [][ScreenNext]_<<lineVars, screenVars>>

-----------------------------------------------------------------------------
\* Where the whole line fits beside the prompt, the row of the cursor shows the
\* prompt, the bytes of line that Enter would run, and nothing after them, through
\* typing, correcting, recalling and scrolling.  (A longer line goes over the
\* row's end, and '\b' does not come back from there.)
EchoMatchesLine ==
  Len(prompt) + LINE_SIZE - 1 < VGA_WIDTH =>
    /\ screen.x = Len(prompt) + pos
    /\ screen.vga[screen.y] =
         [x \in Columns |-> IF x < Len(prompt) THEN prompt[x + 1]
                            ELSE IF x < screen.x THEN line[x - Len(prompt)] ELSE " "]
=============================================================================
