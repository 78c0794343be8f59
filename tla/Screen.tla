------------------------------- MODULE Screen -------------------------------
(***************************************************************************)
(* The terminal of the client (screen.c): the prompt that readline draws,  *)
(* the messages that are printed above it, and the shells that the user    *)
(* runs in the same terminal (command.c), within the start, the loop and   *)
(* the end of main (main.c).  What is written to the log file is left out. *)
(***************************************************************************)
EXTENDS Integers, Sequences

CONSTANTS
    Prompt,        \* texts of the prompt
    Shell,         \* processes of the shell command
    None,
    MaxMsgs,       \* bound: messages
    MaxCommands    \* bound: commands of one line

ASSUME ScreenAssumption ==
    /\ None \notin Prompt \cup Shell
    /\ MaxMsgs \in Nat /\ MaxCommands \in Nat

VARIABLES
    screen_state,
    screen_prompt,
    suspend_msgs,
    handler,       \* rl_callback_handler_install
    watched,       \* standard input is in read_fds
    drawn,         \* the prompt that stands on the last line of the terminal
    shell,         \* the state of each shell
    shell_child,
    running,
    place,         \* where main is
    typed,         \* select has found input
    left,          \* commands of the line that are still to be executed
    said,          \* history: the number of the messages,
    shown,         \* the messages that were printed,
    clobbered,     \* one of them over the prompt,
    suspended      \* the screen was suspended, for this shell

screen_vars == <<screen_state, screen_prompt, suspend_msgs, handler, watched, drawn, shell,
                 shell_child, running, place, typed, left, said, shown, clobbered, suspended>>

shells == <<shell, shell_child>>
main == <<running, place, typed, left>>
screen_history == <<said, shown, clobbered, suspended>>

ScreenState == {"UNINITIALIZED", "NO_HANDLER", "RL_CLEARED", "RL_DISPLAYED", "SUSPENDED"}

\* The places where commands and handlers run.
Busy == {"script", "signals", "line", "others"}

ScreenInit ==
    /\ screen_state = "UNINITIALIZED"
    /\ screen_prompt \in Prompt
    /\ suspend_msgs = <<>>
    /\ handler = FALSE /\ watched = FALSE /\ drawn = None
    /\ shell = [s \in Shell |-> "new"] /\ shell_child = None
    /\ running = TRUE /\ place = "script" /\ typed = FALSE /\ left = 0
    /\ said = 0 /\ shown = <<>> /\ clobbered = FALSE /\ suspended = <<>>

-----------------------------------------------------------------------------
(* Messages *)

\* Variant of Flag_putf: the prompt is not cleared.
Flag_putfOver ==
    /\ place \in Busy /\ said < MaxMsgs
    /\ said' = said + 1
    /\ IF screen_state = "SUSPENDED"
       THEN /\ suspend_msgs' = Append(suspend_msgs, said')
            /\ UNCHANGED <<shown, screen_state, drawn, clobbered>>
       ELSE /\ shown' = Append(shown, said')
            /\ screen_state' = IF screen_state = "RL_DISPLAYED" THEN "RL_CLEARED"
                               ELSE screen_state
            /\ clobbered' = (clobbered \/ drawn # None)
            /\ UNCHANGED <<suspend_msgs, drawn>>
    /\ UNCHANGED <<screen_prompt, handler, watched, shells, main, suspended>>

(* A message is kept while the screen is suspended, and otherwise printed  *)
(* where the prompt stood.                                                 *)
Flag_putf ==
    /\ place \in Busy /\ said < MaxMsgs
    /\ said' = said + 1
    /\ LET under == IF screen_state = "RL_DISPLAYED" THEN None ELSE drawn IN
       IF screen_state = "SUSPENDED"
       THEN /\ suspend_msgs' = Append(suspend_msgs, said')
            /\ UNCHANGED <<shown, screen_state, drawn, clobbered>>
       ELSE /\ shown' = Append(shown, said')
            /\ screen_state' = IF screen_state = "RL_DISPLAYED" THEN "RL_CLEARED"
                               ELSE screen_state
            /\ drawn' = under
            /\ clobbered' = (clobbered \/ under # None)
            /\ UNCHANGED suspend_msgs
    /\ UNCHANGED <<screen_prompt, handler, watched, shells, main, suspended>>

(* set_screen_prompt, by cd, browse and what the hub sends.                *)
SetScreenPrompt ==
    /\ place \in Busy
    /\ screen_prompt' \in Prompt
    /\ UNCHANGED <<screen_state, suspend_msgs, handler, watched, drawn, shells, main, screen_history>>

-----------------------------------------------------------------------------
(* Commands, of the script before the loop and of the lines within it *)

TakeCommand ==
    /\ place = "script" \/ (place = "line" /\ left > 0)
    /\ left' = IF place = "line" THEN left - 1 ELSE left

(* Readline gives the terminal back; messages are kept from now on.        *)
ScreenSuspend ==
    IF screen_state \in {"RL_DISPLAYED", "RL_CLEARED"}
    THEN /\ screen_state' = "SUSPENDED"
         /\ handler' = FALSE /\ watched' = FALSE
         /\ drawn' = None
         /\ suspend_msgs' = <<>>
    ELSE UNCHANGED <<screen_state, handler, watched, drawn, suspend_msgs>>

(* The shell is started, or fork fails.                                    *)
CmdShell ==
    /\ TakeCommand
    /\ ScreenSuspend
    /\ \/ \E s \in Shell :
              /\ shell[s] = "new"
              /\ shell' = [shell EXCEPT ![s] = "running"]
              /\ shell_child' = s
       \/ shell_child' = None /\ UNCHANGED shell
    /\ suspended' = IF screen_state' # screen_state THEN <<shell_child'>> ELSE suspended
    /\ UNCHANGED <<screen_prompt, running, place, typed, said, shown, clobbered>>

CmdExit ==
    /\ TakeCommand
    /\ running' = FALSE
    /\ UNCHANGED <<screen_state, screen_prompt, suspend_msgs, handler, watched, drawn, shells,
                   place, typed, screen_history>>

(* A shell ends; it is waited for when its signal is read.                 *)
ShellExit(s) ==
    /\ shell[s] = "running"
    /\ shell' = [shell EXCEPT ![s] = "ended"]
    /\ UNCHANGED <<screen_state, screen_prompt, suspend_msgs, handler, watched, drawn,
                   shell_child, main, screen_history>>

-----------------------------------------------------------------------------
(* The loop of main *)

(* screen_prepare, once: the screen is initialised, and readline started.  *)
ScreenPrepare ==
    /\ place = "script"
    /\ handler' = TRUE /\ watched' = TRUE /\ drawn' = screen_prompt
    /\ screen_state' = "RL_DISPLAYED"
    /\ place' = "loop"
    /\ UNCHANGED <<screen_prompt, suspend_msgs, shells, running, typed, left, screen_history>>

(* screen_redisplay_prompt, each time around.                              *)
ScreenRedisplayPrompt ==
    /\ place = "loop" /\ running
    /\ drawn' = screen_prompt
    /\ screen_state' = "RL_DISPLAYED"
    /\ place' = "select"
    /\ UNCHANGED <<screen_prompt, suspend_msgs, handler, watched, shells, running, typed, left,
                   screen_history>>

(* select returns, with input if it is watched and there.                  *)
Select ==
    /\ place = "select"
    /\ place' = "signals"
    /\ typed' \in {FALSE, watched}
    /\ UNCHANGED <<screen_state, screen_prompt, suspend_msgs, handler, watched, drawn, shells,
                   running, left, screen_history>>

(* SIGINT, screen_erase_and_new_line: readline starts again on a new line. *)
ReceiveInterrupt ==
    /\ place = "signals"
    /\ IF screen_state = "RL_DISPLAYED"
       THEN handler' = TRUE /\ drawn' = screen_prompt
       ELSE UNCHANGED <<handler, drawn>>
    /\ UNCHANGED <<screen_state, screen_prompt, suspend_msgs, watched, shells, main, screen_history>>

(* What was kept is printed.                                               *)
ScreenWakeup ==
    IF screen_state = "SUSPENDED"
    THEN /\ shown' = shown \o suspend_msgs
         /\ suspend_msgs' = <<>>
         /\ screen_state' = "NO_HANDLER"
    ELSE UNCHANGED <<shown, suspend_msgs, screen_state>>

(* SIGCHLD: the last shell that was started wakes the screen up.           *)
ReapShell(s) ==
    /\ place = "signals" /\ shell[s] = "ended"
    /\ shell' = [shell EXCEPT ![s] = "reaped"]
    /\ IF s = shell_child
       THEN ScreenWakeup /\ shell_child' = None
       ELSE UNCHANGED <<shown, suspend_msgs, screen_state, shell_child>>
    /\ UNCHANGED <<screen_prompt, handler, watched, drawn, main, said, clobbered, suspended>>

(* The signals are read; SIGTERM, or the end of a worker, stops main.      *)
SignalsRead ==
    /\ place = "signals"
    /\ running' \in {running, FALSE}
    /\ place' = CASE ~running' -> "loop" [] typed -> "stdin" [] OTHER -> "others"
    /\ UNCHANGED <<screen_state, screen_prompt, suspend_msgs, handler, watched, drawn, shells,
                   typed, left, screen_history>>

(* screen_read_input, and readline calls user_input if the line is         *)
(* complete; it has moved to a new line.  The end of the file is an exit.  *)
UserInput ==
    /\ place = "stdin"
    /\ \/ place' = "others" /\ UNCHANGED <<screen_state, drawn, left, running>>
       \/ /\ handler
          /\ screen_state' = "RL_CLEARED"
          /\ drawn' = None
          /\ place' = "line"
          /\ \/ left' \in 0..MaxCommands /\ UNCHANGED running
             \/ left' = 0 /\ running' = FALSE
    /\ UNCHANGED <<screen_prompt, suspend_msgs, handler, watched, shells, typed, screen_history>>

(* The rest of user_input; readline draws the prompt if it is still there. *)
UserInputReturns ==
    /\ place = "line" /\ left = 0
    /\ place' = IF running THEN "others" ELSE "loop"
    /\ handler' = (handler /\ running) /\ watched' = (watched /\ running)
    /\ screen_state' = CASE ~running -> "NO_HANDLER"
                         [] screen_state = "SUSPENDED" -> "SUSPENDED"
                         [] OTHER -> "RL_DISPLAYED"
    /\ drawn' = IF handler' THEN screen_prompt ELSE drawn
    /\ UNCHANGED <<screen_prompt, suspend_msgs, shells, running, typed, left, screen_history>>

(* The other handlers have run.                                            *)
NextIteration ==
    /\ place = "others"
    /\ place' = "loop"
    /\ UNCHANGED <<screen_state, screen_prompt, suspend_msgs, handler, watched, drawn, shells,
                   running, typed, left, screen_history>>

(* screen_finish, when main ends.                                          *)
ScreenFinish ==
    /\ place = "loop" /\ ~running
    /\ place' = "over"
    /\ screen_state' = "UNINITIALIZED"
    /\ IF screen_state = "SUSPENDED"
       THEN /\ shown' = shown \o suspend_msgs
            /\ UNCHANGED <<handler, watched, drawn>>
       ELSE /\ handler' = (handler /\ screen_state = "NO_HANDLER")
            /\ watched' = (watched /\ screen_state = "NO_HANDLER")
            /\ drawn' = IF screen_state = "RL_DISPLAYED" THEN None ELSE drawn
            /\ UNCHANGED shown
    /\ suspend_msgs' = <<>>
    /\ UNCHANGED <<screen_prompt, shells, running, typed, left, said, clobbered, suspended>>

ScreenNext ==
    \/ Flag_putf \/ SetScreenPrompt
    \/ CmdShell \/ CmdExit \/ \E s \in Shell : ShellExit(s) \/ ReapShell(s)
    \/ ScreenPrepare \/ ScreenRedisplayPrompt \/ Select
    \/ ReceiveInterrupt \/ SignalsRead
    \/ UserInput \/ UserInputReturns \/ NextIteration \/ ScreenFinish

ScreenSpec == ScreenInit /\ [][ScreenNext]_screen_vars

-----------------------------------------------------------------------------
(* Properties *)

ScreenTypeOK ==
    /\ screen_state \in ScreenState
    /\ screen_prompt \in Prompt /\ drawn \in Prompt \cup {None}
    /\ suspend_msgs \in Seq(1..MaxMsgs) /\ shown \in Seq(1..MaxMsgs)
    /\ handler \in BOOLEAN /\ watched \in BOOLEAN /\ running \in BOOLEAN
    /\ shell \in [Shell -> {"new", "running", "ended", "reaped"}]
    /\ shell_child \in Shell \cup {None}
    /\ suspended \in {<<>>} \cup {<<s>> : s \in Shell \cup {None}}
    /\ place \in Busy \cup {"loop", "select", "stdin", "over"}

(* Whenever main waits, the prompt stands there as it was last set and     *)
(* input is taken; at the end readline has given the terminal back; no     *)
(* message is printed over the prompt and none is left out.  All of it     *)
(* only as long as the user has not run a shell.                           *)
ScreenKept ==
    suspended = <<>> =>
        /\ place = "select" => handler /\ watched /\ drawn = screen_prompt
        /\ place = "over" => ~handler /\ ~watched /\ drawn = None
        /\ ~clobbered
        /\ shown = [i \in 1..said |-> i]

(* Messages come in the order in which they were said, and none twice,     *)
(* shells or not.                                                          *)
MessagesInOrder ==
    \A i, j \in 1..Len(shown) : i < j => shown[i] < shown[j]

ScreenSound == ScreenTypeOK /\ ScreenKept /\ MessagesInOrder

(* "Wake up screen after suspension." (screen.c:354): when main waits and  *)
(* the shell for which the screen was suspended has been waited for, the   *)
(* user can type again.                                                    *)
InputIsTaken ==
    \A s \in Shell :
        place = "select" /\ suspended = <<s>> /\ shell[s] = "reaped" => watched /\ handler
=============================================================================
