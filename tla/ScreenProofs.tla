---------------------------- MODULE ScreenProofs ----------------------------
(***************************************************************************)
(* Theorems about Screen, for any prompts and shells, and any numbers of   *)
(* messages and commands.                                                  *)
(***************************************************************************)
EXTENDS Screen, SequenceTheorems, TLAPS

-----------------------------------------------------------------------------
(* The inductive invariant *)

InOrder(s) == \A i, j \in 1..Len(s) : i < j => s[i] < s[j]
Upto(s, n) == \A i \in 1..Len(s) : s[i] <= n
Before(s, t) == \A i \in 1..Len(s), j \in 1..Len(t) : s[i] < t[j]

(* Messages have been printed in their order; those that are kept follow.  *)
(* What is left in suspend_msgs while the screen is not suspended is lost. *)
Ordered ==
    /\ InOrder(shown) /\ Upto(shown, said)
    /\ screen_state = "SUSPENDED" =>
           InOrder(suspend_msgs) /\ Upto(suspend_msgs, said) /\ Before(shown, suspend_msgs)

(* Readline, the prompt and the watched input for each state of the        *)
(* screen, and the states that main can be in at each place.               *)
Matched ==
    /\ screen_state \in {"UNINITIALIZED", "NO_HANDLER"} =>
           ~handler /\ ~watched /\ drawn = None
    /\ screen_state = "RL_CLEARED" => handler /\ watched /\ drawn = None
    /\ screen_state = "RL_DISPLAYED" => handler /\ watched
    /\ screen_state # "SUSPENDED"
    /\ screen_state = "UNINITIALIZED" <=> place \in {"script", "over"}
    /\ screen_state = "NO_HANDLER" => place = "loop" /\ ~running
    /\ place = "line" => screen_state = "RL_CLEARED"
    /\ place = "select" => screen_state = "RL_DISPLAYED" /\ drawn = screen_prompt

(* Until the screen was suspended.                                         *)
Unsuspended ==
    suspended = <<>> => Matched /\ ~clobbered /\ shown = [i \in 1..said |-> i]

Inv == ScreenTypeOK /\ said \in 0..MaxMsgs /\ Ordered /\ Unsuspended

-----------------------------------------------------------------------------
(* Messages *)

LEMMA AppendedInOrder ==
    ASSUME NEW s \in Seq(1..MaxMsgs), NEW n \in 0..MaxMsgs, n + 1 \in 1..MaxMsgs,
           InOrder(s), Upto(s, n)
    PROVE  /\ Append(s, n + 1) \in Seq(1..MaxMsgs)
           /\ InOrder(Append(s, n + 1)) /\ Upto(Append(s, n + 1), n + 1)
  <1> DEFINE t == Append(s, n + 1)
  <1>1. /\ t \in Seq(1..MaxMsgs) /\ Len(t) = Len(s) + 1 /\ Len(s) \in Nat
        /\ \A i \in 1..Len(s) : t[i] = s[i]
        /\ t[Len(s) + 1] = n + 1
    BY AppendProperties, LenProperties
  <1> HIDE DEF t
  <1>2. \A i \in 1..Len(t) : i \in 1..Len(s) \/ i = Len(s) + 1
    BY <1>1
  <1>3. \A i \in 1..Len(s) : s[i] \in Nat
    BY ScreenAssumption, ElementOfSeq
  <1>4. InOrder(t)
    <2> SUFFICES ASSUME NEW i \in 1..Len(t), NEW j \in 1..Len(t), i < j PROVE t[i] < t[j]
      BY DEF InOrder
    <2>1. CASE j \in 1..Len(s)
      <3>1. i \in 1..Len(s)
        BY <1>1, <2>1
      <3> QED BY <1>1, <2>1, <3>1 DEF InOrder
    <2>2. CASE j = Len(s) + 1
      <3>1. i \in 1..Len(s)
        BY <1>1, <2>2
      <3>2. t[i] = s[i] /\ s[i] <= n /\ s[i] \in Nat
        BY <1>1, <1>3, <3>1 DEF Upto
      <3> QED BY <1>1, <2>2, <3>2
    <2> QED BY <1>2, <2>1, <2>2
  <1>5. Upto(t, n + 1)
    <2> SUFFICES ASSUME NEW i \in 1..Len(t) PROVE t[i] <= n + 1
      BY DEF Upto
    <2>1. CASE i \in 1..Len(s)
      <3>1. t[i] = s[i] /\ s[i] <= n /\ s[i] \in Nat
        BY <1>1, <1>3, <2>1 DEF Upto
      <3> QED BY <3>1
    <2> QED BY <1>1, <1>2, <2>1
  <1> QED BY <1>1, <1>4, <1>5 DEF t

LEMMA JoinedInOrder ==
    ASSUME NEW s \in Seq(1..MaxMsgs), NEW t \in Seq(1..MaxMsgs), NEW n,
           InOrder(s), InOrder(t), Upto(s, n), Upto(t, n), Before(s, t)
    PROVE  s \o t \in Seq(1..MaxMsgs) /\ InOrder(s \o t) /\ Upto(s \o t, n)
  <1> DEFINE u == s \o t
  <1>1. /\ u \in Seq(1..MaxMsgs) /\ Len(u) = Len(s) + Len(t)
        /\ Len(s) \in Nat /\ Len(t) \in Nat
        /\ \A i \in 1..Len(u) : u[i] = IF i <= Len(s) THEN s[i] ELSE t[i - Len(s)]
    BY ConcatProperties, LenProperties
  <1> HIDE DEF u
  <1>2. ASSUME NEW i \in 1..Len(u)
        PROVE  \/ i \in 1..Len(s) /\ u[i] = s[i]
               \/ i > Len(s) /\ i - Len(s) \in 1..Len(t) /\ u[i] = t[i - Len(s)]
    <2>1. CASE i <= Len(s)
      BY <1>1, <2>1
    <2>2. CASE ~(i <= Len(s))
      <3>1. i > Len(s) /\ i - Len(s) \in 1..Len(t)
        BY <1>1, <2>2
      <3> QED BY <1>1, <2>2, <3>1
    <2> QED BY <2>1, <2>2
  <1>3. InOrder(u)
    <2> SUFFICES ASSUME NEW i \in 1..Len(u), NEW j \in 1..Len(u), i < j PROVE u[i] < u[j]
      BY DEF InOrder
    <2>1. CASE j \in 1..Len(s) /\ u[j] = s[j]
      <3>1. i \in 1..Len(s) /\ u[i] = s[i]
        BY <1>1, <2>1
      <3> QED BY <2>1, <3>1 DEF InOrder
    <2>2. CASE /\ i \in 1..Len(s) /\ u[i] = s[i]
               /\ j - Len(s) \in 1..Len(t) /\ u[j] = t[j - Len(s)]
      BY <2>2 DEF Before
    <2>3. CASE /\ i - Len(s) \in 1..Len(t) /\ u[i] = t[i - Len(s)]
               /\ j - Len(s) \in 1..Len(t) /\ u[j] = t[j - Len(s)]
      <3>1. i - Len(s) < j - Len(s)
        BY <1>1
      <3> QED BY <2>3, <3>1 DEF InOrder
    <2> QED BY <1>2, <2>1, <2>2, <2>3
  <1>4. Upto(u, n)
    <2> SUFFICES ASSUME NEW i \in 1..Len(u) PROVE u[i] <= n
      BY DEF Upto
    <2> QED BY <1>2 DEF Upto
  <1> QED BY <1>1, <1>3, <1>4 DEF u

LEMMA CountedOn ==
    ASSUME NEW n \in Nat
    PROVE  Append([i \in 1..n |-> i], n + 1) = [i \in 1..(n + 1) |-> i]
  <1> DEFINE s == [i \in 1..n |-> i]
             t == Append(s, n + 1)
             u == [i \in 1..(n + 1) |-> i]
  <1>1. s \in Seq(Nat) /\ Len(s) = n
    BY DEF s
  <1>2. u \in Seq(Nat) /\ Len(u) = n + 1
    BY DEF u
  <1>3. /\ t \in Seq(Nat) /\ Len(t) = n + 1 /\ t[n + 1] = n + 1
        /\ \A i \in 1..n : t[i] = s[i]
    BY <1>1, AppendProperties
  <1>4. ASSUME NEW i \in 1..(n + 1) PROVE t[i] = u[i]
    <2>1. CASE i \in 1..n
      BY <1>3, <2>1
    <2>2. CASE i = n + 1
      BY <1>3, <2>2
    <2> QED BY <2>1, <2>2
  <1> HIDE DEF t, u
  <1>5. t = u
    BY <1>2, <1>3, <1>4, SeqEqual
  <1> QED BY <1>5 DEF t, u, s

(* A step that says nothing and does not suspend the screen.               *)
LEMMA QuietOrdered ==
    ASSUME Ordered, UNCHANGED <<said, shown, suspend_msgs>>,
           screen_state' = "SUSPENDED" => screen_state = "SUSPENDED"
    PROVE  Ordered'
  BY DEF Ordered, InOrder, Upto, Before

LEMMA SaidBefore ==
    ASSUME ScreenTypeOK, Ordered, NEW i \in 1..Len(shown)
    PROVE  shown[i] \in Nat /\ shown[i] <= said
  <1>1. shown \in Seq(1..MaxMsgs)
    BY DEF ScreenTypeOK
  <1>2. shown[i] \in 1..MaxMsgs
    BY <1>1, ElementOfSeq
  <1>3. shown[i] <= said
    BY DEF Ordered, Upto
  <1> QED BY <1>2, <1>3, ScreenAssumption

-----------------------------------------------------------------------------
(* The steps *)

LEMMA InitInv == ScreenInit => Inv
  <1> SUFFICES ASSUME ScreenInit PROVE Inv
    OBVIOUS
  <1>1. ScreenTypeOK /\ said \in 0..MaxMsgs
    <2>1. shown \in Seq(1..MaxMsgs) /\ suspend_msgs \in Seq(1..MaxMsgs)
      BY DEF ScreenInit
    <2>2. shell \in [Shell -> {"new", "running", "ended", "reaped"}]
      BY DEF ScreenInit
    <2>3. suspended \in {<<>>} \cup {<<s>> : s \in Shell \cup {None}}
      BY DEF ScreenInit
    <2>4. said \in 0..MaxMsgs
      BY ScreenAssumption DEF ScreenInit
    <2> QED BY <2>1, <2>2, <2>3, <2>4 DEF ScreenInit, ScreenTypeOK, ScreenState, Busy
  <1>2. Ordered
    BY DEF ScreenInit, Ordered, InOrder, Upto
  <1>3. shown = [i \in 1..said |-> i]
    BY DEF ScreenInit
  <1>4. Unsuspended
    BY <1>3 DEF ScreenInit, Unsuspended, Matched
  <1> QED BY <1>1, <1>2, <1>4 DEF Inv

(* A message is kept or printed.                                           *)
LEMMA Flag_putfInv == Inv /\ Flag_putf => Inv'
  <1> SUFFICES ASSUME Inv, Flag_putf PROVE Inv'
    OBVIOUS
  <1>1. /\ ScreenTypeOK /\ said \in 0..MaxMsgs /\ Ordered /\ Unsuspended
        /\ said' = said + 1 /\ said' \in 1..MaxMsgs /\ place \in Busy
        /\ UNCHANGED <<screen_prompt, handler, watched, shells, main, suspended>>
    BY ScreenAssumption DEF Inv, Flag_putf
  <1>2. CASE screen_state = "SUSPENDED"
    <2>1. suspend_msgs' = Append(suspend_msgs, said + 1)
          /\ UNCHANGED <<shown, screen_state, drawn, clobbered>>
      BY <1>1, <1>2 DEF Flag_putf
    <2>2. /\ suspend_msgs' \in Seq(1..MaxMsgs)
          /\ InOrder(suspend_msgs') /\ Upto(suspend_msgs', said + 1)
      BY <1>1, <1>2, <2>1, AppendedInOrder DEF ScreenTypeOK, Ordered
    <2>3. ScreenTypeOK'
      BY <1>1, <2>1, <2>2 DEF ScreenTypeOK, shells, main
    <2>4. InOrder(shown') /\ Upto(shown', said')
      <3>1. \A i \in 1..Len(shown) : shown[i] \in Nat /\ shown[i] <= said
        BY <1>1, SaidBefore
      <3>2. Upto(shown', said')
        BY <1>1, <2>1, <3>1 DEF Upto
      <3> QED BY <1>1, <2>1, <3>2 DEF Ordered
    <2>5. Before(shown', suspend_msgs')
      <3> SUFFICES ASSUME NEW i \in 1..Len(shown), NEW j \in 1..Len(suspend_msgs')
                   PROVE  shown[i] < suspend_msgs'[j]
        BY <2>1 DEF Before
      <3>1. /\ Len(suspend_msgs') = Len(suspend_msgs) + 1 /\ Len(suspend_msgs) \in Nat
            /\ \A k \in 1..Len(suspend_msgs) : suspend_msgs'[k] = suspend_msgs[k]
            /\ suspend_msgs'[Len(suspend_msgs) + 1] = said + 1
        BY <1>1, <2>1, AppendProperties, LenProperties DEF ScreenTypeOK
      <3>2. shown[i] \in Nat /\ shown[i] <= said
        BY <1>1, SaidBefore
      <3>3. CASE j \in 1..Len(suspend_msgs)
        BY <1>1, <1>2, <3>1, <3>3 DEF Ordered, Before
      <3>4. CASE j = Len(suspend_msgs) + 1
        BY <1>1, <3>1, <3>2, <3>4
      <3>5. j \in 1..Len(suspend_msgs) \/ j = Len(suspend_msgs) + 1
        BY <3>1
      <3> QED BY <3>3, <3>4, <3>5
    <2>6. Ordered'
      BY <1>1, <2>2, <2>4, <2>5 DEF Ordered
    <2>7. Unsuspended'
      BY <1>1, <1>2 DEF Unsuspended, Matched
    <2> QED BY <1>1, <2>3, <2>6, <2>7 DEF Inv
  <1>3. CASE screen_state # "SUSPENDED"
    <2>1. /\ shown' = Append(shown, said + 1)
          /\ screen_state' = IF screen_state = "RL_DISPLAYED" THEN "RL_CLEARED" ELSE screen_state
          /\ drawn' = IF screen_state = "RL_DISPLAYED" THEN None ELSE drawn
          /\ clobbered' = (clobbered \/ drawn' # None)
          /\ UNCHANGED suspend_msgs
      BY <1>1, <1>3 DEF Flag_putf
    <2>2. shown' \in Seq(1..MaxMsgs) /\ InOrder(shown') /\ Upto(shown', said + 1)
      BY <1>1, <2>1, AppendedInOrder DEF ScreenTypeOK, Ordered
    <2>3. ScreenTypeOK'
      BY <1>1, <2>1, <2>2 DEF ScreenTypeOK, ScreenState, shells, main
    <2>4. Ordered'
      BY <1>1, <1>3, <2>1, <2>2 DEF Ordered
    <2>5. ASSUME suspended = <<>>
          PROVE  Matched' /\ ~clobbered' /\ shown' = [i \in 1..said' |-> i]
      <3>1. Matched /\ ~clobbered /\ shown = [i \in 1..said |-> i]
        BY <1>1, <2>5 DEF Unsuspended
      <3>2. shown' = [i \in 1..(said + 1) |-> i]
        BY <1>1, <2>1, <3>1, CountedOn
      <3>3. drawn' = None
        BY <1>1, <1>3, <2>1, <3>1 DEF Matched, Busy, ScreenTypeOK, ScreenState
      <3>4. Matched'
        BY <1>1, <2>1, <3>1, <3>3 DEF Matched, Busy, main
      <3> QED BY <1>1, <2>1, <3>1, <3>2, <3>3, <3>4
    <2>6. Unsuspended'
      BY <1>1, <2>5 DEF Unsuspended
    <2> QED BY <1>1, <2>3, <2>4, <2>6 DEF Inv
  <1> QED BY <1>2, <1>3

LEMMA CmdShellInv == Inv /\ CmdShell => Inv'
  <1> SUFFICES ASSUME Inv, CmdShell PROVE Inv'
    OBVIOUS
  <1>1. /\ ScreenTypeOK /\ said \in 0..MaxMsgs /\ Ordered /\ Unsuspended
        /\ place \in {"script", "line"}
        /\ UNCHANGED <<screen_prompt, running, place, typed, said, shown, clobbered>>
    BY DEF Inv, CmdShell, TakeCommand
  <1>2. shell_child' \in Shell \cup {None}
        /\ shell' \in [Shell -> {"new", "running", "ended", "reaped"}]
    BY <1>1 DEF CmdShell, ScreenTypeOK
  <1>3. suspended' = IF screen_state' # screen_state THEN <<shell_child'>> ELSE suspended
    BY DEF CmdShell
  <1>4. CASE screen_state \in {"RL_DISPLAYED", "RL_CLEARED"}
    <2>1. /\ screen_state' = "SUSPENDED" /\ ~handler' /\ ~watched' /\ drawn' = None
          /\ suspend_msgs' = <<>>
      BY <1>4 DEF CmdShell, ScreenSuspend
    <2>2. suspended' = <<shell_child'>>
      BY <1>3, <1>4, <2>1
    <2>3. handler' \in BOOLEAN /\ watched' \in BOOLEAN
      BY <1>4 DEF CmdShell, ScreenSuspend
    <2>4. ScreenTypeOK'
      BY <1>1, <1>2, <2>1, <2>2, <2>3 DEF ScreenTypeOK, ScreenState
    <2>5. Ordered'
      BY <1>1, <2>1 DEF Ordered, InOrder, Upto, Before
    <2>6. Unsuspended'
      BY <2>2 DEF Unsuspended
    <2> QED BY <1>1, <2>4, <2>5, <2>6 DEF Inv
  <1>5. CASE ~(screen_state \in {"RL_DISPLAYED", "RL_CLEARED"})
    <2>1. UNCHANGED <<screen_state, handler, watched, drawn, suspend_msgs>>
      BY <1>5 DEF CmdShell, ScreenSuspend
    <2>2. suspended' = suspended
      BY <1>3, <2>1
    <2>3. ScreenTypeOK'
      BY <1>1, <1>2, <2>1, <2>2 DEF ScreenTypeOK
    <2>4. Ordered'
      BY <1>1, <2>1, QuietOrdered
    <2>5. Unsuspended'
      BY <1>1, <2>1, <2>2 DEF Unsuspended, Matched
    <2> QED BY <1>1, <2>3, <2>4, <2>5 DEF Inv
  <1> QED BY <1>4, <1>5

(* The last shell that was started wakes the screen up.                    *)
LEMMA ReapShellInv == ASSUME NEW s \in Shell, Inv, ReapShell(s) PROVE Inv'
  <1>1. /\ ScreenTypeOK /\ said \in 0..MaxMsgs /\ Ordered /\ Unsuspended
        /\ place = "signals"
        /\ UNCHANGED <<screen_prompt, handler, watched, drawn, main, said, clobbered, suspended>>
    BY DEF Inv, ReapShell
  <1>2. /\ shell' \in [Shell -> {"new", "running", "ended", "reaped"}]
        /\ shell_child' \in Shell \cup {None}
    BY <1>1 DEF ReapShell, ScreenTypeOK
  <1>3. \/ /\ screen_state = "SUSPENDED" /\ screen_state' = "NO_HANDLER"
           /\ shown' = shown \o suspend_msgs /\ suspend_msgs' = <<>>
        \/ UNCHANGED <<shown, suspend_msgs, screen_state>>
    BY DEF ReapShell, ScreenWakeup
  <1>4. CASE /\ screen_state = "SUSPENDED" /\ screen_state' = "NO_HANDLER"
             /\ shown' = shown \o suspend_msgs /\ suspend_msgs' = <<>>
    <2>1. shown' \in Seq(1..MaxMsgs) /\ InOrder(shown') /\ Upto(shown', said)
      BY <1>1, <1>4, JoinedInOrder DEF ScreenTypeOK, Ordered
    <2>2. ScreenTypeOK'
      BY <1>1, <1>2, <1>4, <2>1 DEF ScreenTypeOK, ScreenState, main
    <2>3. Ordered'
      BY <1>1, <1>4, <2>1 DEF Ordered
    <2>4. Unsuspended'
      BY <1>1, <1>4 DEF Unsuspended, Matched
    <2> QED BY <1>1, <2>2, <2>3, <2>4 DEF Inv
  <1>5. CASE UNCHANGED <<shown, suspend_msgs, screen_state>>
    <2>1. ScreenTypeOK'
      BY <1>1, <1>2, <1>5 DEF ScreenTypeOK, main
    <2>2. Ordered'
      BY <1>1, <1>5, QuietOrdered
    <2>3. Unsuspended'
      BY <1>1, <1>5 DEF Unsuspended, Matched, main
    <2> QED BY <1>1, <2>1, <2>2, <2>3 DEF Inv
  <1> QED BY <1>3, <1>4, <1>5

(* What was kept is printed at the end too.                                *)
LEMMA ScreenFinishInv == Inv /\ ScreenFinish => Inv'
  <1> SUFFICES ASSUME Inv, ScreenFinish PROVE Inv'
    OBVIOUS
  <1>1. /\ ScreenTypeOK /\ said \in 0..MaxMsgs /\ Ordered /\ Unsuspended
        /\ place = "loop" /\ place' = "over" /\ screen_state' = "UNINITIALIZED"
        /\ suspend_msgs' = <<>>
        /\ UNCHANGED <<screen_prompt, shells, running, typed, left, said, clobbered, suspended>>
    BY DEF Inv, ScreenFinish
  <1>2. CASE screen_state = "SUSPENDED"
    <2>1. shown' = shown \o suspend_msgs /\ UNCHANGED <<handler, watched, drawn>>
      BY <1>2 DEF ScreenFinish
    <2>2. shown' \in Seq(1..MaxMsgs) /\ InOrder(shown') /\ Upto(shown', said)
      BY <1>1, <1>2, <2>1, JoinedInOrder DEF ScreenTypeOK, Ordered
    <2>3. ScreenTypeOK'
      BY <1>1, <2>1, <2>2 DEF ScreenTypeOK, ScreenState, shells
    <2>4. Ordered'
      BY <1>1, <2>2 DEF Ordered
    <2>5. Unsuspended'
      BY <1>1, <1>2 DEF Unsuspended, Matched
    <2> QED BY <1>1, <2>3, <2>4, <2>5 DEF Inv
  <1>3. CASE screen_state # "SUSPENDED"
    <2>1. /\ handler' = (handler /\ screen_state = "NO_HANDLER")
          /\ watched' = (watched /\ screen_state = "NO_HANDLER")
          /\ drawn' = IF screen_state = "RL_DISPLAYED" THEN None ELSE drawn
          /\ UNCHANGED shown
      BY <1>3 DEF ScreenFinish
    <2>2. ScreenTypeOK'
      <3>1. handler' \in BOOLEAN /\ watched' \in BOOLEAN
        BY <1>3 DEF ScreenFinish
      <3>2. drawn' \in Prompt \cup {None}
        BY <1>1, <2>1 DEF ScreenTypeOK
      <3> QED BY <1>1, <2>1, <3>1, <3>2 DEF ScreenTypeOK, ScreenState, shells
    <2>3. Ordered'
      BY <1>1, <2>1 DEF Ordered
    <2>4. ASSUME suspended = <<>>
          PROVE  Matched' /\ ~clobbered' /\ shown' = [i \in 1..said' |-> i]
      <3>1. Matched /\ ~clobbered /\ shown = [i \in 1..said |-> i]
        BY <1>1, <2>4 DEF Unsuspended
      <3>2. ~handler' /\ ~watched' /\ drawn' = None
        BY <1>1, <1>3, <2>1, <3>1 DEF Matched, ScreenTypeOK, ScreenState
      <3>3. Matched'
        BY <1>1, <3>2 DEF Matched
      <3> QED BY <1>1, <2>1, <3>1, <3>3
    <2>5. Unsuspended'
      BY <1>1, <2>4 DEF Unsuspended
    <2> QED BY <1>1, <2>2, <2>3, <2>5 DEF Inv
  <1> QED BY <1>2, <1>3

(* The steps that say and show nothing, and do not suspend the screen.     *)
Quiet ==
    \/ SetScreenPrompt \/ CmdExit \/ \E s \in Shell : ShellExit(s)
    \/ ScreenPrepare \/ ScreenRedisplayPrompt \/ Select \/ ReceiveInterrupt \/ SignalsRead
    \/ UserInput \/ UserInputReturns \/ NextIteration

LEMMA QuietTypes ==
    ASSUME ScreenTypeOK, Quiet
    PROVE  ScreenTypeOK'
  <1>1. CASE SetScreenPrompt
    BY <1>1 DEF SetScreenPrompt, ScreenTypeOK, shells, main, screen_history
  <1>2. CASE CmdExit
    BY <1>2 DEF CmdExit, TakeCommand, ScreenTypeOK, shells, screen_history
  <1>3. CASE \E s \in Shell : ShellExit(s)
    BY <1>3 DEF ShellExit, ScreenTypeOK, main, screen_history
  <1>4. CASE ScreenPrepare
    BY <1>4 DEF ScreenPrepare, ScreenTypeOK, ScreenState, shells, screen_history
  <1>5. CASE ScreenRedisplayPrompt
    BY <1>5 DEF ScreenRedisplayPrompt, ScreenTypeOK, ScreenState, shells, screen_history
  <1>6. CASE Select
    BY <1>6 DEF Select, ScreenTypeOK, Busy, shells, screen_history
  <1>7. CASE ReceiveInterrupt
    BY <1>7 DEF ReceiveInterrupt, ScreenTypeOK, shells, main, screen_history
  <1>8. CASE SignalsRead
    BY <1>8 DEF SignalsRead, ScreenTypeOK, Busy, shells, screen_history
  <1>9. CASE UserInput
    BY <1>9 DEF UserInput, ScreenTypeOK, ScreenState, Busy, shells, screen_history
  <1>10. CASE UserInputReturns
    <2>1. handler' \in BOOLEAN /\ watched' \in BOOLEAN
      BY <1>10 DEF UserInputReturns
    <2>2. drawn' \in Prompt \cup {None} /\ place' \in {"others", "loop"}
          /\ screen_state' \in {"NO_HANDLER", "SUSPENDED", "RL_DISPLAYED"}
      BY <1>10 DEF UserInputReturns, ScreenTypeOK
    <2> QED BY <1>10, <2>1, <2>2
            DEF UserInputReturns, ScreenTypeOK, ScreenState, Busy, shells, screen_history
  <1>11. CASE NextIteration
    BY <1>11 DEF NextIteration, ScreenTypeOK, shells, screen_history
  <1> QED BY <1>1, <1>2, <1>3, <1>4, <1>5, <1>6, <1>7, <1>8, <1>9, <1>10, <1>11 DEF Quiet

LEMMA QuietMatched ==
    ASSUME ScreenTypeOK, Matched, Quiet
    PROVE  Matched'
  <1>1. CASE SetScreenPrompt
    BY <1>1 DEF SetScreenPrompt, Matched, Busy, shells, main
  <1>2. CASE CmdExit
    BY <1>2 DEF CmdExit, TakeCommand, Matched
  <1>3. CASE \E s \in Shell : ShellExit(s)
    BY <1>3 DEF ShellExit, Matched, main
  <1>4. CASE ScreenPrepare
    BY <1>4 DEF ScreenPrepare, Matched
  <1>5. CASE ScreenRedisplayPrompt
    BY <1>5 DEF ScreenRedisplayPrompt, Matched, ScreenTypeOK, ScreenState
  <1>6. CASE Select
    BY <1>6 DEF Select, Matched
  <1>7. CASE ReceiveInterrupt
    BY <1>7 DEF ReceiveInterrupt, Matched, main
  <1>8. CASE SignalsRead
    BY <1>8 DEF SignalsRead, Matched
  <1>9. CASE UserInput
    BY <1>9 DEF UserInput, Matched, ScreenTypeOK, ScreenState
  <1>10. CASE UserInputReturns
    <2>1. screen_state = "RL_CLEARED" /\ handler /\ watched /\ drawn = None /\ place = "line"
      BY <1>10 DEF UserInputReturns, Matched
    <2>2. CASE running
      BY <1>10, <2>1, <2>2 DEF UserInputReturns, Matched
    <2>3. CASE ~running
      BY <1>10, <2>1, <2>3 DEF UserInputReturns, Matched
    <2> QED BY <2>2, <2>3
  <1>11. CASE NextIteration
    BY <1>11 DEF NextIteration, Matched
  <1> QED BY <1>1, <1>2, <1>3, <1>4, <1>5, <1>6, <1>7, <1>8, <1>9, <1>10, <1>11 DEF Quiet

LEMMA QuietInv == Inv /\ Quiet => Inv'
  <1> SUFFICES ASSUME Inv, Quiet PROVE Inv'
    OBVIOUS
  <1>1. /\ UNCHANGED <<said, shown, suspend_msgs, clobbered, suspended>>
        /\ screen_state' = "SUSPENDED" => screen_state = "SUSPENDED"
    BY DEF Quiet, SetScreenPrompt, CmdExit, ShellExit, ScreenPrepare, ScreenRedisplayPrompt,
           Select, ReceiveInterrupt, SignalsRead, UserInput, UserInputReturns, NextIteration,
           screen_history
  <1>2. ScreenTypeOK'
    BY QuietTypes DEF Inv
  <1>3. Ordered'
    BY <1>1, QuietOrdered DEF Inv
  <1>4. Unsuspended'
    BY <1>1, QuietMatched DEF Inv, Unsuspended
  <1> QED BY <1>1, <1>2, <1>3, <1>4 DEF Inv

LEMMA NextInv == Inv /\ [ScreenNext]_screen_vars => Inv'
  <1> SUFFICES ASSUME Inv, [ScreenNext]_screen_vars PROVE Inv'
    OBVIOUS
  <1>1. CASE Quiet
    BY <1>1, QuietInv
  <1>2. CASE \E s \in Shell : ReapShell(s)
    BY <1>2, ReapShellInv
  <1>3. CASE UNCHANGED screen_vars
    <2>1. ScreenTypeOK' /\ said' \in 0..MaxMsgs
      BY <1>3 DEF screen_vars, Inv, ScreenTypeOK
    <2>2. Ordered'
      BY <1>3, QuietOrdered DEF screen_vars, Inv
    <2>3. Unsuspended'
      BY <1>3 DEF screen_vars, Inv, Unsuspended, Matched
    <2> QED BY <2>1, <2>2, <2>3 DEF Inv
  <1> QED BY <1>1, <1>2, <1>3, Flag_putfInv, CmdShellInv, ScreenFinishInv DEF ScreenNext, Quiet

-----------------------------------------------------------------------------
(* The theorems *)

(* The invariant holds of any shells, prompts and messages.                *)
THEOREM InvHolds == ScreenSpec => []Inv
  <1> QED BY InitInv, NextInv, PTL DEF ScreenSpec

(* Whatever is said, typed and signalled, in whatever order: until a shell *)
(* is run, main waits behind the prompt that was last set, with readline   *)
(* installed and its input watched, and has given the terminal back at the *)
(* end; and with shells too, no message is shown twice or before an        *)
(* earlier one (screen.c, main.c:1291-1350).                               *)
THEOREM ScreenIsSound == ScreenSpec => []ScreenSound
  <1>1. Inv => ScreenSound
    <2> SUFFICES ASSUME Inv PROVE ScreenSound
      OBVIOUS
    <2>1. MessagesInOrder
      BY DEF Inv, Ordered, InOrder, MessagesInOrder
    <2>2. ScreenKept
      BY DEF Inv, Unsuspended, Matched, ScreenKept
    <2> QED BY <2>1, <2>2 DEF Inv, ScreenSound
  <1> QED BY <1>1, InvHolds, PTL
=============================================================================
