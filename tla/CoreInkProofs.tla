--------------------------- MODULE CoreInkProofs ---------------------------
(***************************************************************************)
(* Proofs about CoreInk.  The invariant adds to the properties what they   *)
(* need to be preserved: what setup() and loop() have in hand at each      *)
(* point, what a loop that saw no message may rely on, and that the flag   *)
(* and the timestamp of onDisconnect follow the link.                      *)
(*                                                                         *)
(* One lemma per action shows that it preserves every part.  The last      *)
(* section shows that the firmware implements Mailbox.                     *)
(***************************************************************************)
EXTENDS CoreInk, TLAPS

USE DEF shared, ages, radio, bounds

\* What setup() and loop() have in hand, where they put it, and when a message has arrived.
DrawInv ==
    /\ pc = "setup" => ~gNeedsRedraw /\ ~heard /\ ~link /\ ~advertising
    /\ gNeedsRedraw \/ gPendingMsg = FREE => heard
    /\ pc = "persist" => toRender = gCurrentMsg
    /\ pc # "setup" => screen = gCurrentMsg

\* NoOversleep, from the moment loop() has seen no message.
SleepInv ==
    /\ pc = "choose" /\ gNeedsRedraw => notified \/ bt = "notify"
    /\ NoOversleep

\* The flag is never older than the link it stands for, nor is the timestamp.
AwayInv ==
    /\ ~gConnected => ~link
    /\ bt # "idle" /\ bt # "notify" => ~link
    /\ ~link => discAge <= away

IInv ==
    /\ TypeOK
    /\ DrawInv /\ PendingShown /\ ResetKeepsScreen
    /\ SleepInv
    /\ AwayInv

\* Right after a reset nothing is in hand and nobody is connected.
LEMMA InitIInv == Init => IInv
  <1> SUFFICES ASSUME Init PROVE IInv
    OBVIOUS
  <1> USE MessagesAssumption DEF Init
  <1>1. ControlTypeOK /\ MessageTypeOK
    BY DEF ControlTypeOK, MessageTypeOK
  <1>2. ClockTypeOK
    BY TimesAssumption DEF ClockTypeOK
  <1>3. DrawInv /\ PendingShown /\ ResetKeepsScreen
    BY DEF DrawInv, PendingShown, ResetKeepsScreen
  <1>4. SleepInv
    BY DEF SleepInv, NoOversleep
  <1>5. AwayInv
    BY DEF AwayInv
  <1> QED
    BY <1>1, <1>2, <1>3, <1>4, <1>5 DEF IInv, TypeOK

\* setup() shows what the flash holds, so screen, gCurrentMsg and nvs agree.
LEMMA SetupStep ==
    ASSUME IInv, Setup
    PROVE  IInv'
  <1> USE DEF IInv, TypeOK, Setup, Show
  <1>1. ControlTypeOK'
    BY DEF ControlTypeOK
  <1>2. MessageTypeOK'
    BY DEF MessageTypeOK
  <1>3. ClockTypeOK'
    BY DEF ClockTypeOK
  <1>4. DrawInv'
    BY DEF DrawInv
  <1>5. PendingShown' /\ ResetKeepsScreen'
    BY DEF DrawInv, PendingShown, ResetKeepsScreen
  <1>6. SleepInv'
    BY DEF SleepInv, NoOversleep
  <1>7. AwayInv'
    BY DEF AwayInv
  <1> QED
    BY <1>1, <1>2, <1>3, <1>4, <1>5, <1>6, <1>7

\* The flag and the link rise together.
LEMMA OnConnectStep ==
    ASSUME IInv, OnConnect
    PROVE  IInv'
  <1> USE DEF IInv, TypeOK, OnConnect
  <1>1. ControlTypeOK'
    BY DEF ControlTypeOK
  <1>2. MessageTypeOK'
    BY DEF MessageTypeOK
  <1>3. ClockTypeOK'
    BY TimesAssumption DEF ClockTypeOK
  <1>4. DrawInv'
    BY DEF DrawInv
  <1>5. PendingShown' /\ ResetKeepsScreen'
    BY DEF PendingShown, ResetKeepsScreen
  <1>6. SleepInv'
    BY DEF SleepInv, NoOversleep
  <1>7. AwayInv'
    BY DEF AwayInv
  <1> QED
    BY <1>1, <1>2, <1>3, <1>4, <1>5, <1>6, <1>7

\* The link is lost; the timestamp restarts with the absence.
LEMMA OnDisconnectStep ==
    ASSUME IInv, OnDisconnect
    PROVE  IInv'
  <1> USE DEF IInv, TypeOK, OnDisconnect, DisconnectWrite
  <1>1. ControlTypeOK'
    BY DEF ControlTypeOK
  <1>2. MessageTypeOK'
    BY DEF MessageTypeOK
  <1>3. ClockTypeOK'
    BY TimesAssumption DEF ClockTypeOK
  <1>4. DrawInv'
    BY DEF DrawInv
  <1>5. PendingShown' /\ ResetKeepsScreen'
    BY DEF PendingShown, ResetKeepsScreen
  <1>6. SleepInv'
    BY DEF SleepInv, NoOversleep
  <1>7. AwayInv'
    BY DEF ClockTypeOK, AwayInv
  <1> QED
    BY <1>1, <1>2, <1>3, <1>4, <1>5, <1>6, <1>7

\* The flag falls while the link is down.
LEMMA OnDisconnectSecondStep ==
    ASSUME IInv, OnDisconnectSecond
    PROVE  IInv'
  <1> USE DEF IInv, TypeOK, OnDisconnectSecond, DisconnectWrite
  <1>1. ControlTypeOK'
    BY DEF ControlTypeOK
  <1>2. MessageTypeOK'
    BY DEF MessageTypeOK
  <1>3. ClockTypeOK'
    BY DEF ClockTypeOK
  <1>4. DrawInv'
    BY DEF DrawInv
  <1>5. PendingShown' /\ ResetKeepsScreen'
    BY DEF PendingShown, ResetKeepsScreen
  <1>6. SleepInv'
    BY DEF SleepInv, NoOversleep
  <1>7. AwayInv'
    BY DEF AwayInv
  <1> QED
    BY <1>1, <1>2, <1>3, <1>4, <1>5, <1>6, <1>7

\* A flag for the radio only.
LEMMA OnDisconnectAdvStep ==
    ASSUME IInv, OnDisconnectAdv
    PROVE  IInv'
  <1> USE DEF IInv, TypeOK, OnDisconnectAdv
  <1>1. ControlTypeOK'
    BY DEF ControlTypeOK
  <1>2. MessageTypeOK'
    BY DEF MessageTypeOK
  <1>3. ClockTypeOK'
    BY DEF ClockTypeOK
  <1>4. DrawInv'
    BY DEF DrawInv
  <1>5. PendingShown' /\ ResetKeepsScreen'
    BY DEF PendingShown, ResetKeepsScreen
  <1>6. SleepInv'
    BY DEF SleepInv, NoOversleep
  <1>7. AwayInv'
    BY DEF AwayInv
  <1> QED
    BY <1>1, <1>2, <1>3, <1>4, <1>5, <1>6, <1>7

\* What the agent writes is a message once it is trimmed, perhaps the empty one.
LEMMA TrimmedMessage ==
    ASSUME NEW val \in Writes
    PROVE  Trimmed(val) \in Messages
  BY MessagesAssumption DEF Writes, Trimmed

\* A message arrives: the redraw is due, and the notification is on its way.
LEMMA OnWriteStep ==
    ASSUME NEW val \in Writes, IInv, OnWrite(val)
    PROVE  IInv'
  <1> USE TrimmedMessage DEF IInv, TypeOK, OnWrite
  <1>1. ControlTypeOK'
    BY DEF ControlTypeOK
  <1>2. MessageTypeOK'
    BY DEF MessageTypeOK
  <1>3. ClockTypeOK'
    BY TimesAssumption DEF ClockTypeOK
  <1>4. DrawInv'
    BY DEF DrawInv
  <1>5. PendingShown' /\ ResetKeepsScreen'
    BY DEF PendingShown, ResetKeepsScreen
  <1>6. SleepInv'
    BY DEF SleepInv, NoOversleep
  <1>7. AwayInv'
    BY DEF AwayInv
  <1> QED
    BY <1>1, <1>2, <1>3, <1>4, <1>5, <1>6, <1>7

\* The notification is delivered.
LEMMA NotifyStep ==
    ASSUME IInv, Notify
    PROVE  IInv'
  <1> USE DEF IInv, TypeOK, Notify
  <1>1. ControlTypeOK'
    BY DEF ControlTypeOK
  <1>2. MessageTypeOK'
    BY DEF MessageTypeOK
  <1>3. ClockTypeOK'
    BY DEF ClockTypeOK
  <1>4. DrawInv'
    BY DEF DrawInv
  <1>5. PendingShown' /\ ResetKeepsScreen'
    BY DEF PendingShown, ResetKeepsScreen
  <1>6. SleepInv'
    BY DEF SleepInv, NoOversleep
  <1>7. AwayInv'
    BY DEF AwayInv
  <1> QED
    BY <1>1, <1>2, <1>3, <1>4, <1>5, <1>6, <1>7

\* loop() sleeps for the rest of the debounce time, no longer.
LEMMA LoopTopStep ==
    ASSUME IInv, LoopTop
    PROVE  IInv'
  <1> USE DEF IInv, TypeOK, LoopTop, Sleep, Remaining
  <1>1. ControlTypeOK'
    BY DEF ControlTypeOK
  <1>2. MessageTypeOK'
    BY DEF MessageTypeOK
  <1>3. ClockTypeOK'
    BY TimesAssumption DEF ClockTypeOK
  <1>4. DrawInv'
    BY DEF DrawInv
  <1>5. PendingShown' /\ ResetKeepsScreen'
    BY DEF PendingShown, ResetKeepsScreen
  <1>6. SleepInv'
    BY TimesAssumption DEF ClockTypeOK, SleepInv, NoOversleep
  <1>7. AwayInv'
    BY DEF AwayInv
  <1> QED
    BY <1>1, <1>2, <1>3, <1>4, <1>5, <1>6, <1>7

\* loop() has seen no message: one that came since has notified it.
LEMMA ChooseWaitStep ==
    ASSUME IInv, ChooseWait
    PROVE  IInv'
  <1> USE DEF IInv, TypeOK, ChooseWait, Sleep, Remaining, Least
  <1>1. ControlTypeOK'
    BY DEF ControlTypeOK
  <1>2. MessageTypeOK'
    BY DEF MessageTypeOK
  <1>3. ClockTypeOK'
    BY TimesAssumption DEF ClockTypeOK
  <1>4. DrawInv'
    BY DEF DrawInv
  <1>5. PendingShown' /\ ResetKeepsScreen'
    BY DEF PendingShown, ResetKeepsScreen
  <1>6. SleepInv'
    BY DEF SleepInv, NoOversleep
  <1>7. AwayInv'
    BY DEF AwayInv
  <1> QED
    BY <1>1, <1>2, <1>3, <1>4, <1>5, <1>6, <1>7

\* loop() wakes up.
LEMMA TakeStep ==
    ASSUME IInv, Take
    PROVE  IInv'
  <1> USE DEF IInv, TypeOK, Take
  <1>1. ControlTypeOK'
    BY DEF ControlTypeOK
  <1>2. MessageTypeOK'
    BY DEF MessageTypeOK
  <1>3. ClockTypeOK'
    BY DEF ClockTypeOK
  <1>4. DrawInv'
    BY DEF DrawInv
  <1>5. PendingShown' /\ ResetKeepsScreen'
    BY DEF PendingShown, ResetKeepsScreen
  <1>6. SleepInv'
    BY DEF SleepInv, NoOversleep
  <1>7. AwayInv'
    BY DEF AwayInv
  <1> QED
    BY <1>1, <1>2, <1>3, <1>4, <1>5, <1>6, <1>7

\* The redraw is done with only when the message is in hand, or already shown.
LEMMA TakeMessageStep ==
    ASSUME IInv, TakeMessage
    PROVE  IInv'
  <1> USE DEF IInv, TypeOK, TakeMessage
  <1>1. ControlTypeOK'
    BY DEF ControlTypeOK
  <1>2. MessageTypeOK'
    BY DEF MessageTypeOK
  <1>3. ClockTypeOK'
    BY DEF ClockTypeOK
  <1>4. DrawInv'
    BY DEF DrawInv
  <1>5. PendingShown' /\ ResetKeepsScreen'
    <2>1. CASE pc' = "render"
      BY <2>1 DEF DrawInv, PendingShown, ResetKeepsScreen
    <2>2. CASE pc' = "check"
      BY <2>2, TimesAssumption
         DEF ControlTypeOK, ClockTypeOK, DrawInv, PendingShown,
             ResetKeepsScreen
    <2> QED
      BY <2>1, <2>2
  <1>6. SleepInv'
    BY DEF SleepInv, NoOversleep
  <1>7. AwayInv'
    BY DEF AwayInv
  <1> QED
    BY <1>1, <1>2, <1>3, <1>4, <1>5, <1>6, <1>7

\* The message in hand becomes the current one.
LEMMA RenderStep ==
    ASSUME IInv, Render
    PROVE  IInv'
  <1> USE DEF IInv, TypeOK, Render, Show
  <1>1. ControlTypeOK'
    BY DEF ControlTypeOK
  <1>2. MessageTypeOK'
    BY DEF MessageTypeOK
  <1>3. ClockTypeOK'
    BY TimesAssumption DEF ClockTypeOK
  <1>4. DrawInv'
    BY DEF DrawInv
  <1>5. PendingShown' /\ ResetKeepsScreen'
    BY DEF PendingShown, ResetKeepsScreen
  <1>6. SleepInv'
    BY DEF SleepInv, NoOversleep
  <1>7. AwayInv'
    BY DEF AwayInv
  <1> QED
    BY <1>1, <1>2, <1>3, <1>4, <1>5, <1>6, <1>7

\* The flash catches up with the panel.
LEMMA PersistStep ==
    ASSUME IInv, Persist
    PROVE  IInv'
  <1> USE DEF IInv, TypeOK, Persist
  <1>1. ControlTypeOK'
    BY DEF ControlTypeOK
  <1>2. MessageTypeOK'
    BY MessagesAssumption DEF MessageTypeOK
  <1>3. ClockTypeOK'
    BY DEF ClockTypeOK
  <1>4. DrawInv'
    BY DEF DrawInv
  <1>5. PendingShown' /\ ResetKeepsScreen'
    BY DEF DrawInv, PendingShown, ResetKeepsScreen
  <1>6. SleepInv'
    BY DEF SleepInv, NoOversleep
  <1>7. AwayInv'
    BY DEF AwayInv
  <1> QED
    BY <1>1, <1>2, <1>3, <1>4, <1>5, <1>6, <1>7

\* Auto-FREE looks at the flag.
LEMMA CheckConnectedStep ==
    ASSUME IInv, CheckConnected
    PROVE  IInv'
  <1> USE DEF IInv, TypeOK, CheckConnected
  <1>1. ControlTypeOK'
    BY DEF ControlTypeOK
  <1>2. MessageTypeOK'
    BY DEF MessageTypeOK
  <1>3. ClockTypeOK'
    BY DEF ClockTypeOK
  <1>4. DrawInv'
    BY DEF DrawInv
  <1>5. PendingShown' /\ ResetKeepsScreen'
    BY DEF PendingShown, ResetKeepsScreen
  <1>6. SleepInv'
    BY DEF SleepInv, NoOversleep
  <1>7. AwayInv'
    BY DEF AwayInv
  <1> QED
    BY <1>1, <1>2, <1>3, <1>4, <1>5, <1>6, <1>7

\* Auto-FREE looks at the timestamp.
LEMMA CheckAgeStep ==
    ASSUME IInv, CheckAge
    PROVE  IInv'
  <1> USE DEF IInv, TypeOK, CheckAge
  <1>1. ControlTypeOK'
    BY DEF ControlTypeOK
  <1>2. MessageTypeOK'
    BY DEF MessageTypeOK
  <1>3. ClockTypeOK'
    BY DEF ClockTypeOK
  <1>4. DrawInv'
    BY DEF DrawInv
  <1>5. PendingShown' /\ ResetKeepsScreen'
    BY DEF PendingShown, ResetKeepsScreen
  <1>6. SleepInv'
    BY DEF SleepInv, NoOversleep
  <1>7. AwayInv'
    BY DEF AwayInv
  <1> QED
    BY <1>1, <1>2, <1>3, <1>4, <1>5, <1>6, <1>7

\* FREE is queued, and a redraw is due if it was not.
LEMMA FreeDisplayStep ==
    ASSUME IInv, FreeDisplay
    PROVE  IInv'
  <1> USE DEF IInv, TypeOK, FreeDisplay
  <1>1. ControlTypeOK'
    BY DEF ControlTypeOK
  <1>2. MessageTypeOK'
    BY MessagesAssumption DEF MessageTypeOK
  <1>3. ClockTypeOK'
    BY DEF ClockTypeOK
  <1>4. DrawInv'
    BY MessagesAssumption DEF DrawInv
  <1>5. PendingShown' /\ ResetKeepsScreen'
    BY DEF ControlTypeOK, DrawInv, PendingShown, ResetKeepsScreen
  <1>6. SleepInv'
    BY DEF SleepInv, NoOversleep
  <1>7. AwayInv'
    BY DEF AwayInv
  <1> QED
    BY <1>1, <1>2, <1>3, <1>4, <1>5, <1>6, <1>7

\* A redraw of the current message changes nothing.
LEMMA RefreshStep ==
    ASSUME IInv, Refresh
    PROVE  IInv'
  <1> USE DEF IInv, TypeOK, Refresh, Show
  <1>1. ControlTypeOK'
    BY DEF ControlTypeOK
  <1>2. MessageTypeOK'
    BY DEF MessageTypeOK
  <1>3. ClockTypeOK'
    BY DEF ClockTypeOK
  <1>4. DrawInv'
    BY DEF DrawInv
  <1>5. PendingShown' /\ ResetKeepsScreen'
    BY DEF DrawInv, PendingShown, ResetKeepsScreen
  <1>6. SleepInv'
    BY DEF SleepInv, NoOversleep
  <1>7. AwayInv'
    BY DEF AwayInv
  <1> QED
    BY <1>1, <1>2, <1>3, <1>4, <1>5, <1>6, <1>7

\* The radio restarts.
LEMMA RestartAdvertisingStep ==
    ASSUME IInv, RestartAdvertising
    PROVE  IInv'
  <1> USE DEF IInv, TypeOK, RestartAdvertising, StartAdvertising
  <1>1. ControlTypeOK'
    BY DEF ControlTypeOK
  <1>2. MessageTypeOK'
    BY DEF MessageTypeOK
  <1>3. ClockTypeOK'
    BY TimesAssumption DEF ClockTypeOK
  <1>4. DrawInv'
    BY DEF DrawInv
  <1>5. PendingShown' /\ ResetKeepsScreen'
    BY DEF PendingShown, ResetKeepsScreen
  <1>6. SleepInv'
    BY DEF SleepInv, NoOversleep
  <1>7. AwayInv'
    BY DEF AwayInv
  <1> QED
    BY <1>1, <1>2, <1>3, <1>4, <1>5, <1>6, <1>7

\* Only the program counter moves.
LEMMA WatchdogStep ==
    ASSUME IInv, Watchdog
    PROVE  IInv'
  <1> USE DEF IInv, TypeOK, Watchdog
  <1>1. ControlTypeOK'
    BY DEF ControlTypeOK
  <1>2. MessageTypeOK'
    BY DEF MessageTypeOK
  <1>3. ClockTypeOK'
    BY DEF ClockTypeOK
  <1>4. DrawInv'
    BY DEF DrawInv
  <1>5. PendingShown' /\ ResetKeepsScreen'
    BY DEF PendingShown, ResetKeepsScreen
  <1>6. SleepInv'
    BY DEF SleepInv, NoOversleep
  <1>7. AwayInv'
    BY DEF AwayInv
  <1> QED
    BY <1>1, <1>2, <1>3, <1>4, <1>5, <1>6, <1>7

\* The radio restarts.
LEMMA WatchdogRestartStep ==
    ASSUME IInv, WatchdogRestart
    PROVE  IInv'
  <1> USE DEF IInv, TypeOK, WatchdogRestart, StartAdvertising
  <1>1. ControlTypeOK'
    BY DEF ControlTypeOK
  <1>2. MessageTypeOK'
    BY DEF MessageTypeOK
  <1>3. ClockTypeOK'
    BY TimesAssumption DEF ClockTypeOK
  <1>4. DrawInv'
    BY DEF DrawInv
  <1>5. PendingShown' /\ ResetKeepsScreen'
    BY DEF PendingShown, ResetKeepsScreen
  <1>6. SleepInv'
    BY DEF SleepInv, NoOversleep
  <1>7. AwayInv'
    BY DEF AwayInv
  <1> QED
    BY <1>1, <1>2, <1>3, <1>4, <1>5, <1>6, <1>7

\* Ages grow together: the timestamp is never older than the absence.
LEMMA TickStep ==
    ASSUME IInv, Tick
    PROVE  IInv'
  <1> USE DEF IInv, TypeOK, Tick, Older, Remaining
  <1>1. ControlTypeOK'
    BY DEF ControlTypeOK
  <1>2. MessageTypeOK'
    BY DEF MessageTypeOK
  <1>3. ClockTypeOK'
    BY TimesAssumption DEF ClockTypeOK
  <1>4. DrawInv'
    BY DEF DrawInv
  <1>5. PendingShown' /\ ResetKeepsScreen'
    BY DEF PendingShown, ResetKeepsScreen
  <1>6. SleepInv'
    BY TimesAssumption DEF ClockTypeOK, SleepInv, NoOversleep
  <1>7. AwayInv'
    BY DEF ClockTypeOK, AwayInv
  <1> QED
    BY <1>1, <1>2, <1>3, <1>4, <1>5, <1>6, <1>7

\* The radio falls silent.
LEMMA AdvertisingStopsStep ==
    ASSUME IInv, AdvertisingStops
    PROVE  IInv'
  <1> USE DEF IInv, TypeOK, AdvertisingStops
  <1>1. ControlTypeOK'
    BY DEF ControlTypeOK
  <1>2. MessageTypeOK'
    BY DEF MessageTypeOK
  <1>3. ClockTypeOK'
    BY TimesAssumption DEF ClockTypeOK
  <1>4. DrawInv'
    BY DEF DrawInv
  <1>5. PendingShown' /\ ResetKeepsScreen'
    BY DEF PendingShown, ResetKeepsScreen
  <1>6. SleepInv'
    BY DEF SleepInv, NoOversleep
  <1>7. AwayInv'
    BY DEF AwayInv
  <1> QED
    BY <1>1, <1>2, <1>3, <1>4, <1>5, <1>6, <1>7

\* Memory is cleared; the flash and the panel are not.
LEMMA PowerLossStep ==
    ASSUME IInv, PowerLoss
    PROVE  IInv'
  <1> USE MessagesAssumption DEF IInv, TypeOK, PowerLoss
  <1>1. ControlTypeOK'
    BY DEF ControlTypeOK
  <1>2. MessageTypeOK'
    BY DEF MessageTypeOK
  <1>3. ClockTypeOK'
    BY TimesAssumption DEF ClockTypeOK
  <1>4. DrawInv'
    BY DEF DrawInv
  <1>5. PendingShown' /\ ResetKeepsScreen'
    BY DEF PendingShown, ResetKeepsScreen
  <1>6. SleepInv'
    BY DEF SleepInv, NoOversleep
  <1>7. AwayInv'
    BY DEF AwayInv
  <1> QED
    BY <1>1, <1>2, <1>3, <1>4, <1>5, <1>6, <1>7

\* Every step preserves the invariant.
LEMMA NextIInv == IInv /\ [Next]_vars => IInv'
  <1> SUFFICES ASSUME IInv, [Next]_vars PROVE IInv'
    OBVIOUS
  <1>1. CASE Setup
    BY <1>1, SetupStep
  <1>2. CASE OnConnect
    BY <1>2, OnConnectStep
  <1>3. CASE OnDisconnect
    BY <1>3, OnDisconnectStep
  <1>4. CASE OnDisconnectSecond
    BY <1>4, OnDisconnectSecondStep
  <1>5. CASE OnDisconnectAdv
    BY <1>5, OnDisconnectAdvStep
  <1>6. ASSUME NEW val \in Writes, OnWrite(val) PROVE IInv'
    BY <1>6, OnWriteStep
  <1>7. CASE Notify
    BY <1>7, NotifyStep
  <1>8. CASE LoopTop
    BY <1>8, LoopTopStep
  <1>9. CASE ChooseWait
    BY <1>9, ChooseWaitStep
  <1>10. CASE Take
    BY <1>10, TakeStep
  <1>11. CASE TakeMessage
    BY <1>11, TakeMessageStep
  <1>12. CASE Render
    BY <1>12, RenderStep
  <1>13. CASE Persist
    BY <1>13, PersistStep
  <1>14. CASE CheckConnected
    BY <1>14, CheckConnectedStep
  <1>15. CASE CheckAge
    BY <1>15, CheckAgeStep
  <1>16. CASE FreeDisplay
    BY <1>16, FreeDisplayStep
  <1>17. CASE Refresh
    BY <1>17, RefreshStep
  <1>18. CASE RestartAdvertising
    BY <1>18, RestartAdvertisingStep
  <1>19. CASE Watchdog
    BY <1>19, WatchdogStep
  <1>20. CASE WatchdogRestart
    BY <1>20, WatchdogRestartStep
  <1>21. CASE Tick
    BY <1>21, TickStep
  <1>22. CASE AdvertisingStops
    BY <1>22, AdvertisingStopsStep
  <1>23. CASE PowerLoss
    BY <1>23, PowerLossStep
  <1>24. CASE UNCHANGED vars
    BY <1>24
       DEF vars, IInv, TypeOK, ControlTypeOK, MessageTypeOK, ClockTypeOK,
           DrawInv, PendingShown, SleepInv, NoOversleep, ResetKeepsScreen,
           AwayInv
  <1> QED
    BY <1>1, <1>2, <1>3, <1>4, <1>5, <1>6, <1>7, <1>8, <1>9, <1>10, <1>11,
       <1>12, <1>13, <1>14, <1>15, <1>16, <1>17, <1>18, <1>19, <1>20, <1>21,
       <1>22, <1>23, <1>24
       DEF Next, LoopStep, CallbackStep

\* The invariant holds in every behaviour.
THEOREM Inductive == Spec => []IInv
  <1>1. Init => IInv
    BY InitIInv
  <1>2. IInv /\ [Next]_vars => IInv'
    BY NextIInv
  <1> QED
    BY <1>1, <1>2, PTL DEF Spec

\* Every variable has its type: whatever the agent writes and whenever a reset comes,
\* the panel and the flash hold trimmed messages only, perhaps the empty one.
THEOREM TypeCorrect == Spec => []TypeOK
  <1>1. IInv => TypeOK
    BY DEF IInv
  <1> QED
    BY <1>1, Inductive, PTL

\* Whatever the interleaving of the NimBLE task and loop(), and across resets,
\* no message received is lost between the two.
THEOREM NoMessageLost == Spec => []PendingShown
  <1>1. IInv => PendingShown
    BY DEF IInv
  <1> QED
    BY <1>1, Inductive, PTL

\* No wake-up of loop() is lost.
THEOREM NoWakeUpLost == Spec => []NoOversleep
  <1>1. IInv => NoOversleep
    BY DEF IInv, SleepInv
  <1> QED
    BY <1>1, Inductive, PTL

\* A reset keeps what the panel shows, but for the moment between the drawing of
\* a message and its save.
THEOREM SurvivesReset == Spec => []ResetKeepsScreen
  <1>1. IInv => ResetKeepsScreen
    BY DEF IInv
  <1> QED
    BY <1>1, Inductive, PTL

\* Auto-FREE decides on the timestamp of the disconnection that is under way,
\* whatever the values of the time limits.
THEOREM AutoFreeOnTime == Spec => AutoFreeJustified
  <1>1. IInv /\ [Next]_vars =>
          [/\ pc = "check" /\ pc' = "checkAge" => ~link
           /\ pc = "checkAge" /\ pc' = "free" => link \/ away >= AutoFree]_vars
    <2> SUFFICES ASSUME IInv, Next
                 PROVE  /\ pc = "check" /\ pc' = "checkAge" => ~link
                        /\ pc = "checkAge" /\ pc' = "free" =>
                             link \/ away >= AutoFree
      OBVIOUS
    <2>1. CASE CheckConnected
      BY <2>1 DEF CheckConnected, IInv, AwayInv
    <2>2. CASE CheckAge
      BY <2>2, TimesAssumption DEF CheckAge, IInv, AwayInv, TypeOK, ClockTypeOK
    <2>3. ASSUME ~CheckConnected, ~CheckAge
          PROVE  /\ ~(pc = "check" /\ pc' = "checkAge")
                 /\ ~(pc = "checkAge" /\ pc' = "free")
      BY <2>3
         DEF Next, LoopStep, CallbackStep, Setup, OnConnect, OnDisconnect,
             OnDisconnectSecond, OnDisconnectAdv, OnWrite, Notify, LoopTop,
             ChooseWait, Sleep, Take, TakeMessage, Render, Persist,
             FreeDisplay, Refresh, RestartAdvertising, Watchdog,
             WatchdogRestart, Tick, AdvertisingStops, PowerLoss
    <2> QED
      BY <2>1, <2>2, <2>3
  <1> QED
    BY <1>1, Inductive, PTL DEF Spec, AutoFreeJustified

-----------------------------------------------------------------------------
(* The display is a mailbox                                                  *)

\* What the mailbox sees of the firmware's memory.
seen == <<gPendingMsg, gNeedsRedraw, heard, InHand, screen, nvs>>

\* A step that leaves this part of the memory alone is none of the mailbox.
LEMMA MailboxKept ==
    ASSUME UNCHANGED seen
    PROVE  UNCHANGED Post!vars
  BY DEF seen, Post!vars

\* onWrite is an arrival.
LEMMA OnWriteArrives ==
    ASSUME NEW val \in Writes, OnWrite(val)
    PROVE  Post!Next
  <1>1. Post!Arrive(Trimmed(val))
    BY DEF OnWrite, InHand, Post!Arrive
  <1> QED
    BY <1>1, TrimmedMessage DEF Post!Next

\* Auto-FREE is an arrival of FREE, unless FREE arrived last: then, if it was taken
\* already, it is not queued again.
LEMMA FreeArrives ==
    ASSUME IInv, FreeDisplay
    PROVE  Post!Next \/ UNCHANGED Post!vars
  <1>1. CASE gPendingMsg = FREE
    <2>1. UNCHANGED seen
      BY <1>1 DEF FreeDisplay, InHand, seen, IInv, DrawInv, TypeOK, ControlTypeOK
    <2> QED
      BY <2>1, MailboxKept
  <1>2. CASE gPendingMsg # FREE
    <2>1. /\ gNeedsRedraw' /\ heard' /\ gPendingMsg' = FREE
          /\ UNCHANGED <<InHand, screen, nvs>>
      BY <1>2 DEF FreeDisplay, InHand
    <2>2. Post!Arrive(FREE)
      BY <2>1 DEF Post!Arrive
    <2> QED
      BY <2>2, MessagesAssumption DEF Post!Next
  <1> QED
    BY <1>1, <1>2

\* The message is taken in hand, skipped, or left to wait for the debounce time.
LEMMA TakeMessageTakes ==
    ASSUME IInv, TakeMessage
    PROVE  Post!Next \/ UNCHANGED Post!vars
  <1>1. InHand = Nothing /\ screen = gCurrentMsg /\ pc = "debounce"
    BY DEF IInv, DrawInv, TakeMessage, InHand
  <1>2. CASE ~gNeedsRedraw \/ refreshAge < Debounce
    <2>1. refreshAge \in Nat /\ Debounce \in Nat
      BY TimesAssumption DEF IInv, TypeOK, ClockTypeOK
    <2>2. UNCHANGED seen
      BY <1>2, <2>1 DEF TakeMessage, InHand, seen, IInv, TypeOK, ControlTypeOK
    <2> QED
      BY <2>2, MailboxKept
  <1>3. CASE gNeedsRedraw /\ ~(refreshAge < Debounce)
    <2>1. refreshAge >= Debounce
      BY <1>3, TimesAssumption DEF IInv, TypeOK, ClockTypeOK
    <2>2. gPendingMsg # Nothing
      BY MessagesAssumption DEF IInv, TypeOK, MessageTypeOK
    <2>3. /\ ~gNeedsRedraw' /\ UNCHANGED <<gPendingMsg, heard, screen, nvs>>
          /\ InHand' = IF gPendingMsg # gCurrentMsg THEN gPendingMsg ELSE Nothing
      BY <1>3, <2>1 DEF TakeMessage, InHand
    <2>4. CASE gPendingMsg # gCurrentMsg
      <3>1. Post!Take
        BY <1>1, <1>3, <2>2, <2>3, <2>4 DEF Post!Take
      <3> QED
        BY <3>1 DEF Post!Next
    <2>5. CASE gPendingMsg = gCurrentMsg
      <3>1. Post!Skip
        BY <1>1, <1>3, <2>3, <2>5 DEF Post!Skip
      <3> QED
        BY <3>1 DEF Post!Next
    <2> QED
      BY <2>4, <2>5
  <1> QED
    BY <1>2, <1>3

\* The message in hand is drawn, then saved.
LEMMA RenderDraws ==
    ASSUME IInv, Render
    PROVE  Post!Next
  <1>1. Post!Draw
    BY MessagesAssumption DEF IInv, TypeOK, MessageTypeOK, Render, Show, InHand, Post!Draw
  <1> QED
    BY <1>1 DEF Post!Next

LEMMA PersistSaves ==
    ASSUME IInv, Persist
    PROVE  Post!Next
  <1>1. toRender = screen
    BY DEF IInv, DrawInv, Persist
  <1>2. Post!Save
    BY <1>1 DEF Persist, InHand, Post!Save
  <1> QED
    BY <1>2 DEF Post!Next

\* setup() restores what was saved, and nothing waits before that.
LEMMA SetupRestores ==
    ASSUME IInv, Setup
    PROVE  Post!Next
  <1>1. Post!Restore
    BY DEF IInv, DrawInv, Setup, Show, InHand, Post!Restore
  <1> QED
    BY <1>1 DEF Post!Next

LEMMA PowerLossResets ==
    ASSUME PowerLoss
    PROVE  Post!Next
  <1>1. Post!Reset
    BY DEF PowerLoss, InHand, Post!Reset
  <1> QED
    BY <1>1 DEF Post!Next

\* The four-hourly refresh draws what the panel shows.
LEMMA RefreshRedraws ==
    ASSUME IInv, Refresh
    PROVE  UNCHANGED Post!vars
  <1>1. UNCHANGED seen
    BY DEF IInv, DrawInv, Refresh, Show, InHand, seen
  <1> QED
    BY <1>1, MailboxKept

\* Every step of the firmware is one of the mailbox, or none.
LEMMA MailboxStep ==
    ASSUME IInv, [Next]_vars
    PROVE  [Post!Next]_(Post!vars)
  <1>1. CASE \/ LoopTop \/ ChooseWait \/ Take \/ CheckConnected \/ CheckAge
             \/ RestartAdvertising \/ Watchdog \/ WatchdogRestart
             \/ CallbackStep \/ OnConnect \/ OnDisconnect
             \/ Tick \/ AdvertisingStops \/ UNCHANGED vars
    <2>1. UNCHANGED seen
      BY <1>1 DEF InHand, LoopTop, ChooseWait, Sleep, Take, CheckConnected, CheckAge,
                  RestartAdvertising, Watchdog, WatchdogRestart, CallbackStep,
                  OnDisconnectSecond, OnDisconnectAdv, Notify, OnConnect, OnDisconnect,
                  Tick, AdvertisingStops, vars, seen
    <2> QED
      BY <2>1, MailboxKept
  <1>2. CASE \E val \in Writes : OnWrite(val)
    BY <1>2, OnWriteArrives
  <1>3. CASE Setup
    BY <1>3, SetupRestores
  <1>4. CASE TakeMessage
    BY <1>4, TakeMessageTakes
  <1>5. CASE Render
    BY <1>5, RenderDraws
  <1>6. CASE Persist
    BY <1>6, PersistSaves
  <1>7. CASE FreeDisplay
    BY <1>7, FreeArrives
  <1>8. CASE Refresh
    BY <1>8, RefreshRedraws
  <1>9. CASE PowerLoss
    BY <1>9, PowerLossResets
  <1> QED
    BY <1>1, <1>2, <1>3, <1>4, <1>5, <1>6, <1>7, <1>8, <1>9 DEF Next, LoopStep

\* For any interleaving of the two tasks, any values of the time limits and resets at
\* any point, the firmware implements the safety part of Mailbox: the panel is drawn
\* with the messages in the order of their arrival, a message is replaced only while it
\* waits and dropped only if the panel shows it, and the flash holds what was drawn.
THEOREM ImplementsMailbox == Spec => Post!Spec
  <1>1. Init => Post!Init
    BY DEF Init, InHand, Post!Init
  <1>2. IInv /\ [Next]_vars => [Post!Next]_(Post!vars)
    BY MailboxStep
  <1> QED
    BY <1>1, <1>2, Inductive, PTL DEF Spec, Post!Spec
=============================================================================
