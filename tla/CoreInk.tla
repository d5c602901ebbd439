------------------------------ MODULE CoreInk ------------------------------
(***************************************************************************)
(* The firmware of the e-ink display (firmware/coreink/coreink.ino).       *)
(*                                                                         *)
(* Two FreeRTOS tasks run truly in parallel: the NimBLE host task, which   *)
(* calls onConnect, onDisconnect and onWrite, and the Arduino task, which  *)
(* runs setup() and then loop() for ever.  They share plain globals; only  *)
(* gPendingMsg and gNeedsRedraw are accessed under a spinlock.  A step of  *)
(* this module is therefore one access to shared memory (or one critical   *)
(* section), with the local work around it.                                *)
(*                                                                         *)
(* millis() is modelled by ages: the time since a timestamp was taken, up  *)
(* to the limit it is compared with.                                       *)
(***************************************************************************)
EXTENDS Naturals

CONSTANTS
    Messages,       \* texts without spaces around them, the empty one included
    FREE,           \* "FREE"
    Empty,          \* "": what a String holds after a reset, and a message like any other
    Blank,          \* a write of nothing but spaces
    Nothing,        \* no message at all, in the view of Mailbox
    Debounce,       \* REFRESH_DEBOUNCE_MS, in ticks of the model's clock
    Poll,           \* TASK_TIMEOUT_MS
    AdvInterval,    \* ADV_RESTART_INTERVAL_MS
    AutoFree,       \* AUTO_FREE_TIMEOUT_MS
    MaxWrites,      \* bound: messages written by the agent
    MaxFaults       \* bound: lost links, power losses, advertising that stops

ASSUME MessagesAssumption ==
    /\ FREE \in Messages /\ Empty \in Messages /\ FREE # Empty
    /\ Blank \notin Messages /\ Nothing \notin Messages
ASSUME TimesAssumption ==
    /\ Debounce \in Nat /\ Poll \in Nat /\ AdvInterval \in Nat /\ AutoFree \in Nat
    /\ MaxWrites \in Nat /\ MaxFaults \in Nat

VARIABLES
    pc,               \* where the Arduino task is
    bt,               \* where the NimBLE host task is
    gConnected, gNeedAdvRestart, gNeedsRedraw,
    gPendingMsg,
    gCurrentMsg,
    nvs,              \* the "msg" key of the flash, which gLastPersistedMsg mirrors
    toRender,         \* the local of loop()
    waitTicks,        \* what is left of the time loop() will sleep
    notified,         \* the notification count of the Arduino task is not 0
    advertising,      \* the radio advertises the service
    link,             \* the agent is connected
    screen,           \* what the panel shows; it keeps it without power
    discAge,          \* millis() - gDisconnectedMs
    refreshAge,       \* millis() - gLastRefreshMs
    advAge,           \* millis() - gLastAdvRestart
    heard,            \* history: gPendingMsg has been written since the reset
    away,             \* history: how long the agent has been away
    writes, faults    \* so far

shared == <<gConnected, gNeedAdvRestart, gNeedsRedraw, gPendingMsg, heard>>
ages   == <<discAge, refreshAge, advAge, away>>
radio  == <<advertising, link>>
bounds == <<writes, faults>>
vars == <<pc, bt, shared, gCurrentMsg, nvs, toRender, waitTicks, notified,
          radio, screen, ages, bounds>>

Least(a, b)  == IF a < b THEN a ELSE b
Remaining(age, limit) == IF age < limit THEN limit - age ELSE 0

-----------------------------------------------------------------------------
Init ==
    /\ pc = "setup" /\ bt = "idle"
    /\ gConnected = FALSE /\ gNeedAdvRestart = FALSE /\ gNeedsRedraw = FALSE
    /\ gPendingMsg = Empty /\ gCurrentMsg = Empty /\ heard = FALSE
    /\ nvs \in Messages /\ screen \in Messages
    /\ toRender = Empty
    /\ waitTicks = 0 /\ notified = FALSE
    /\ advertising = FALSE /\ link = FALSE
    /\ discAge = 0 /\ refreshAge = 0 /\ advAge = 0 /\ away = 0
    /\ writes = 0 /\ faults = 0

\* renderMessage(): the panel shows the message.
Show(m) == screen' = m

\* setup(): show what was shown before the reboot, then start the radio.
Setup ==
    /\ pc = "setup"
    /\ Show(nvs) /\ gCurrentMsg' = nvs
    /\ advertising' = TRUE
    /\ pc' = "top"
    /\ UNCHANGED <<bt, shared, nvs, toRender, waitTicks, notified, link, ages,
                   bounds>>

-----------------------------------------------------------------------------
(* The callbacks                                                             *)

\* The controller stops advertising when a central connects.
OnConnect ==
    /\ bt = "idle" /\ advertising /\ ~link
    /\ link' = TRUE /\ advertising' = FALSE /\ away' = 0
    /\ gConnected' = TRUE
    /\ UNCHANGED <<pc, bt, gNeedAdvRestart, gNeedsRedraw, gPendingMsg, heard,
                   gCurrentMsg, nvs, toRender, waitTicks, notified, screen,
                   discAge, refreshAge, advAge, bounds>>

\* Mutant: the flag is written before the timestamp.
FlagFirst(n) ==
    \/ n = 1 /\ gConnected' = FALSE /\ UNCHANGED discAge
    \/ n = 2 /\ discAge' = 0 /\ UNCHANGED gConnected

\* The first two writes of onDisconnect: gDisconnectedMs, then gConnected.
DisconnectWrite(n) ==
    \/ n = 1 /\ discAge' = 0 /\ UNCHANGED gConnected
    \/ n = 2 /\ gConnected' = FALSE /\ UNCHANGED discAge

OnDisconnect ==
    /\ bt = "idle" /\ link /\ faults < MaxFaults
    /\ link' = FALSE /\ faults' = faults + 1
    /\ DisconnectWrite(1)
    /\ bt' = "second"
    /\ UNCHANGED <<pc, gNeedAdvRestart, gNeedsRedraw, gPendingMsg, heard, gCurrentMsg,
                   nvs, toRender, waitTicks, notified, advertising, screen,
                   refreshAge, advAge, away, writes>>

OnDisconnectSecond ==
    /\ bt = "second"
    /\ DisconnectWrite(2)
    /\ bt' = "advFlag"
    /\ UNCHANGED <<pc, gNeedAdvRestart, gNeedsRedraw, gPendingMsg, heard, gCurrentMsg,
                   nvs, toRender, waitTicks, notified, radio, screen, refreshAge,
                   advAge, away, bounds>>

\* Then it asks the loop to advertise again.
OnDisconnectAdv ==
    /\ bt = "advFlag"
    /\ gNeedAdvRestart' = TRUE
    /\ bt' = "notify"
    /\ UNCHANGED <<pc, gConnected, gNeedsRedraw, gPendingMsg, heard, gCurrentMsg, nvs,
                   toRender, waitTicks, notified, radio, screen, ages, bounds>>

\* What the agent can write.  The size is tested before trim(): a write of nothing but
\* spaces passes, and becomes the empty message.
Writes == (Messages \ {Empty}) \cup {Blank}

\* Mutant: the message is not trimmed.
Untrimmed(val) == val

\* incoming.trim()
Trimmed(val) == IF val = Blank THEN Empty ELSE val

\* Mutant: onWrite does not notify the loop.
OnWriteQuiet(val) ==
    /\ bt = "idle" /\ link /\ writes < MaxWrites
    /\ writes' = writes + 1
    /\ gPendingMsg' = Trimmed(val) /\ gNeedsRedraw' = TRUE /\ heard' = TRUE
    /\ UNCHANGED <<pc, bt, gConnected, gNeedAdvRestart, gCurrentMsg, nvs, toRender,
                   waitTicks, notified, radio, screen, ages, faults>>

\* onWrite, for a value of 1 to 64 bytes, up to its critical section.
OnWrite(val) ==
    /\ bt = "idle" /\ link /\ writes < MaxWrites
    /\ writes' = writes + 1
    /\ gPendingMsg' = Trimmed(val) /\ gNeedsRedraw' = TRUE /\ heard' = TRUE
    /\ bt' = "notify"
    /\ UNCHANGED <<pc, gConnected, gNeedAdvRestart, gCurrentMsg, nvs, toRender,
                   waitTicks, notified, radio, screen, ages, faults>>

\* xTaskNotifyGive, the last statement of onDisconnect and of onWrite.
Notify ==
    /\ bt = "notify"
    /\ notified' = TRUE
    /\ bt' = "idle"
    /\ UNCHANGED <<pc, shared, gCurrentMsg, nvs, toRender, waitTicks, radio,
                   screen, ages, bounds>>

-----------------------------------------------------------------------------
(* loop()                                                                    *)

\* Sleep for the given time, or not at all.
Sleep(ticks) ==
    /\ waitTicks' = ticks
    /\ pc' = IF ticks > 0 THEN "take" ELSE "debounce"

\* Is a message waiting for the debounce time?
LoopTop ==
    /\ pc = "top"
    /\ IF gNeedsRedraw THEN Sleep(Remaining(refreshAge, Debounce))
       ELSE pc' = "choose" /\ UNCHANGED waitTicks
    /\ UNCHANGED <<bt, shared, gCurrentMsg, nvs, toRender, notified, radio,
                   screen, ages, bounds>>

\* No: sleep until auto-FREE, the next restart of advertising, or a minute.
ChooseWait ==
    /\ pc = "choose"
    /\ Sleep(IF ~gConnected /\ gCurrentMsg # FREE
             THEN Remaining(discAge, AutoFree)
             ELSE IF ~gConnected
                  THEN Least(Remaining(advAge, AdvInterval), Poll)
                  ELSE Poll)
    /\ UNCHANGED <<bt, shared, gCurrentMsg, nvs, toRender, notified, radio,
                   screen, ages, bounds>>

\* Mutant: ulTaskNotifyTake has no timeout.
TakeNotified ==
    /\ pc = "take" /\ notified
    /\ notified' = FALSE /\ waitTicks' = 0
    /\ pc' = "debounce"
    /\ UNCHANGED <<bt, shared, gCurrentMsg, nvs, toRender, radio, screen, ages,
                   bounds>>

\* ulTaskNotifyTake returns.
Take ==
    /\ pc = "take" /\ (notified \/ waitTicks = 0)
    /\ notified' = FALSE /\ waitTicks' = 0
    /\ pc' = "debounce"
    /\ UNCHANGED <<bt, shared, gCurrentMsg, nvs, toRender, radio, screen, ages,
                   bounds>>

\* Mutant: gNeedsRedraw is cleared even when the message is not taken.
TakeMessageEarly ==
    /\ pc = "debounce"
    /\ gNeedsRedraw' = FALSE
    /\ IF refreshAge >= Debounce /\ gNeedsRedraw /\ gPendingMsg # gCurrentMsg
       THEN toRender' = gPendingMsg /\ pc' = "render"
       ELSE UNCHANGED toRender /\ pc' = "check"
    /\ UNCHANGED <<bt, gConnected, gNeedAdvRestart, gPendingMsg, heard, gCurrentMsg,
                   nvs, waitTicks, notified, radio, screen, ages, bounds>>

\* The message is taken once the debounce time has passed; one that is shown
\* already is not drawn again.
TakeMessage ==
    /\ pc = "debounce"
    /\ gNeedsRedraw' = (gNeedsRedraw /\ refreshAge < Debounce)
    /\ IF refreshAge >= Debounce /\ gNeedsRedraw /\ gPendingMsg # gCurrentMsg
       THEN toRender' = gPendingMsg /\ pc' = "render"
       ELSE UNCHANGED toRender /\ pc' = "check"
    /\ UNCHANGED <<bt, gConnected, gNeedAdvRestart, gPendingMsg, heard, gCurrentMsg,
                   nvs, waitTicks, notified, radio, screen, ages, bounds>>

Render ==
    /\ pc = "render"
    /\ Show(toRender) /\ gCurrentMsg' = toRender
    /\ refreshAge' = 0
    /\ pc' = "persist"
    /\ UNCHANGED <<bt, shared, nvs, toRender, waitTicks, notified, radio,
                   discAge, advAge, away, bounds>>

\* Mutant: the message is not written to flash.
PersistNothing ==
    /\ pc = "persist"
    /\ toRender' = Empty
    /\ pc' = "check"
    /\ UNCHANGED <<bt, shared, nvs, gCurrentMsg, waitTicks, notified, radio, screen,
                   ages, bounds>>

Persist ==
    /\ pc = "persist"
    /\ nvs' = toRender
    /\ toRender' = Empty
    /\ pc' = "check"
    /\ UNCHANGED <<bt, shared, gCurrentMsg, waitTicks, notified, radio, screen,
                   ages, bounds>>

\* Auto-FREE reads gConnected and gCurrentMsg ...
CheckConnected ==
    /\ pc = "check"
    /\ pc' = IF ~gConnected /\ gCurrentMsg # FREE THEN "checkAge" ELSE "refresh"
    /\ UNCHANGED <<bt, shared, gCurrentMsg, nvs, toRender, waitTicks, notified,
                   radio, screen, ages, bounds>>

\* ... then gDisconnectedMs ...
CheckAge ==
    /\ pc = "checkAge"
    /\ pc' = IF discAge >= AutoFree THEN "free" ELSE "refresh"
    /\ UNCHANGED <<bt, shared, gCurrentMsg, nvs, toRender, waitTicks, notified,
                   radio, screen, ages, bounds>>

\* Mutant: a message that waits is never replaced.
FreeUnlessPending ==
    /\ pc = "free"
    /\ gPendingMsg' = IF gPendingMsg = Empty THEN FREE ELSE gPendingMsg
    /\ gNeedsRedraw' = (gNeedsRedraw \/ gPendingMsg = Empty)
    /\ heard' = TRUE
    /\ pc' = "refresh"
    /\ UNCHANGED <<bt, gConnected, gNeedAdvRestart, gCurrentMsg, nvs, toRender,
                   waitTicks, notified, radio, screen, ages, bounds>>

\* ... and queues FREE, once.
FreeDisplay ==
    /\ pc = "free"
    /\ gPendingMsg' = FREE
    /\ gNeedsRedraw' = (gNeedsRedraw \/ gPendingMsg # FREE)
    /\ heard' = TRUE
    /\ pc' = "refresh"
    /\ UNCHANGED <<bt, gConnected, gNeedAdvRestart, gCurrentMsg, nvs, toRender,
                   waitTicks, notified, radio, screen, ages, bounds>>

\* The four-hourly redraw of what is shown, when it is due and no other is.
Refresh ==
    /\ pc = "refresh"
    /\ \/ ~gNeedsRedraw /\ Show(gCurrentMsg)
       \/ UNCHANGED screen
    /\ pc' = "adv"
    /\ UNCHANGED <<bt, shared, gCurrentMsg, nvs, toRender, waitTicks, notified,
                   radio, ages, bounds>>

\* pAdv->start(), tried twice.
StartAdvertising ==
    \/ advertising' = TRUE /\ UNCHANGED faults
    \/ advertising' = FALSE /\ faults < MaxFaults /\ faults' = faults + 1

\* After a disconnection.
RestartAdvertising ==
    /\ pc = "adv"
    /\ IF gNeedAdvRestart
       THEN StartAdvertising /\ advAge' = 0
       ELSE UNCHANGED <<advertising, advAge, faults>>
    /\ gNeedAdvRestart' = FALSE
    /\ pc' = "watchdog"
    /\ UNCHANGED <<bt, gConnected, gNeedsRedraw, gPendingMsg, heard, gCurrentMsg, nvs,
                   toRender, waitTicks, notified, link, screen, discAge,
                   refreshAge, away, writes>>

\* Mutant: no watchdog.
WatchdogOff ==
    /\ pc = "watchdog"
    /\ pc' = "top"
    /\ UNCHANGED <<bt, shared, gCurrentMsg, nvs, toRender, waitTicks, notified,
                   radio, screen, ages, bounds>>

\* NimBLE may have stopped advertising.
Watchdog ==
    /\ pc = "watchdog"
    /\ pc' = IF ~gConnected /\ advAge >= AdvInterval THEN "restart" ELSE "top"
    /\ UNCHANGED <<bt, shared, gCurrentMsg, nvs, toRender, waitTicks, notified,
                   radio, screen, ages, bounds>>

WatchdogRestart ==
    /\ pc = "restart"
    /\ StartAdvertising /\ advAge' = 0
    /\ pc' = "top"
    /\ UNCHANGED <<bt, shared, gCurrentMsg, nvs, toRender, waitTicks, notified,
                   link, screen, discAge, refreshAge, away, writes>>

-----------------------------------------------------------------------------
(* The environment                                                           *)

Older(age, limit) == IF age < limit THEN age + 1 ELSE age

\* Time passes, for every timestamp and for a task that sleeps.
Tick ==
    /\ discAge' = Older(discAge, AutoFree)
    /\ refreshAge' = Older(refreshAge, Debounce)
    /\ advAge' = Older(advAge, AdvInterval)
    /\ away' = IF link THEN 0 ELSE Older(away, AutoFree)
    /\ waitTicks' = Remaining(1, waitTicks)
    /\ UNCHANGED <<pc, bt, shared, gCurrentMsg, nvs, toRender, notified, radio,
                   screen, bounds>>

\* NimBLE stops advertising on its own after hours without a connection.
AdvertisingStops ==
    /\ advertising /\ faults < MaxFaults
    /\ advertising' = FALSE /\ faults' = faults + 1
    /\ UNCHANGED <<pc, bt, shared, gCurrentMsg, nvs, toRender, waitTicks,
                   notified, link, screen, ages, writes>>

\* A reset clears the memory; the flash and the panel keep what they have.
PowerLoss ==
    /\ pc # "setup" /\ faults < MaxFaults
    /\ faults' = faults + 1
    /\ pc' = "setup" /\ bt' = "idle"
    /\ gConnected' = FALSE /\ gNeedAdvRestart' = FALSE /\ gNeedsRedraw' = FALSE
    /\ gPendingMsg' = Empty /\ gCurrentMsg' = Empty /\ heard' = FALSE
    /\ toRender' = Empty
    /\ waitTicks' = 0 /\ notified' = FALSE
    /\ advertising' = FALSE /\ link' = FALSE
    /\ discAge' = 0 /\ refreshAge' = 0 /\ advAge' = 0 /\ away' = 0
    /\ UNCHANGED <<nvs, screen, writes>>

-----------------------------------------------------------------------------
LoopStep ==
    \/ Setup \/ LoopTop \/ ChooseWait \/ Take \/ TakeMessage \/ Render \/ Persist
    \/ CheckConnected \/ CheckAge \/ FreeDisplay \/ Refresh \/ RestartAdvertising
    \/ Watchdog \/ WatchdogRestart

\* A callback that has begun runs to its end.
CallbackStep == OnDisconnectSecond \/ OnDisconnectAdv \/ Notify

Next ==
    \/ LoopStep \/ CallbackStep
    \/ OnConnect \/ OnDisconnect
    \/ \E val \in Writes : OnWrite(val)
    \/ Tick \/ AdvertisingStops \/ PowerLoss

Spec == Init /\ [][Next]_vars

\* Both tasks run and time passes; nothing is promised of the agent.
Fairness == WF_vars(LoopStep) /\ WF_vars(CallbackStep) /\ WF_vars(Tick)

FairSpec == Spec /\ Fairness

-----------------------------------------------------------------------------
(* Properties                                                                *)

ControlTypeOK ==
    /\ pc \in {"setup", "top", "choose", "take", "debounce", "render", "persist",
               "check", "checkAge", "free", "refresh", "adv", "watchdog", "restart"}
    /\ bt \in {"idle", "second", "advFlag", "notify"}
    /\ gConnected \in BOOLEAN /\ gNeedAdvRestart \in BOOLEAN
    /\ gNeedsRedraw \in BOOLEAN /\ heard \in BOOLEAN
    /\ notified \in BOOLEAN /\ advertising \in BOOLEAN /\ link \in BOOLEAN

MessageTypeOK ==
    /\ gPendingMsg \in Messages /\ gCurrentMsg \in Messages /\ toRender \in Messages
    /\ nvs \in Messages /\ screen \in Messages

ClockTypeOK ==
    /\ waitTicks \in Nat
    /\ discAge \in 0 .. AutoFree /\ away \in 0 .. AutoFree
    /\ refreshAge \in 0 .. Debounce /\ advAge \in 0 .. AdvInterval
    /\ writes \in 0 .. MaxWrites /\ faults \in 0 .. MaxFaults

\* Every variable has its type; in particular the panel and the flash hold trimmed
\* messages only, perhaps the empty one, and ages never pass their limits.
TypeOK == ControlTypeOK /\ MessageTypeOK /\ ClockTypeOK

\* No message is lost between the two tasks: when no redraw is due, the last message
\* received since the reset, or queued by auto-FREE, is the one shown or being drawn.
PendingShown ==
    ~gNeedsRedraw /\ heard =>
        gPendingMsg = IF pc = "render" THEN toRender ELSE gCurrentMsg

\* No wake-up is lost: a loop asleep with a message to draw sleeps no longer than
\* the debounce time asks for, or it has been, or is about to be, notified.
NoOversleep ==
    pc = "take" /\ gNeedsRedraw =>
        \/ waitTicks <= Remaining(refreshAge, Debounce)
        \/ notified \/ bt = "notify"

\* Except while a drawn message is about to be saved, a reset brings back what
\* the panel shows.
ResetKeepsScreen == pc \notin {"setup", "persist"} => nvs = screen

\* What onDisconnect says of the order of its writes: auto-FREE does not fire on
\* the timestamp of an earlier disconnection.  It looks at the clock when the agent
\* is away; if the agent is still away when the decision falls, it has been away
\* for the whole time.
AutoFreeJustified ==
    [][/\ pc = "check" /\ pc' = "checkAge" => ~link
       /\ pc = "checkAge" /\ pc' = "free" => link \/ away >= AutoFree]_vars

\* The message that loop() took, until it is saved.
InHand == IF pc \in {"render", "persist"} THEN toRender ELSE Nothing

\* The display as a mailbox: the message in the critical section waits while
\* gNeedsRedraw is set.
Post == INSTANCE Mailbox WITH
    last    <- IF heard THEN gPendingMsg ELSE Nothing,
    waiting <- IF gNeedsRedraw THEN gPendingMsg ELSE Nothing,
    inHand  <- InHand,
    shown   <- screen,
    saved   <- nvs

\* Whatever the interleaving of the two tasks, and across resets: the panel is drawn
\* with messages in the order in which they were received or queued by auto-FREE,
\* each of them replaced by a later one at most while it waits; a message is saved
\* only once it is drawn; and the last one is drawn and saved in the end.
PanelIsMailbox == Post!Spec /\ Post!Settles

\* An agent that stays away leaves no BUSY on the door.
AutoFreed == <>[]~link => <>[](screen = FREE)

\* The display can always be found again: it is connected, or advertises.
Reachable == []<>(link \/ advertising)
=============================================================================
