----------------------------- MODULE DevicePage -----------------------------
(***************************************************************************)
(* The set-up page of the display ((dashboard)/device/page.tsx): it        *)
(* approves the code of an agent, by itself when the agent has opened it   *)
(* with ?pair=CODE, and keeps the address of the display (device.service). *)
(* Pairing says what becomes of an approval.                               *)
(***************************************************************************)
EXTENDS Shell, Naturals

CONSTANTS
    Addresses,   \* of displays
    NoAddress    \* null in the database, empty in the form

ASSUME NoAddressAssumption == NoAddress \notin Addresses

VARIABLES
    stored,      \* User.bleDeviceAddress, while the page is mounted
    config,      \* the page's copy
    address,     \* the field
    saving,      \* the address in the PUT in flight
    saveStatus,  \* "idle", "saved" or "error"
    getting,     \* GET /device/ble-config: "none", "asked" or "read"
    got,         \* what it has read
    pairParam,   \* is there ?pair=CODE in the address bar?
    pairCode,    \* is there a code of six characters in the field?
    pairStatus,  \* "idle", "linking", "done" or "error"
    asked        \* history: approvals, since the user last acted on a failed one

deviceVars == <<stored, config, address, saving, saveStatus, getting, got,
                pairParam, pairCode, pairStatus, asked>>
bleVars  == <<stored, config, address, saving, saveStatus, getting, got>>
pairVars == <<pairParam, pairCode, pairStatus, asked>>

Fields == Addresses \cup {NoAddress}

DeviceUnmounted ==
    /\ stored = NoAddress /\ config = NoAddress /\ address = NoAddress
    /\ saving = NoAddress /\ saveStatus = "idle" /\ getting = "none" /\ got = NoAddress
    /\ pairParam = FALSE /\ pairCode = FALSE /\ pairStatus = "idle" /\ asked = 0

\* The page is left: its state is gone.
DeviceLeave ==
    /\ stored' = NoAddress /\ config' = NoAddress /\ address' = NoAddress
    /\ saving' = NoAddress /\ saveStatus' = "idle" /\ getting' = "none" /\ got' = NoAddress
    /\ pairParam' = FALSE /\ pairCode' = FALSE /\ pairStatus' = "idle" /\ asked' = 0

\* Mutant: only a link under way, or done, keeps the effect from approving.
RetryApprove(ready, code, status, count) ==
    IF ready /\ status \notin {"linking", "done"}
    THEN pairStatus' = "linking" /\ pairCode' = TRUE /\ asked' = count + 1
    ELSE pairStatus' = status /\ pairCode' = code /\ asked' = count

\* The effect that approves the code of the address bar.  It runs whenever the address
\* bar, the token or the status changes; ready says that there is a code and a token, the
\* others are what the page has just become.
AutoApprove(ready, code, status, count) ==
    IF ready /\ status = "idle"
    THEN pairStatus' = "linking" /\ pairCode' = TRUE /\ asked' = count + 1
    ELSE pairStatus' = status /\ pairCode' = code /\ asked' = count

DeviceMount ==
    /\ stored' \in Fields /\ pairParam' \in BOOLEAN
    /\ AutoApprove(Token /\ pairParam', pairCode, pairStatus, asked)
    /\ getting' = IF Token THEN "asked" ELSE getting
    /\ UNCHANGED <<config, address, saving, saveStatus, got>>

DeviceSession ==
    /\ AutoApprove(pairParam, pairCode, pairStatus, asked)
    /\ getting' = "asked"
    /\ UNCHANGED <<stored, config, address, saving, saveStatus, got, pairParam>>

\* The link of the side bar leads to the same page without the code; Back and Forward
\* lead to either.  The page stays mounted and keeps its state.
ParamChanges ==
    /\ pairParam' = ~pairParam
    /\ AutoApprove(Token /\ pairParam', pairCode, pairStatus, asked)
    /\ UNCHANGED bleVars

-----------------------------------------------------------------------------
(* The link                                                                  *)

\* The user has seen that an approval failed, and acts.
Acted == IF pairStatus = "error" THEN 0 ELSE asked

\* The form is shown while there is no code in the address bar.
FormShown == pairStatus \in {"idle", "error"} /\ ~pairParam

TypeCode ==
    /\ FormShown
    /\ \E full \in BOOLEAN : AutoApprove(Token /\ pairParam, full, "idle", Acted)
    /\ UNCHANGED <<bleVars, pairParam>>

\* linkAgent()
LinkAgent ==
    /\ FormShown
    /\ Token /\ pairCode
    /\ AutoApprove(pairParam, pairCode, "linking", Acted + 1)
    /\ UNCHANGED <<bleVars, pairParam>>

\* The API approves the code, does not know it, or cannot be reached.
ApproveAnswered ==
    /\ pairStatus = "linking"
    /\ \E status \in {"done", "error"} :
         AutoApprove(Token /\ pairParam, pairCode, status, asked)
    /\ UNCHANGED <<bleVars, pairParam>>

-----------------------------------------------------------------------------
(* The address of the display                                                *)

ConfigRead ==
    /\ getting = "asked"
    /\ getting' = "read" /\ got' = stored
    /\ UNCHANGED <<stored, config, address, saving, saveStatus, pairVars>>

\* load(): what is configured replaces what the field holds.
ConfigAnswered ==
    /\ getting = "read"
    /\ config' = got
    /\ address' = IF got = NoAddress THEN address ELSE got
    /\ getting' = "none" /\ got' = NoAddress
    /\ UNCHANGED <<stored, saving, saveStatus, pairVars>>

ConfigFails ==
    /\ getting # "none"
    /\ getting' = "none" /\ got' = NoAddress
    /\ UNCHANGED <<stored, config, address, saving, saveStatus, pairVars>>

TypeAddress ==
    /\ address' \in Fields
    /\ UNCHANGED <<stored, config, saving, saveStatus, getting, got, pairVars>>

\* save(): the button is disabled while one is under way.
Save ==
    /\ Token /\ saving = NoAddress /\ address # NoAddress
    /\ saving' = address /\ saveStatus' = "idle"
    /\ UNCHANGED <<stored, config, address, getting, got, pairVars>>

SaveAnswered ==
    /\ saving # NoAddress
    /\ stored' = saving /\ config' = saving
    /\ saveStatus' = "saved" /\ saving' = NoAddress
    /\ UNCHANGED <<address, getting, got, pairVars>>

\* It fails, perhaps after the row was written.
SaveFails ==
    /\ saving # NoAddress
    /\ stored' \in {stored, saving}
    /\ saveStatus' = "error" /\ saving' = NoAddress
    /\ UNCHANGED <<config, address, getting, got, pairVars>>

\* The last step of the page is done.
AllSet == config # NoAddress /\ pairStatus = "done"

DeviceStep ==
    /\ page = "device"
    /\ \/ ParamChanges \/ TypeCode \/ LinkAgent \/ ApproveAnswered
       \/ ConfigRead \/ ConfigAnswered \/ ConfigFails
       \/ TypeAddress \/ Save \/ SaveAnswered \/ SaveFails

-----------------------------------------------------------------------------
\* The page approves no code again on its own: a second approval would replace the token
\* that the first has given the agent.  Unless the user acts on a failure that the page has
\* shown, it asks for one approval only, by the effect or by the form, however late the
\* session arrives, whatever fails, and however often the code leaves the address bar and
\* comes back.
NoRepeatedApproval == asked <= 1
=============================================================================
