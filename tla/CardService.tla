----------------------------- MODULE CardService -----------------------------
(***************************************************************************)
(* What the services that use the node manager see of it and of the        *)
(* battery: a card is asked for with enable and disable, which act on its  *)
(* power at once, and is judged by node_status, which is what the          *)
(* manager's last survey found (services/node_manager.py; modelled in full *)
(* in NodeManager).  Surveys, failures and the charge of the two packs are *)
(* the environment of those services.                                      *)
(***************************************************************************)
EXTENDS Naturals

CONSTANTS
    PackLevels, \* bound: the charges of the two packs explored
    MaxUpsets   \* bound: failures and commands of the ground

VARIABLES
    packs,   \* pack_1_vbatt and pack_2_vbatt, on the scale of Levels
    power,   \* the cards' power, and whether the OPD knows of it
    status,  \* node_status of the cards
    upsets,  \* failures and commands so far
    topped   \* history: both packs were above BAT_LEVEL_HIGH since the payload
             \* service last found the battery low

cardVars == <<power, status>>

Cards == {"sci", "gps"}
NodeStates == {"OFF", "BOOT", "ON", "ERROR", "NOT_FOUND", "DEAD"}

\* A card that is on may be "marked": OPD_PROBE of a running card says that it is
\* disabled and leaves its pin alone.
Powers == {"off", "on", "marked"}
Powered(c) == power[c] # "off"

\* A pack's voltage: 0 is below BAT_LEVEL_LOW, 1 that very value, 2 above it and
\* not above BAT_LEVEL_HIGH, 3 above that.
Levels == 0..3
BAT_LEVEL_LOW == 1
BAT_LEVEL_HIGH == 2

ASSUME PacksAssumption == PackLevels \subseteq Levels \X Levels
ASSUME UpsetsAssumption == MaxUpsets \in Nat

Running(c) == status[c] \in {"BOOT", "ON"}

\* NodeManagerService.enable and disable, as the power they leave.
Enabled(c) == IF status[c] = "OFF" THEN [power EXCEPT ![c] = "on"] ELSE power
Disabled(c) ==
    IF status[c] \in {"OFF", "DEAD"} THEN power ELSE [power EXCEPT ![c] = "off"]
-----------------------------------------------------------------------------
CardsOK ==
    /\ packs \in PackLevels
    /\ power \in [Cards -> Powers] /\ status \in [Cards -> NodeStates]
    /\ upsets \in 0..MaxUpsets /\ topped \in BOOLEAN

CardsInit ==
    /\ packs \in PackLevels
    /\ power = [c \in Cards |-> "off"]
    /\ status = [c \in Cards |-> "OFF"]
    /\ upsets = 0 /\ topped = TRUE

Upset == upsets < MaxUpsets /\ upsets' = upsets + 1

\* The manager's survey of a card, and what it does about a card in error: reset
\* it, which leaves the power alone, or give it up.
Survey(c) ==
    /\ status[c] # "DEAD"
    /\ \/ power[c] # "on" /\ status' = [status EXCEPT ![c] = "OFF"]
       \/ /\ power[c] = "on" /\ ~Running(c)
          /\ status' = [status EXCEPT ![c] = "BOOT"]
       \/ /\ power[c] = "on" /\ status[c] = "BOOT"
          /\ status' = [status EXCEPT ![c] = "ON"]
    /\ UNCHANGED <<packs, power, upsets, topped>>

\* A card falls silent or trips, is given up, or its MAX7310 is lost, which takes
\* the power with it.
CardFails(c) ==
    /\ Upset
    /\ \/ Running(c) /\ status' = [status EXCEPT ![c] = "ERROR"]
          /\ UNCHANGED power
       \/ /\ status[c] = "ERROR" /\ status' = [status EXCEPT ![c] = "DEAD"]
          /\ power' = [power EXCEPT ![c] = "off"]
       \/ /\ status[c] # "DEAD" /\ status' = [status EXCEPT ![c] = "NOT_FOUND"]
          /\ power' = [power EXCEPT ![c] = "off"]
    /\ UNCHANGED <<packs, topped>>

\* The ground uses the manager's SDO to the same cards, or the EDL's OPD_PROBE.
Marked(c) == IF power[c] = "on" THEN [power EXCEPT ![c] = "marked"] ELSE power
CommandCard(c) ==
    /\ Upset /\ power' \in {Enabled(c), Disabled(c), Marked(c)}
    /\ UNCHANGED <<packs, status, topped>>

PacksChange(p) ==
    /\ packs' = p
    /\ topped' = (topped \/ (p[1] > BAT_LEVEL_HIGH /\ p[2] > BAT_LEVEL_HIGH))
    /\ UNCHANGED <<cardVars, upsets>>
=============================================================================
