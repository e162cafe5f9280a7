----------------------------- MODULE PowerClients -----------------------------
(***************************************************************************)
(* The payload service and the mission database service side by side on    *)
(* the C3 (oresat_c3/__main__.py): each switches a card through the node   *)
(* manager, on its own reading of the same battery.                        *)
(***************************************************************************)
EXTENDS Payload, MissionDatabase

vars == <<packs, cardVars, upsets, topped, payloadVars, mdbVars>>

TypeOK == CardsOK /\ PayloadOK /\ MdbOK

Init == CardsInit /\ PayloadInit /\ MdbInit

\* The manager does not know of Beecon's card.
Managed(c) == c = "gps" \/ ~Is("beecon")

Commands ==
    \E c \in Cards :
        /\ Managed(c) /\ CommandCard(c)
        /\ foreign' = (foreign \/ (power'["gps"] = "on" /\ power["gps"] # "on"))
        /\ missed' = (missed \/ (power'["sci"] = "on" /\ power["sci"] # "on"))
        /\ UNCHANGED <<objects, handler, state, indicator, oreBeacon, port, last,
                       pc, seen, active, age, mdbPc>>

Surveys(c) == Managed(c) /\ Survey(c) /\ UNCHANGED <<payloadVars, mdbVars>>
Fails(c) == Managed(c) /\ CardFails(c) /\ UNCHANGED <<payloadVars, mdbVars>>
Charge == \E p \in PackLevels :
              PacksChange(p) /\ UNCHANGED <<payloadVars, mdbVars>>

PayloadStep == PayloadThread /\ UNCHANGED mdbVars
MdbStep == MdbThread /\ UNCHANGED payloadVars
TimeStep == AgeExpires /\ UNCHANGED payloadVars

Next ==
    \/ PayloadStep \/ MdbStep \/ TimeStep
    \/ PayloadEnvironment /\ UNCHANGED mdbVars
    \/ WriteActive /\ UNCHANGED payloadVars
    \/ Commands \/ Charge
    \/ \E c \in Cards : Surveys(c) \/ Fails(c)

Spec == Init /\ [][Next]_vars

\* Both services' threads are scheduled, time passes, and the manager surveys the
\* cards for ever.
FairSpec == /\ Spec
            /\ WF_vars(PayloadStep) /\ WF_vars(MdbStep) /\ WF_vars(TimeStep)
            /\ \A c \in Cards : WF_vars(Surveys(c))
-----------------------------------------------------------------------------
\* Properties.

\* A handler that saved power goes on only after both packs were high at some time
\* since both were found low: the space between the two levels keeps the card from
\* being switched to and fro while the battery hovers around one of them.
NoBounce ==
    [][pc = "handle" /\ pc' = "battery" /\ seen = Powersaving /\ state' = 1
         => topped \/ state = 1]_vars

\* payload_ctrl.state 0, while it stays 0, payload_ctrl.enabled is set and the
\* handler has not been dropped, leaves the Beecon and PiPlasma cards without power,
\* whatever the manager and the ground have done with them, but for OPD_PROBE: the
\* manager takes a running card that was probed for one that is off, and so does
\* _idle (payload.py:227), until it is enabled again.
OffObeyed ==
    <>[](state = 0 /\ enabled /\ handler = "live" /\ i2c /\ mission \in {"beecon", "prism"})
        => <>[](power["sci"] \in {"off", "marked"})

\* A battery that stays low ends with the Beecon and PiPlasma cards off.  The
\* exceptions are PiPlasma's: the ground wrote the powersave state or powered the
\* card itself, or the manager did not see it running when the handler went to save
\* power, because it was in error or had been probed.  Then nobody comes back to it.
PowersaveCuts ==
    <>[](PowerLow /\ enabled /\ handler = "live" /\ i2c /\ state <= Powersaving
         /\ mission \in {"beecon", "prism"})
        => <>[](~Powered("sci") \/ (Is("prism") /\ missed))

\* The GPS card is not left on for longer than active_timeout, while the service is
\* active and the battery good, and the service does not die for want of
\* _enabled_time (mission_database.py:82) unless someone else powered the card.
GpsRests ==
    <>[](active /\ IsBatLvlGood)
        => []<>(~Powered("gps") \/ (mdbPc = "failed" /\ foreign))
-----------------------------------------------------------------------------
\* What the documentation says, and the code does not do.

\* mission_database.py:89, "make sure that the battery is good. if not, shut it
\* down": a battery that stays low ends with the GPS off, while the service is
\* active.
GpsLowShutDown ==
    <>[](active /\ PowerLow /\ mdbPc # "failed") => <>[](~Powered("gps"))

\* payload.py:148, "Makes sure the beecon is on or off, depending on state".
BeeconFollowsState ==
    <>[](Is("beecon") /\ handler = "live" /\ i2c /\ state = 0)
        => <>[](~Powered("sci"))
=============================================================================
