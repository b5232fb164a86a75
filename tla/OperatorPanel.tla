---------------------------- MODULE OperatorPanel ----------------------------
(***************************************************************************)
(* widgets.py: the operator's tabs, one per device.  A tab is a            *)
(* placeholder until a ping, made in a thread of its own, is answered;     *)
(* then it is built, and a DeviceWatch follows the device's State.  Pings, *)
(* states and frames reach the GUI thread as queued signals: it handles    *)
(* one at a time, between clicks and timers, and none while a command it   *)
(* has sent is under way; a modal question keeps only clicks away.         *)
(*                                                                         *)
(* Taurus and Tango (external) give a new listener of State one first      *)
(* value, from a worker thread, and after it, sooner or later, what State  *)
(* has become, though not each state on the way; "NO CONTACT" stands for   *)
(* the error event that reports the loss of the device.  The listener of   *)
(* an image gets a first value too, in any state: the last frame.          *)
(***************************************************************************)
EXTENDS Naturals, Sequences, FiniteSets

CONSTANTS
    Tabs,
    Nothing,
    Cameras,        \* tabs with an image
    Reconnectable,  \* tabs whose action is allowed in FAULT
    Confirmed,      \* tabs whose action asks before it is run
    States,         \* of the devices, out of ON, MOVING, ALARM and FAULT
    OddErrors,      \* a ping may end by something else than DevFailed
    MAX_SIGNALS     \* bound: signals queued for a tab by device changes

ASSUME PanelAssumption ==
    /\ Nothing \notin Tabs
    /\ Cameras \subseteq Tabs /\ Reconnectable \subseteq Tabs /\ Confirmed \subseteq Tabs
    /\ "ON" \in States /\ States \subseteq {"ON", "MOVING", "ALARM", "FAULT"}
    /\ OddErrors \in BOOLEAN /\ MAX_SIGNALS \in Nat

Shown == States \cup {"NO CONTACT"}
Pinged == {"answered", "failed"}

ACTION_STATES == {"ON", "MOVING", "ALARM"}

\* The "states" of a tab's action in config.py
Allowed(i) == IF i \in Reconnectable THEN {"ON", "FAULT"} ELSE ACTION_STATES

VARIABLES
    device,     \* each tab's device: its state, or "NO CONTACT"
    tab,        \* the widget: "unreachable" or "device"
    pending,    \* self._pending
    pings,      \* ping threads that run
    watch,      \* the DeviceWatch: "none", started and without a "first" value, "on"
    reported,   \* the state that the DeviceWatch has been told last
    image,      \* the image's listener, as watch
    signals,    \* queued for the GUI thread
    label,      \* in the status bar; Nothing is "..."
    enabled,    \* the action's button
    picture,    \* what the image shows: "none", a frame that has been there while the
                \* label said ON ("live"), or one that came later or too early ("stray")
    dialog,     \* the tab whose question is open
    command     \* the tab whose command is under way: the GUI thread waits for it

widgetVars == <<tab, label, enabled, picture>>
pingVars == <<pending, pings>>
clickVars == <<dialog, command>>
listenVars == <<watch, reported, image>>
panelVars == <<device, listenVars, signals, widgetVars, pingVars, clickVars>>

PanelTypeOK ==
    /\ device \in [Tabs -> Shown]
    /\ tab \in [Tabs -> {"unreachable", "device"}]
    /\ pending \subseteq Tabs /\ pings \in [Tabs -> Nat]
    /\ watch \in [Tabs -> {"none", "first", "on"}] /\ reported \in [Tabs -> Shown]
    /\ image \in [Tabs -> {"none", "first", "on"}]
    /\ signals \in [Tabs -> Seq(Shown \cup Pinged \cup {"frame"})]
    /\ label \in [Tabs -> Shown \cup {Nothing}]
    /\ enabled \in [Tabs -> BOOLEAN]
    /\ picture \in [Tabs -> {"none", "live", "stray"}]
    /\ dialog \in Tabs \cup {Nothing} /\ command \in Tabs \cup {Nothing}

\* setTabSpecs() has put up the placeholders and started their pings.
PanelInit ==
    /\ device \in [Tabs -> Shown]
    /\ tab = [i \in Tabs |-> "unreachable"]
    /\ pending = Tabs /\ pings = [i \in Tabs |-> 1]
    /\ watch = [i \in Tabs |-> "none"] /\ reported = [i \in Tabs |-> "NO CONTACT"]
    /\ image = [i \in Tabs |-> "none"] /\ signals = [i \in Tabs |-> <<>>]
    /\ label = [i \in Tabs |-> Nothing]
    /\ enabled = [i \in Tabs |-> FALSE] /\ picture = [i \in Tabs |-> "none"]
    /\ dialog = Nothing /\ command = Nothing

GuiFree == command = Nothing

Emit(i, s) == signals' = [signals EXCEPT ![i] = Append(@, s)]

-----------------------------------------------------------------------------
(* Pings *)

\* _start_ping() without its look at _pending.
StartPingsAgain(these) ==
    /\ pending' = pending \cup these
    /\ pings' = [i \in Tabs |-> IF i \in these /\ pings[i] < 2
                                THEN pings[i] + 1 ELSE pings[i]]

\* _start_ping() of each
StartPings(these) ==
    /\ pending' = pending \cup these
    /\ pings' = [i \in Tabs |-> IF i \in these \ pending THEN pings[i] + 1 ELSE pings[i]]

RetryUnreachable ==
    /\ GuiFree
    /\ StartPings({i \in Tabs : tab[i] = "unreachable"})
    /\ UNCHANGED <<device, listenVars, signals, widgetVars, clickVars>>

RetryNow(i) ==
    /\ GuiFree /\ dialog = Nothing /\ tab[i] = "unreachable"
    /\ StartPings({i})
    /\ UNCHANGED <<device, listenVars, signals, widgetVars, clickVars>>

\* ping() has its result, and its thread emits it.  Any other exception than
\* DevFailed ends the thread, which then emits nothing.
PingEnds(i) ==
    /\ pings[i] > 0
    /\ pings' = [pings EXCEPT ![i] = @ - 1]
    /\ LET result == IF device[i] = "NO CONTACT" THEN "failed" ELSE "answered" IN
       signals' \in {[signals EXCEPT ![i] = Append(@, result)]}
                      \cup (IF OddErrors THEN {signals} ELSE {})
    /\ UNCHANGED <<device, listenVars, widgetVars, pending, clickVars>>

-----------------------------------------------------------------------------
(* Signals in the GUI thread *)

Handle(i) ==
    /\ GuiFree /\ signals[i] # <<>>
    /\ signals' = [signals EXCEPT ![i] = Tail(@)]

\* _on_pinged() that does not take the tab out of _pending.
OnPingedKeepsPending(i) ==
    /\ Handle(i) /\ Head(signals[i]) = "failed"
    /\ label' = IF tab[i] = "unreachable" THEN [label EXCEPT ![i] = "NO CONTACT"]
                                          ELSE label
    /\ UNCHANGED <<device, listenVars, tab, enabled, picture, pingVars, clickVars>>

\* _on_pinged() of a failed ping
OnPingFailed(i) ==
    /\ Handle(i) /\ Head(signals[i]) = "failed"
    /\ pending' = pending \ {i}
    /\ label' = IF tab[i] = "unreachable" THEN [label EXCEPT ![i] = "NO CONTACT"]
                                          ELSE label
    /\ UNCHANGED <<device, listenVars, tab, enabled, picture, pings, clickVars>>

\* _on_pinged() of an answered one: a placeholder gives way to a DeviceTab, its
\* buttons disabled and its image listening; the watch is connected, then started.
OnPingAnswered(i) ==
    /\ Handle(i) /\ Head(signals[i]) = "answered"
    /\ pending' = pending \ {i}
    /\ tab' = [tab EXCEPT ![i] = "device"]
    /\ watch' = [watch EXCEPT ![i] = IF tab[i] = "unreachable" THEN "first" ELSE @]
    /\ image' = [image EXCEPT ![i] =
                   IF tab[i] = "unreachable" /\ i \in Cameras THEN "first" ELSE @]
    /\ UNCHANGED <<device, reported, label, enabled, picture, pings, clickVars>>

\* setDeviceState() that leaves the picture alone.
OnStateKeepsPicture(i) ==
    /\ Handle(i) /\ Head(signals[i]) \in Shown
    /\ LET state == Head(signals[i]) IN
       /\ label' = [label EXCEPT ![i] = state]
       /\ enabled' = [enabled EXCEPT ![i] = tab[i] = "device" /\ state \in Allowed(i)]
    /\ UNCHANGED <<device, listenVars, tab, picture, pingVars, clickVars>>

\* _on_state(): the tab's actions and picture, and the label
OnState(i) ==
    /\ Handle(i) /\ Head(signals[i]) \in Shown
    /\ LET state == Head(signals[i]) IN
       /\ label' = [label EXCEPT ![i] = state]
       /\ enabled' = [enabled EXCEPT ![i] = tab[i] = "device" /\ state \in Allowed(i)]
       /\ picture' = [picture EXCEPT ![i] = IF state # "ON" \/ @ = "none" THEN "none"
                                            ELSE "live"]
    /\ UNCHANGED <<device, listenVars, tab, pingVars, clickVars>>

OnFrame(i) ==
    /\ Handle(i) /\ Head(signals[i]) = "frame"
    /\ picture' = [picture EXCEPT ![i] = IF label[i] = "ON" THEN "live" ELSE "stray"]
    /\ UNCHANGED <<device, listenVars, tab, label, enabled, pingVars, clickVars>>

GuiStep(i) == OnPingFailed(i) \/ OnPingAnswered(i) \/ OnState(i) \/ OnFrame(i)

-----------------------------------------------------------------------------
(* The operator *)

\* _onClicked(): a dangerous command asks first, in an event loop of its own.
Click(i) ==
    /\ GuiFree /\ dialog = Nothing /\ enabled[i]
    /\ IF i \in Confirmed THEN dialog' = i /\ UNCHANGED command
                          ELSE command' = i /\ UNCHANGED dialog
    /\ UNCHANGED <<device, listenVars, signals, widgetVars, pingVars>>

\* OK runs the command; Cancel, the default, does not.
Answer ==
    /\ GuiFree /\ dialog # Nothing
    /\ command' \in {dialog, Nothing}
    /\ dialog' = Nothing
    /\ UNCHANGED <<device, listenVars, signals, widgetVars, pingVars>>

CommandReturns ==
    /\ command # Nothing
    /\ command' = Nothing
    /\ UNCHANGED <<device, listenVars, signals, widgetVars, pingVars, dialog>>

-----------------------------------------------------------------------------
(* Devices and their events *)

DeviceChanges(i, state) ==
    /\ state # device[i] /\ Len(signals[i]) < MAX_SIGNALS
    /\ device' = [device EXCEPT ![i] = state]
    /\ UNCHANGED <<listenVars, signals, widgetVars, pingVars, clickVars>>

Report(i) ==
    /\ Emit(i, device[i])
    /\ reported' = [reported EXCEPT ![i] = device[i]]

\* The watch's first value comes in any case.
FirstValue(i) ==
    /\ watch[i] = "first"
    /\ watch' = [watch EXCEPT ![i] = "on"]
    /\ Report(i)
    /\ UNCHANGED <<device, image, widgetVars, pingVars, clickVars>>

\* A change event, or the error event.
StateEvent(i) ==
    /\ watch[i] = "on" /\ reported[i] # device[i]
    /\ Report(i)
    /\ UNCHANGED <<device, watch, image, widgetVars, pingVars, clickVars>>

\* The image's first value is what the attribute gives in any state; of a device out
\* of contact it may be an error.
FirstFrame(i) ==
    /\ image[i] = "first"
    /\ image' = [image EXCEPT ![i] = "on"]
    /\ Emit(i, "frame") \/ (device[i] = "NO CONTACT" /\ UNCHANGED signals)
    /\ UNCHANGED <<device, watch, reported, widgetVars, pingVars, clickVars>>

\* A camera pushes frames while it is ON, its listeners told of that or not.
CameraPushes(i) ==
    /\ image[i] # "none" /\ device[i] = "ON" /\ Len(signals[i]) < MAX_SIGNALS
    /\ Emit(i, "frame")
    /\ UNCHANGED <<device, listenVars, widgetVars, pingVars, clickVars>>

PanelNext ==
    \/ RetryUnreachable
    \/ \E i \in Tabs : \/ RetryNow(i) \/ PingEnds(i) \/ GuiStep(i)
                       \/ Click(i) \/ FirstValue(i) \/ StateEvent(i)
                       \/ FirstFrame(i) \/ CameraPushes(i)
                       \/ \E state \in Shown : DeviceChanges(i, state)
    \/ Answer \/ CommandReturns

PanelSpec == PanelInit /\ [][PanelNext]_panelVars

\* Threads end, commands return (Tango's timeouts), and Qt's event loop comes round
\* to the timer and to every queued signal however busy the operator is.  A state that
\* lasts is reported.
PanelFairSpec ==
    /\ PanelSpec
    /\ SF_panelVars(RetryUnreachable) /\ WF_panelVars(CommandReturns)
    /\ \A i \in Tabs : /\ WF_panelVars(PingEnds(i))
                       /\ WF_panelVars(FirstValue(i)) /\ WF_panelVars(StateEvent(i))
                       /\ SF_panelVars(GuiStep(i))

-----------------------------------------------------------------------------
(* Properties *)

Count(i) == Cardinality({k \in DOMAIN signals[i] : signals[i][k] \in Pinged})

\* A tab has one ping on its way while its index is in _pending and none otherwise,
\* whatever the timer, the button and late answers do (lines 562-579).
PendingIsTruthful ==
    \A i \in Tabs : pings[i] + Count(i) = IF i \in pending THEN 1 ELSE 0

\* The panel shows the device as it is, once nothing is on its way to a built tab: its
\* label ("the status bar shows every device's state", line 533), and its buttons, each
\* enabled in the states of its action and disabled "out of contact" (lines 532-533); a
\* frame that was there while the label said ON does not outlive that ("the last frame
\* would stay", lines 293-294).
PanelShowsDevice ==
    \A i \in Tabs :
        /\ (watch[i] = "on" /\ signals[i] = <<>> /\ reported[i] = device[i]) =>
              /\ tab[i] = "device" /\ label[i] = device[i]
              /\ enabled[i] = (device[i] \in Allowed(i))
        /\ picture[i] = "live" => label[i] = "ON"

\* "No picture means no stream: it is cleared whenever the State is not ON"
\* (operator_notes.html, line 86).  It does not hold: the image's first value may come
\* after the watch's, and a stream may come and go between two reports of State.
NoPictureWithoutStream ==
    \A i \in Tabs : (watch[i] = "on" /\ signals[i] = <<>> /\ reported[i] = device[i]) =>
        (picture[i] # "none" => device[i] = "ON")

\* "This tab appears by itself once the device answers" (line 509), and "the status
\* bar shows every device's state": of a device that stays as it is.
PanelCatchesUp ==
    \A i \in Tabs : \A state \in Shown :
        <>[](device[i] = state) =>
            <>[](label[i] = state /\ (state # "NO CONTACT" => tab[i] = "device"))

\* A command is sent only in a state of its action, as far as the panel knows: what
\* does not hold, because the state may change while the question is open.
CommandFollowsLabel == \A i \in Tabs : command = i => enabled[i]

=============================================================================
