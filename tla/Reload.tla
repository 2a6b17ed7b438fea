------------------------------- MODULE Reload -------------------------------
(***************************************************************************)
(* Configuration reload: the file watcher (src/src/watcher.rs) and the     *)
(* dashboard's reload button (handle_ui_reload_config, server.rs) read the *)
(* file and give it first to the authentication (Auth.tla) and then to the *)
(* gateway actor.  Each button press is a task of its own, so several      *)
(* reloads may be under way, and nothing orders them.                      *)
(*                                                                         *)
(* What a new configuration does to the backends is in Gateway.tla; here   *)
(* the gateway is the configuration it handled last.                       *)
(***************************************************************************)
EXTENDS Auth

CONSTANTS
  Watcher, Buttons,  \* the watcher's task; presses that may be in progress
  Broken             \* content that does not load

ASSUME ReloadAssumption == Watcher \notin Buttons /\ Broken \notin Configs

VARIABLES
  file,      \* the content of config.toml alone: the environment and .env, which
             \* placeholders refer to and the watcher ignores, stay as they are
  unheard,   \* a change the operating system has yet to report
  channel,   \* the watcher's channel is not empty
  load,      \* per loader: what it is doing, and the configuration it read
  gateway,   \* the configuration of the gateway actor
  crossed,   \* history: the last reload that reached the authentication did
             \* so while another had not yet reached the gateway
  late       \* history: the parts whose last reload since the file changed was by
             \* a button press that had read the file before that change

reloadVars == <<file, unheard, channel, load, gateway, crossed, late>>
vars == <<reloadVars, authVars>>

Loaders == {Watcher} \cup Buttons
NoLoad == [pc |-> "idle"]
Reading == [pc |-> "reading"]
Held(p, c) == [pc |-> p, conf |-> c]
Parts == {"auth", "gateway"}

TypeOK ==
  /\ AuthTypeOK
  /\ file \in Configs \cup {Broken}
  /\ unheard \in BOOLEAN /\ channel \in BOOLEAN
  /\ load \in [Loaders -> {NoLoad, Reading, [pc |-> "settling"]}
                          \cup {Held(p, c) : p \in {"loaded", "telling"}, c \in Configs}]
  /\ gateway \in Configs
  /\ crossed \in BOOLEAN /\ late \subseteq Parts

\* main: one load serves the authentication and the gateway.
Init ==
  /\ AuthInit
  /\ file = manager /\ gateway = manager
  /\ unheard = FALSE /\ channel = FALSE
  /\ load = [l \in Loaders |-> NoLoad]
  /\ crossed = FALSE /\ late = {}
-----------------------------------------------------------------------------
\* Someone writes config.toml; a write in several parts is several changes.
Edit(f) ==
  /\ file' = f /\ f # file
  /\ unheard' = TRUE /\ late' = {}
  /\ UNCHANGED <<channel, load, gateway, crossed, authVars>>

\* The notification's callback puts a token into the unbounded channel.
Notify ==
  /\ unheard
  /\ unheard' = FALSE /\ channel' = TRUE
  /\ UNCHANGED <<file, load, gateway, crossed, late, authVars>>

\* recv() returns a token; then the task sleeps while changes settle.
Wake ==
  /\ load[Watcher] = NoLoad /\ channel
  /\ load' = [load EXCEPT ![Watcher] = [pc |-> "settling"]]
  /\ UNCHANGED <<file, unheard, channel, gateway, crossed, late, authVars>>

\* The sleep ends: everything in the channel is dropped, then the load starts.
Settle ==
  /\ load[Watcher].pc = "settling"
  /\ load' = [load EXCEPT ![Watcher] = Reading]
  /\ channel' = FALSE
  /\ UNCHANGED <<file, unheard, gateway, crossed, late, authVars>>

Press(b) ==
  /\ load[b] = NoLoad
  /\ load' = [load EXCEPT ![b] = Reading]
  /\ UNCHANGED <<file, unheard, channel, gateway, crossed, late, authVars>>

\* Wrong on purpose: a file that does not load is applied all the same.
ReadUnchecked(l) ==
  /\ load[l] = Reading
  /\ load' = [load EXCEPT ![l] = Held("loaded", file)]
  /\ UNCHANGED <<file, unheard, channel, gateway, crossed, late, authVars>>

\* Config::load on the blocking pool: a file that does not load is reported
\* and nothing changes.
Read(l) ==
  /\ load[l] = Reading
  /\ load' = [load EXCEPT ![l] = IF file = Broken THEN NoLoad ELSE Held("loaded", file)]
  /\ UNCHANGED <<file, unheard, channel, gateway, crossed, late, authVars>>

IsLate(l, part) ==
  late' = IF l # Watcher /\ load[l].conf # file THEN late \cup {part} ELSE late \ {part}
Telling(l) == load[l].pc = "telling"

\* Wrong on purpose: the windows start again with every reload.
ReloadAuthAfresh(l) ==
  /\ load[l].pc = "loaded"
  /\ ReplaceAndForget(load[l].conf)
  /\ load' = [load EXCEPT ![l] = Held("telling", load[l].conf)]
  /\ crossed' = (\E k \in Loaders : Telling(k))
  /\ IsLate(l, "auth")
  /\ UNCHANGED <<file, unheard, channel, gateway>>

\* auth.reload
ReloadAuth(l) ==
  /\ load[l].pc = "loaded"
  /\ Replace(load[l].conf)
  /\ load' = [load EXCEPT ![l] = Held("telling", load[l].conf)]
  /\ crossed' = (\E k \in Loaders : Telling(k))
  /\ IsLate(l, "auth")
  /\ UNCHANGED <<file, unheard, channel, gateway>>

\* Wrong on purpose: the file is read once more for the gateway.
ReloadGatewayFromFile(l) ==
  /\ Telling(l)
  /\ gateway' = IF file = Broken THEN gateway ELSE file
  /\ load' = [load EXCEPT ![l] = NoLoad]
  /\ IsLate(l, "gateway")
  /\ UNCHANGED <<file, unheard, channel, crossed, authVars>>

\* Wrong on purpose: the channel is emptied at the end of the reload.
ReloadGatewayAndDrain(l) ==
  /\ Telling(l)
  /\ gateway' = load[l].conf
  /\ load' = [load EXCEPT ![l] = NoLoad]
  /\ channel' = FALSE
  /\ IsLate(l, "gateway")
  /\ UNCHANGED <<file, unheard, crossed, authVars>>

\* gateway.ask(ReloadConfig): the gateway handles it and answers.
ReloadGateway(l) ==
  /\ Telling(l)
  /\ gateway' = load[l].conf
  /\ load' = [load EXCEPT ![l] = NoLoad]
  /\ IsLate(l, "gateway")
  /\ UNCHANGED <<file, unheard, channel, crossed, authVars>>

Next ==
  \/ \E f \in Configs \cup {Broken} : Edit(f)
  \/ Notify \/ Wake \/ Settle
  \/ \E b \in Buttons : Press(b)
  \/ \E l \in Loaders : Read(l) \/ ReloadAuth(l) \/ ReloadGateway(l)
  \/ (Serve \/ Tick) /\ UNCHANGED reloadVars

Spec == Init /\ [][Next]_vars

(* The system reports changes, and the runtime runs the watcher's and the  *)
(* buttons' tasks; nobody has to edit, press or send requests.             *)
Fairness ==
  /\ WF_vars(Notify) /\ WF_vars(Wake) /\ WF_vars(Settle)
  /\ \A l \in Loaders : WF_vars(Read(l) \/ ReloadAuth(l) \/ ReloadGateway(l))
FairSpec == Spec /\ Fairness
-----------------------------------------------------------------------------
(* Authentication and gateway are reloaded one after the other: unless two *)
(* reloads crossed, they hold the same configuration whenever no reload is *)
(* between the two.                                                        *)
InStep ==
  ~crossed /\ (\A l \in Loaders : ~Telling(l)) => manager = gateway

(* No change is lost between the notification, the pause and the read:     *)
(* once the file stays as it is and the buttons have come to rest, its     *)
(* content is in force in both places, unless the last to reload one of    *)
(* them was a button press that had read the file before its last change.  *)
Converges ==
  \A c \in Configs :
    <>[](file = c /\ late = {} /\ \A b \in Buttons : load[b] = NoLoad)
      => <>[](manager = c /\ gateway = c)

(* To requests a reload looks as Auth.tla says: the manager changes in one *)
(* step and the windows stay.                                              *)
ImplementsAuth == AuthSpec
=============================================================================
