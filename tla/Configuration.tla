--------------------------- MODULE Configuration ---------------------------
(***************************************************************************)
(* Config.cpp: what the program is told on its command line and in its     *)
(* configuration file, and the configuration that it makes of them.        *)
(*                                                                         *)
(* A source is a function from the options that it gives to their values.  *)
(* What the values mean to the rest of the program is not told apart; an   *)
(* option that is a mere switch has the value TRUE.                        *)
(***************************************************************************)
EXTENDS Sequences

\* The options for the command line only are switches.
Generic == {"help", "version", "live-view", "monitor"}

Startup == {"startup.live-view", "startup.monitor"}
Lists == {"whatsapp.dest", "mail.dest"}          \* composing
Others == {"startup.monitor-timeout", "recording.archive-dir", "recording.max-days",
           "log.level", "log.dir", "whatsapp.cc", "whatsapp.src", "whatsapp.pwd",
           "dropbox.appkey", "dropbox.appsecret", "dropbox.oauth-token",
           "dropbox.oauth-secret", "live-view.socket-address",
           "live-view.inactivity-timeout", "query.socket-address", "mail.sender"}

InConfigFile == Startup \cup Lists \cup Others
OnCmdLine == Generic \cup InConfigFile

\* A source is refused, by an exception, if it gives an option unknown there.
Accepted(source, options) == DOMAIN source \subseteq options

\* po::store: what is stored already stays; a composing option grows.
Store(vm, source) ==
  [o \in DOMAIN vm \cup DOMAIN source |->
     IF o \notin DOMAIN vm THEN source[o]
     ELSE IF o \in Lists \cap DOMAIN source THEN vm[o] \o source[o]
     ELSE vm[o]]

CanContinue(vm) == {"help", "version"} \cap DOMAIN vm = {}

\* The defaults that decide something here; all others are just "default".
Default(o) ==
  CASE o = "startup.live-view" -> FALSE
    [] o = "startup.monitor" -> TRUE
    [] o \in Lists -> <<>>
    [] OTHER -> "default"

StoreOptionOrDefault(vm, o) == IF o \in DOMAIN vm THEN vm[o] ELSE Default(o)

\* The switches decide between the live view and the monitoring, live-view
\* before monitor.
GetConfiguration(vm) ==
  [o \in InConfigFile |->
     CASE o \in Startup /\ "live-view" \in DOMAIN vm -> o = "startup.live-view"
       [] o \in Startup /\ "live-view" \notin DOMAIN vm /\ "monitor" \in DOMAIN vm
            -> o = "startup.monitor"
       [] OTHER -> StoreOptionOrDefault(vm, o)]
=============================================================================
