------------------------------ MODULE Signals ------------------------------
(***************************************************************************)
(* main.cpp, SignalHandler.cpp and PosixSignalHandler.cpp: the commands    *)
(* reach the Antifurto of module Antifurto as signals.  The handler of a   *)
(* signal raises a flag, on whatever thread; the main thread looks at the  *)
(* flags in the order of the signals' numbers, lowers the one that it      *)
(* finds up and obeys, until SIGTERM or SIGINT makes it leave the loop and *)
(* destroy the Antifurto.                                                  *)
(*                                                                         *)
(* The monitoring and the termination signals are here; the live view's go *)
(* the same way, and SIGHUP has no effect but on the log.  The sources of  *)
(* the configuration do not ask for the live view either.                  *)
(***************************************************************************)
EXTENDS Antifurto, Configuration, FiniteSetsExt

CONSTANTS SIGINT, SIGUSR1, SIGUSR2, SIGTERM,    \* numbers
          CmdLines, ConfigFiles         \* what the sources may give

ASSUME SignalAssumption ==
  /\ Commands = {"startMonitoring", "stopMonitoring"}
  /\ {SIGINT, SIGUSR1, SIGUSR2, SIGTERM} \subseteq Nat
  /\ Cardinality({SIGINT, SIGUSR1, SIGUSR2, SIGTERM}) = 4
  /\ \A source \in CmdLines \cup ConfigFiles :
       /\ "live-view" \notin DOMAIN source
       /\ "startup.live-view" \in DOMAIN source => ~source["startup.live-view"]

VARIABLES
  vm,            \* vm_: the options stored
  toBeHandled,   \* the signals whose flag in signalsToBeHandled is up
  run,           \* run_
  round,         \* the signals that this round of the loop has still to look at
  at,            \* where the main thread is in main and signalHandlingLoop
  owed           \* history: signals sent that no handler has yet begun to obey

signalVars == <<vm, toBeHandled, run, round, at, owed>>
allVars == <<vars, signalVars>>

Termination == {SIGINT, SIGTERM}
Signal == Termination \cup {SIGUSR1, SIGUSR2}
This == Min(round)

SignalTypeOK ==
  /\ TypeOK
  /\ {toBeHandled, round, owed} \subseteq SUBSET Signal
  /\ run \in BOOLEAN
  /\ DOMAIN vm \subseteq OnCmdLine
  /\ at \in {"command line", "file", "construct", "built", "look", "lower", "obey", "obeying",
             "destroy", "destroying", "over"}

SignalInit ==
  /\ Init
  /\ toBeHandled = {} /\ owed = {} /\ round = {}
  /\ run = FALSE
  /\ vm = <<>>
  /\ at = "command line"
-----------------------------------------------------------------------------
ParseCmdLine ==
  /\ at = "command line"
  /\ \E source \in CmdLines :
       IF Accepted(source, OnCmdLine)
         THEN vm' = Store(vm, source) /\ at' = "file"
         ELSE at' = "over" /\ UNCHANGED vm
  /\ UNCHANGED <<vars, toBeHandled, run, round, owed>>

\* Also after --help, which then ends the program.
ParseConfigFile ==
  /\ at = "file"
  /\ \E source \in ConfigFiles :
       IF Accepted(source, InConfigFile)
         THEN /\ vm' = Store(vm, source)
              /\ at' = IF CanContinue(vm') THEN "construct" ELSE "over"
         ELSE at' = "over" /\ UNCHANGED vm
  /\ UNCHANGED <<vars, toBeHandled, run, round, owed>>

\* The constructor starts the monitoring if the configuration says so.
Construct ==
  /\ at = "construct"
  /\ IF GetConfiguration(vm)["startup.monitor"] THEN StartMonitoring ELSE UNCHANGED vars
  /\ at' = "built"
  /\ UNCHANGED vm
  /\ UNCHANGED <<toBeHandled, run, round, owed>>

EnterSignalHandlingLoop ==
  /\ at = "built" /\ pc[Main] = "idle"
  /\ run' = TRUE
  /\ round' = Signal
  /\ at' = "look"
  /\ UNCHANGED <<vars, vm, toBeHandled, owed>>

\* sigactionHandler, once it is installed.
Send(s) ==
  /\ at \notin {"command line", "file", "construct", "built", "over"}
  /\ toBeHandled' = toBeHandled \cup {s}
  /\ owed' = owed \cup {s}
  /\ UNCHANGED <<vars, vm, run, round, at>>

Look ==
  /\ at = "look" /\ round # {}
  /\ IF This \in toBeHandled
       THEN at' = "lower" /\ UNCHANGED round
       ELSE round' = round \ {This} /\ UNCHANGED at
  /\ UNCHANGED <<vars, vm, toBeHandled, run, owed>>

Lower ==
  /\ at = "lower"
  /\ toBeHandled' = toBeHandled \ {This}
  /\ at' = "obey"
  /\ UNCHANGED <<vars, vm, run, round, owed>>

\* A command that has nothing to do takes m_ and returns.
NothingToDo(active) == At(Main, "idle") /\ m = None /\ active /\ UNCHANGED vars

\* onSignal for the commands; the call goes on with Antifurto's steps.
Obey ==
  /\ at = "obey" /\ This \notin Termination
  /\ \/ This = SIGUSR1 /\ (StartMonitoring \/ NothingToDo(monitorActive))
     \/ This = SIGUSR2 /\ (StopMonitoring \/ NothingToDo(~monitorActive))
  /\ owed' = owed \ {This}
  /\ at' = "obeying"
  /\ UNCHANGED <<vm, toBeHandled, run, round>>

\* Bug: the flag is lowered when the handler has returned.
Obeyed_Bug ==
  /\ at = "obeying" /\ pc[Main] = "idle"
  /\ toBeHandled' = toBeHandled \ {This}
  /\ round' = round \ {This}
  /\ at' = "look"
  /\ UNCHANGED <<vars, vm, run, owed>>

Obeyed ==
  /\ at = "obeying" /\ pc[Main] = "idle"
  /\ round' = round \ {This}
  /\ at' = "look"
  /\ UNCHANGED <<vars, vm, toBeHandled, run, owed>>

\* leaveSignalHandlingLoop: the round goes on.
LeaveSignalHandlingLoop ==
  /\ at = "obey" /\ This \in Termination
  /\ run' = FALSE
  /\ round' = round \ {This}
  /\ at' = "look"
  /\ UNCHANGED <<vars, vm, toBeHandled, owed>>

\* The polling time passes.
EndRound ==
  /\ at = "look" /\ round = {}
  /\ IF run THEN round' = Signal /\ UNCHANGED at
            ELSE at' = "destroy" /\ UNCHANGED round
  /\ UNCHANGED <<vars, vm, toBeHandled, run, owed>>

\* ~AntifurtoImpl calls stopMonitoring; when that has returned there is no
\* future, no registration and no camera left for its members' destructors.
Destroy ==
  /\ at = "destroy"
  /\ StopMonitoring \/ NothingToDo(~monitorActive)
  /\ at' = "destroying"
  /\ UNCHANGED <<vm, toBeHandled, run, round, owed>>

Exit ==
  /\ at = "destroying" /\ pc[Main] = "idle"
  /\ starter = "invalid" /\ \A k \in Cameras : pc[k] = "off"
  /\ at' = "over"
  /\ owed' = {}
  /\ UNCHANGED <<vars, vm, toBeHandled, run, round>>

SignalStep ==
  \/ ParseCmdLine \/ ParseConfigFile
  \/ Construct \/ EnterSignalHandlingLoop
  \/ Look \/ Lower \/ Obey \/ Obeyed \/ LeaveSignalHandlingLoop \/ EndRound
  \/ Destroy \/ Exit

ThreadsStep ==
  /\ MainStep \/ Starting \/ \E k \in Cameras : CameraStep(k)
  /\ UNCHANGED signalVars

SignalNext ==
  \/ SignalStep
  \/ \E s \in Signal : Send(s)
  \/ ThreadsStep

SignalSpec == SignalInit /\ [][SignalNext]_allVars

\* The main thread goes on with its loop, and sleeps for a bounded time only.
FairSignalSpec ==
  /\ SignalSpec
  /\ WF_vars(MainStep) /\ SF_vars(Starting)
  /\ \A k \in Cameras : WF_vars(CameraStep(k))
  /\ WF_allVars(SignalStep)
-----------------------------------------------------------------------------
\* A signal that comes while the loop is at its flag, or obeys one of its
\* kind, is obeyed by a run of the handler that begins afterwards
\* (signalHandlingLoop lowers the flag first).
NoSignalLost == owed \subseteq toBeHandled
  \cup (IF at = "obey" THEN {This} ELSE {})
  \cup (IF run THEN {} ELSE Termination)

\* Every signal is obeyed: a command by its handler, and SIGTERM or SIGINT by
\* the end of the program, with no thread left behind; commands that keep coming and
\* those that wait for the starter hold none of them up for good.
SignalsObeyed ==
  \A s \in Signal : s \in owed ~> (s \notin owed \/ failure # "none")
=============================================================================
