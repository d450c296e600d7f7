----------------------------- MODULE HostSetup -----------------------------
(***************************************************************************)
(* The life of the program that prepares the host, network_setup.main or   *)
(* entrypoint.main: it is started, runs its setup, serves, and is          *)
(* stopped by a signal, by its own exits or by being killed, over several  *)
(* starts and changes of its configuration.  The iptables rules and the    *)
(* libs/ directory outlive it.                                             *)
(*                                                                         *)
(* One step is one external command.  A signal handler runs in the middle  *)
(* of the command the main thread waits for: that command is "in flight"   *)
(* and may still take effect while the handler already cleans up.          *)
(***************************************************************************)
EXTENDS NetworkRules

CONSTANTS
  Programs,     \* which of "network" and "entry" may be deployed
  Configs,      \* configurations: [devices, relay, lanOnly]
  MaxStarts,    \* bound: starts of the program
  MaxSignals    \* bound: SIGTERM and SIGINT delivered to handlers

Devices == UNION {ToSet(c.devices) : c \in Configs}

\* The rules that a chain may hold.
RulesFor(c) ==
  IF c = "dnat" THEN Devices \X {k.relay : k \in Configs} ELSE ToSet(BlockRules)

ASSUME ProgramsAssumption == Programs \subseteq {"network", "entry"}
ASSUME ConfigsAssumption  ==
  \A c \in Configs : /\ c.devices \in Seq(Devices) /\ Len(c.devices) > 0
                     /\ c.lanOnly \in BOOLEAN
ASSUME NoChainAssumption  == \A c \in Chains : NoChain \notin Seq(RulesFor(c))
ASSUME BoundsAssumption   == MaxStarts \in Nat \ {0} /\ MaxSignals \in Nat

VARIABLES
  program,      \* the deployed program
  config,       \* the environment it was last started with
  phase,        \* what its main thread does: "down", "setup", "running", in a
                \* handler ("stopping", "timeout") or in the cleanup after
                \* it ("again")
  todo,         \* commands the running script still has to run
  flight,       \* commands of interrupted frames that may still take effect
  exit,         \* how the last run ended: "stopped" by a signal, "raised",
                \* "failed", "unexpected", "killed" or "never"
  tables,       \* the host's iptables rules
  libs,         \* what setup_libs has produced: shims, copied and patched files
  binaries,     \* what build_bridge has linked
  relay,        \* the relay process is alive
  go2rtc,       \* the go2rtc process is alive
  starts,
  signals

hostVars == <<tables, libs, binaries>>
kidVars  == <<relay, go2rtc>>
vars == <<program, config, phase, todo, flight, exit, hostVars, kidVars, starts, signals>>

SdkLibs  == {"libiotp2pav.so", "libmbedtls.so"}
Shims    == <<"compiled", "shims">>
Binaries == {"bridge", "bridge-daemon"}

Init ==
  /\ program \in Programs
  /\ config \in Configs
  /\ phase = "down" /\ todo = <<>> /\ flight = {} /\ exit = "never"
  /\ tables = EmptyTables(Devices)
  /\ libs = {} /\ binaries = {}
  /\ relay = FALSE /\ go2rtc = FALSE
  /\ starts = 0 /\ signals = 0

-----------------------------------------------------------------------------
(* The scripts of the two programs                                         *)

start_dns_intercept(devices) == setup_dns_iptables(devices)

network_main(c) == start_dns_intercept(c.devices) \o setup_iptables_dnat(c.relay, c.devices)

PatchLib(l) == << <<"make", <<"copied", l>> >>, <<"make", <<"patched", l>> >> >>

\* The test for "already set up" is the presence of the first library.
setup_libs_ShimsLast(have) ==      \* mutant: the shims are compiled after the libraries
  IF <<"copied", "libiotp2pav.so">> \in have THEN <<>>
  ELSE << <<"rmtree">> >> \o PatchLib("libiotp2pav.so") \o PatchLib("libmbedtls.so")
         \o << <<"make", Shims>> >>
setup_libs(have) ==
  IF <<"copied", "libiotp2pav.so">> \in have THEN <<>>
  ELSE << <<"rmtree">>, <<"make", Shims>> >>
         \o PatchLib("libiotp2pav.so") \o PatchLib("libmbedtls.so")

build_bridge(have) ==
  IF Binaries \subseteq have THEN <<>>
  ELSE << <<"ninja", "bridge">>, <<"ninja", "bridge-daemon">> >>

\* setup_doorbell_dnat and setup_lan_only_firewall ask for LAN_ONLY.
lan_only_rules(c) ==
  IF c.lanOnly THEN setup_iptables_dnat(c.relay, <<c.devices[1]>>) \o setup_lan_only_firewall
  ELSE <<>>

entry_main(c) ==
  setup_libs(libs) \o build_bridge(binaries) \o lan_only_rules(c)
    \o << <<"start_relay">>, <<"start_go2rtc">> >>

Start ==
  /\ phase = "down" /\ starts < MaxStarts
  /\ \E c \in Configs :
       /\ config' = c
       /\ todo' = IF program = "network" THEN network_main(c) ELSE entry_main(c)
  /\ phase' = "setup"
  /\ starts' = starts + 1
  /\ UNCHANGED <<program, flight, exit, hostVars, kidVars, signals>>

-----------------------------------------------------------------------------
(* Steps of the main thread                                                *)

\* The container goes with its main process, and every process in it.
GoDown(how) ==
  /\ phase' = "down" /\ exit' = how
  /\ todo' = <<>> /\ flight' = {}
  /\ relay' = FALSE /\ go2rtc' = FALSE
  /\ UNCHANGED <<program, config, tables, libs, binaries, starts, signals>>

Working == phase \in {"setup", "stopping", "again"}

RunCommand ==
  /\ Working /\ todo # <<>>
  /\ LET cmd == Head(todo) IN
     /\ todo' = Tail(todo)
     /\ tables' = IF cmd[1] \in TableCommands THEN Apply(tables, cmd) ELSE tables
     /\ libs' = CASE cmd[1] = "rmtree" -> {}
                  [] cmd[1] = "make" -> libs \cup {cmd[2]}
                  [] OTHER -> libs
     /\ binaries' = IF cmd[1] = "ninja" THEN binaries \cup {cmd[2]} ELSE binaries
     /\ relay' \in IF cmd[1] = "start_relay" THEN BOOLEAN ELSE {relay}
     /\ go2rtc' = (go2rtc \/ cmd[1] = "start_go2rtc")
  /\ UNCHANGED <<program, config, phase, flight, exit, starts, signals>>

\* entrypoint.run: a tool that fails ends the program.
ToolFails ==
  /\ phase = "setup" /\ todo # <<>>
  /\ Head(todo)[1] \in {"make", "ninja"}
  /\ GoDown("failed")

\* The network program installs its signal handlers and sleeps; the entry
\* program enters go2rtc_proc.wait().
SetupDone ==
  /\ phase = "setup" /\ todo = <<>>
  /\ phase' = "running"
  /\ UNCHANGED <<program, config, todo, flight, exit, hostVars, kidVars, starts, signals>>

\* A cleanup script is through and calls sys.exit(): in network_main the
\* SystemExit is caught once and starts the cleanup again.
CleanupDone_Loops ==               \* mutant: the exit in the except clause is caught as well
  /\ phase \in {"stopping", "again"} /\ todo = <<>>
  /\ IF program = "network"
     THEN /\ phase' = "again"
          /\ todo' = cleanup_on_exit(config.devices)
          /\ flight' = {}
          /\ UNCHANGED <<program, config, exit, hostVars, kidVars, starts, signals>>
     ELSE GoDown("stopped")
CleanupDone ==
  /\ phase \in {"stopping", "again"} /\ todo = <<>>
  /\ IF program = "network" /\ phase = "stopping"
     THEN /\ phase' = "again"
          /\ todo' = cleanup_on_exit(config.devices)
          /\ flight' = {}
          /\ UNCHANGED <<program, config, exit, hostVars, kidVars, starts, signals>>
     ELSE GoDown("stopped")

-----------------------------------------------------------------------------
(* Signals                                                                 *)

InFlight == IF todo = <<>> THEN {{}} ELSE {{}, {c \in {Head(todo)} : c[1] \in TableCommands}}

Interrupted(script) ==
  /\ todo' = script
  /\ \E f \in InFlight : flight' = flight \cup f
  /\ signals' = signals + 1

\* cleanup_on_exit as handler, also of a signal that arrives while it runs.
NetworkSignal ==
  /\ program = "network"
  /\ phase \in {"running", "stopping", "again"}
  /\ signals < MaxSignals
  /\ phase' = IF phase = "again" THEN "again" ELSE "stopping"
  /\ Interrupted(cleanup_on_exit(config.devices))
  /\ UNCHANGED <<program, config, exit, hostVars, kidVars, starts>>

\* entrypoint.shutdown while main still sets up: go2rtc, if just started, is
\* stopped; the global relay_proc is None, so the relay is not.
shutdown_InSetup ==
  /\ program = "entry" /\ phase = "setup"
  /\ signals < MaxSignals
  /\ phase' = "stopping"
  /\ go2rtc' = FALSE
  /\ Interrupted(cleanup_all_iptables(<<>>))
  /\ UNCHANGED <<program, config, exit, hostVars, relay, starts>>

\* shutdown while main is inside go2rtc_proc.wait(): the interrupted frame
\* holds the lock of the Popen object, so both timed waits of the handler
\* expire although go2rtc has gone, and the second one is not caught.
shutdown_InWait ==
  /\ program = "entry" /\ phase = "running"
  /\ signals < MaxSignals
  /\ phase' = "timeout"
  /\ go2rtc' = FALSE
  /\ signals' = signals + 1
  /\ UNCHANGED <<program, config, todo, flight, exit, hostVars, relay, starts>>

TimeoutExpired == phase = "timeout" /\ GoDown("raised")

-----------------------------------------------------------------------------
(* The environment                                                         *)

FlightLands ==
  \E cmd \in flight :
    /\ tables' = Apply(tables, cmd)
    /\ flight' = flight \ {cmd}
    /\ UNCHANGED <<program, config, phase, todo, exit, libs, binaries, kidVars, starts, signals>>

\* go2rtc ends by itself: main stops the relay and exits.
Go2rtcExits == program = "entry" /\ phase = "running" /\ GoDown("unexpected")

\* SIGKILL, or a signal before network_main has installed its handlers.
Killed == phase # "down" /\ GoDown("killed")

Next ==
  \/ Start \/ RunCommand \/ ToolFails \/ SetupDone \/ CleanupDone
  \/ NetworkSignal \/ shutdown_InSetup \/ shutdown_InWait \/ TimeoutExpired
  \/ FlightLands \/ Go2rtcExits \/ Killed

Spec == Init /\ [][Next]_vars

\* The main thread goes on as long as it is not killed.
FairSpec == Spec /\ WF_vars(RunCommand) /\ WF_vars(SetupDone) /\ WF_vars(CleanupDone)
                 /\ WF_vars(TimeoutExpired)

-----------------------------------------------------------------------------
(* Properties                                                              *)

Clean(t) == t = EmptyTables(Devices)

\* The devices whose Mars traffic the deployed program redirects.
Redirected(c) == IF program = "network" THEN c.devices ELSE <<c.devices[1]>>

Installed(c, rules) == tables.jump[c] = 1 /\ tables.body[c] = rules

\* Whatever killed or reconfigured runs have left behind, a completed setup
\* (network_setup.py 122-148, 381-402, 450-488) leaves exactly its own rules:
\* one jump, no rule of an older configuration, one REDIRECT per device.
SetupReplaces ==
  phase = "running" =>
    /\ program = "network" =>
         /\ Installed("dnat", DnatRules(Redirected(config), config.relay))
         /\ \A d \in ToSet(config.devices) : tables.redirect[d] = 1
    /\ program = "entry" /\ config.lanOnly =>
         /\ Installed("dnat", DnatRules(Redirected(config), config.relay))
         /\ Installed("block", BlockRules)

\* Packets never meet half of a rule set: a chain that a hook jumps to is
\* empty or complete, in every interleaving of setups, cleanups and kills.
LiveChainsComplete ==
  /\ tables.jump["dnat"] > 0 =>
       tables.body["dnat"] \in {<<>>} \cup {DnatRules(Redirected(c), c.relay) : c \in Configs}
  /\ tables.jump["block"] > 0 => tables.body["block"] \in {<<>>, BlockRules}

\* The network program that ends by its handler (516-529) has removed every
\* rule of its devices, however many signals interrupted its cleanup.
NetworkExitCleans ==
  program = "network" /\ exit = "stopped" /\ phase = "down" =>
    /\ tables.jump["dnat"] = 0 /\ tables.body["dnat"] = NoChain
    /\ \A d \in ToSet(config.devices) : tables.redirect[d] = 0

\* A shutdown that interrupts the setup of the entry program (491-513) leaves
\* no rule in effect, even if the command it interrupted takes effect in the
\* middle of the cleanup.
EarlyShutdownDisarms ==
  program = "entry" /\ exit = "stopped" /\ phase = "down" =>
    \A c \in Chains : tables.jump[c] = 0 \/ tables.body[c] \in {NoChain, <<>>}

\* go2rtc, which starts the bridge, is started only with both binaries and the
\* shims, whatever earlier runs were cut short, and on a first start with both
\* SDK libraries copied and patched (entrypoint.py 125-205).  A later start may
\* find a library copied but not patched and takes it for done.
LaunchedComplete ==
  go2rtc =>
    /\ binaries = Binaries /\ Shims \in libs
    /\ exit = "never" => {"copied", "patched"} \X SdkLibs \subseteq libs

\* A signal that reaches a handler ends the program, whatever other signals
\* arrive (network_setup.py 592-600, entrypoint.py 208-239).
SignalEnds == phase \in {"stopping", "again", "timeout"} ~> phase = "down"

\* Claimed in shutdown() ("Clean up iptables rules", entrypoint.py 235, "Relay
\* stopped.", 231), violated: a signal handled to its end leaves no rules.
ShutdownCleans ==
  program = "entry" /\ exit = "raised" /\ phase = "down" /\ config.lanOnly =>
    Clean(tables)
=============================================================================
