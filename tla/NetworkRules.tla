---------------------------- MODULE NetworkRules ----------------------------
(***************************************************************************)
(* The iptables rules of the bridge (src/src/network/network_setup.py):    *)
(* two chains of its own, WYZE_DNAT hooked into PREROUTING and             *)
(* WYZE_BLOCK_RELAY hooked into OUTPUT, and one DNS REDIRECT rule per      *)
(* device.                                                                 *)
(*                                                                         *)
(* A function that runs iptables several times is a script, the sequence   *)
(* of its commands; Apply is what the kernel does with one of them.  The   *)
(* rules of one device for all Mars addresses and ports are one rule here. *)
(***************************************************************************)
EXTENDS Naturals, Sequences, SequencesExt

CONSTANT NoChain   \* a chain that does not exist

Chains == {"dnat", "block"}

\* jump: rules that lead from the hook into a chain; redirect: DNS rules.
EmptyTables(Devices) ==
  [jump |-> [c \in Chains |-> 0],
   body |-> [c \in Chains |-> NoChain],
   redirect |-> [d \in Devices |-> 0]]

Exists(t, c) == t.body[c] # NoChain

\* One iptables command.  -D takes away one matching rule, -X works on an
\* empty chain that nothing jumps to, -N on a missing one; a command that
\* does not apply fails and changes nothing (run() ignores the exit code).
Apply(t, cmd) ==
  LET c == cmd[2] IN
  CASE cmd[1] = "-D" /\ t.jump[c] > 0 -> [t EXCEPT !.jump[c] = @ - 1]
    [] cmd[1] = "-F" /\ Exists(t, c) -> [t EXCEPT !.body[c] = <<>>]
    [] cmd[1] = "-X" /\ t.body[c] = <<>> /\ t.jump[c] = 0 -> [t EXCEPT !.body[c] = NoChain]
    [] cmd[1] = "-N" /\ ~ Exists(t, c) -> [t EXCEPT !.body[c] = <<>>]
    [] cmd[1] = "-A" /\ Exists(t, c) -> [t EXCEPT !.body[c] = Append(@, cmd[3])]
    [] cmd[1] = "-I" /\ Exists(t, c) -> [t EXCEPT !.jump[c] = @ + 1]
    [] cmd[1] = "dns-D" /\ t.redirect[c] > 0 -> [t EXCEPT !.redirect[c] = @ - 1]
    [] cmd[1] = "dns-A" -> [t EXCEPT !.redirect[c] = @ + 1]
    [] OTHER -> t

TableCommands == {"-D", "-F", "-X", "-N", "-A", "-I", "dns-D", "dns-A"}

-----------------------------------------------------------------------------
(* The scripts                                                             *)

DropChain_KeepsRules(c) == << <<"-D", c>>, <<"-X", c>> >>   \* mutant: -F is forgotten
DropChain(c) == << <<"-D", c>>, <<"-F", c>>, <<"-X", c>> >>

DnatRules(devices, relay) == [i \in DOMAIN devices |-> <<devices[i], relay>>]
BlockRules == <<"lan_signaling_https_dns_RETURN", "tcp_REJECT">>

Fill(c, rules) == [i \in DOMAIN rules |-> <<"-A", c, rules[i]>>]

MakeChain_JumpFirst(c, rules) ==   \* mutant: the jump is inserted before the rules
  DropChain(c) \o << <<"-N", c>>, <<"-I", c>> >> \o Fill(c, rules)
MakeChain(c, rules) ==
  DropChain(c) \o << <<"-N", c>> >> \o Fill(c, rules) \o << <<"-I", c>> >>

setup_iptables_dnat(relay, devices) == MakeChain("dnat", DnatRules(devices, relay))

setup_lan_only_firewall == MakeChain("block", BlockRules)

setup_dns_iptables_Doubles(devices) ==   \* mutant: an existing rule is not removed first
  [i \in DOMAIN devices |-> <<"dns-A", devices[i]>>]
setup_dns_iptables(devices) ==
  [k \in 1 .. 2 * Len(devices) |->
     <<IF k % 2 = 1 THEN "dns-D" ELSE "dns-A", devices[(k + 1) \div 2]>>]

cleanup_dns_iptables(devices) == [i \in DOMAIN devices |-> <<"dns-D", devices[i]>>]

\* Called by entrypoint.cleanup_iptables() without devices.
cleanup_all_iptables(devices) ==
  DropChain("dnat") \o DropChain("block") \o cleanup_dns_iptables(devices)

cleanup_on_exit_NoDns(devices) == DropChain("dnat")   \* mutant: the DNS rules stay
cleanup_on_exit(devices) == cleanup_dns_iptables(devices) \o DropChain("dnat")
=============================================================================
