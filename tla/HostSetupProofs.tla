-------------------------- MODULE HostSetupProofs ---------------------------
(* What the host is left with, for all configurations, devices and numbers  *)
(* of starts and signals: every command that a script still has to run has  *)
(* its place, counted from the end of the script, and what a chain or the   *)
(* DNS rules look like depends only on how many of their commands are left. *)
EXTENDS HostSetup, ListLemmas

USE ProgramsAssumption, BoundsAssumption

ChainCommands == {"-D", "-F", "-X", "-N", "-A", "-I"}
DnsCommands   == {"dns-D", "dns-A"}
Kinds         == Chains \cup {"dns"}

AllRules == UNION {RulesFor(c) : c \in Chains}
Items    == {Shims} \cup {"copied", "patched"} \X SdkLibs
Tools    == ({"make"} \X Items) \cup ({"ninja"} \X Binaries)
              \cup {<<"rmtree">>, <<"start_relay">>, <<"start_go2rtc">>}
Commands ==
  ({"-D", "-F", "-X", "-N", "-I"} \X Chains) \cup ({"-A"} \X Chains \X AllRules)
    \cup (DnsCommands \X Devices) \cup Tools

\* The commands about a chain, or about the DNS rules.
About(cmd, k) ==
  IF k = "dns" THEN cmd[1] \in DnsCommands ELSE cmd[1] \in ChainCommands /\ cmd[2] = k

\* What the commands are given.
LEMMA CommandKinds ==
  /\ Tools \subseteq Commands
  /\ \A cmd \in Tools : cmd[1] \notin ChainCommands \cup DnsCommands
  /\ \A cmd \in Commands :
       /\ cmd[1] \in ChainCommands => /\ cmd[2] \in Chains
                                      /\ cmd[1] = "-A" => cmd[3] \in AllRules
       /\ cmd[1] \in DnsCommands => cmd[2] \in Devices
<1>1. Tools \subseteq Commands
  BY DEF Commands
<1>2. ASSUME NEW cmd \in Tools PROVE cmd[1] \notin ChainCommands \cup DnsCommands
  <2>1. CASE cmd \in {"make"} \X Items
    <3>1. cmd[1] = "make"
      BY <2>1
    <3> QED BY <3>1 DEF ChainCommands, DnsCommands
  <2>2. CASE cmd \in {"ninja"} \X Binaries
    <3>1. cmd[1] = "ninja"
      BY <2>2
    <3> QED BY <3>1 DEF ChainCommands, DnsCommands
  <2>3. CASE cmd = <<"rmtree">>
    BY <2>3 DEF ChainCommands, DnsCommands
  <2>4. CASE cmd = <<"start_relay">>
    BY <2>4 DEF ChainCommands, DnsCommands
  <2>5. CASE cmd = <<"start_go2rtc">>
    BY <2>5 DEF ChainCommands, DnsCommands
  <2> QED BY <2>1, <2>2, <2>3, <2>4, <2>5 DEF Tools
<1>3. ASSUME NEW cmd \in Commands
      PROVE  /\ cmd[1] \in ChainCommands => /\ cmd[2] \in Chains
                                            /\ cmd[1] = "-A" => cmd[3] \in AllRules
             /\ cmd[1] \in DnsCommands => cmd[2] \in Devices
  <2>1. CASE cmd \in {"-D", "-F", "-X", "-N", "-I"} \X Chains
    <3>1. cmd[1] \in {"-D", "-F", "-X", "-N", "-I"} /\ cmd[2] \in Chains
      BY <2>1
    <3> QED BY <3>1 DEF DnsCommands
  <2>2. CASE cmd \in {"-A"} \X Chains \X AllRules
    <3>1. cmd[1] = "-A" /\ cmd[2] \in Chains /\ cmd[3] \in AllRules
      BY <2>2
    <3> QED BY <3>1 DEF DnsCommands
  <2>3. CASE cmd \in DnsCommands \X Devices
    <3>1. cmd[1] \in DnsCommands /\ cmd[2] \in Devices
      BY <2>3
    <3> QED BY <3>1 DEF DnsCommands, ChainCommands
  <2>4. CASE cmd \in Tools
    BY <1>2, <2>4
  <2> QED BY <2>1, <2>2, <2>3, <2>4 DEF Commands
<1> QED BY <1>1, <1>2, <1>3

-----------------------------------------------------------------------------
(* Scripts, counted from the end                                           *)

FromEnd(s, j) == s[Len(s) + 1 - j]

Avoids(s, k) == \A j \in 1 .. Len(s) : ~ About(FromEnd(s, j), k)

\* The commands about k that the rest s of a script has are the end of the part
\* seg of the script, which "after" commands follow.
Left(s, k, after, seg) ==
  \A j \in 1 .. Len(s) :
    IF j > after /\ j <= after + Len(seg) THEN FromEnd(s, j) = FromEnd(seg, j - after)
                                          ELSE ~ About(FromEnd(s, j), k)

\* Running a command leaves the places of the others.
LEMMA TailFromEnd ==
  ASSUME NEW S, NEW s \in Seq(S), s # <<>>
  PROVE  /\ Len(s) \in Nat \ {0} /\ Head(s) = FromEnd(s, Len(s)) /\ Head(s) \in S
         /\ Tail(s) \in Seq(S) /\ Len(Tail(s)) = Len(s) - 1
         /\ \A j \in 1 .. Len(s) - 1 : FromEnd(Tail(s), j) = FromEnd(s, j)
         /\ \A i \in 1 .. Len(s) - 1 : Tail(s)[i] = s[i + 1]
<1>1. /\ Len(s) \in Nat \ {0} /\ Tail(s) \in Seq(S) /\ Len(Tail(s)) = Len(s) - 1
      /\ \A i \in 1 .. Len(s) - 1 : Tail(s)[i] = s[i + 1]
      /\ Head(s) = s[1] /\ Head(s) \in S
  BY HeadTailProperties, EmptySeq, LenProperties, ElementOfSeq
<1>2. Head(s) = FromEnd(s, Len(s))
  BY <1>1 DEF FromEnd
<1>3. \A j \in 1 .. Len(s) - 1 : FromEnd(Tail(s), j) = FromEnd(s, j)
  BY <1>1 DEF FromEnd
<1> QED BY <1>1, <1>2, <1>3

\* Two scripts in a row, counted from the end: the second one's commands come first.
LEMMA ConcatFromEnd ==
  ASSUME NEW S, NEW a \in Seq(S), NEW b \in Seq(S)
  PROVE  /\ a \o b \in Seq(S) /\ Len(a) \in Nat /\ Len(b) \in Nat
         /\ Len(a \o b) = Len(a) + Len(b)
         /\ \A j \in 1 .. Len(a) + Len(b) :
              FromEnd(a \o b, j) = IF j <= Len(b) THEN FromEnd(b, j) ELSE FromEnd(a, j - Len(b))
<1>1. /\ a \o b \in Seq(S) /\ Len(a) \in Nat /\ Len(b) \in Nat
      /\ Len(a \o b) = Len(a) + Len(b)
      /\ \A i \in 1 .. Len(a) + Len(b) :
           (a \o b)[i] = IF i <= Len(a) THEN a[i] ELSE b[i - Len(a)]
  BY ConcatProperties, LenProperties
<1>2. ASSUME NEW j \in 1 .. Len(a) + Len(b)
      PROVE  FromEnd(a \o b, j) = IF j <= Len(b) THEN FromEnd(b, j) ELSE FromEnd(a, j - Len(b))
  <2> DEFINE i == Len(a) + Len(b) + 1 - j
  <2>1. i \in 1 .. Len(a) + Len(b) /\ FromEnd(a \o b, j) = (a \o b)[i]
    BY <1>1 DEF FromEnd
  <2>2. FromEnd(a \o b, j) = IF i <= Len(a) THEN a[i] ELSE b[i - Len(a)]
    BY <1>1, <2>1
  <2>3. CASE j <= Len(b)
    <3>1. ~ (i <= Len(a)) /\ i - Len(a) = Len(b) + 1 - j
      BY <1>1, <2>3
    <3> QED BY <2>2, <2>3, <3>1 DEF FromEnd
  <2>4. CASE ~ (j <= Len(b))
    <3>1. i <= Len(a) /\ i = Len(a) + 1 - (j - Len(b))
      BY <1>1, <2>4
    <3> QED BY <2>2, <2>4, <3>1 DEF FromEnd
  <2> QED BY <2>3, <2>4
<1> QED BY <1>1, <1>2

\* Commands that are not about k before and after a script.
LEMMA LeftConcat ==
  ASSUME NEW S, NEW a \in Seq(S), NEW b \in Seq(S), NEW k, NEW after \in Nat,
         NEW seg \in Seq(S)
  PROVE  /\ Left(a, k, after, seg) /\ Avoids(b, k) => Left(a \o b, k, after + Len(b), seg)
         /\ Left(b, k, after, seg) /\ Avoids(a, k) /\ Len(b) >= after + Len(seg)
              => Left(a \o b, k, after, seg)
         /\ Avoids(a, k) /\ Avoids(b, k) => Avoids(a \o b, k)
<1>1. PICK m \in Nat, n \in Nat, p \in Nat : m = Len(a) /\ n = Len(b) /\ p = Len(seg)
  BY LenProperties
<1>2. /\ Len(a \o b) = m + n
      /\ \A j \in 1 .. m + n :
           FromEnd(a \o b, j) = IF j <= n THEN FromEnd(b, j) ELSE FromEnd(a, j - n)
  BY <1>1, ConcatFromEnd
<1>3. Avoids(a, k) /\ Avoids(b, k) => Avoids(a \o b, k)
  BY <1>1, <1>2 DEF Avoids
<1>4. ASSUME Left(a, k, after, seg), Avoids(b, k) PROVE Left(a \o b, k, after + n, seg)
  <2> SUFFICES ASSUME NEW j \in 1 .. m + n
               PROVE  IF j > after + n /\ j <= after + n + p
                      THEN FromEnd(a \o b, j) = FromEnd(seg, j - (after + n))
                      ELSE ~ About(FromEnd(a \o b, j), k)
    BY <1>1, <1>2 DEF Left
  <2>1. CASE j <= n
    BY <1>1, <1>2, <1>4, <2>1 DEF Avoids
  <2>2. CASE ~ (j <= n)
    <3>1. PICK i \in 1 .. m : i = j - n
      <4>1. j \in Nat /\ j - n \in 1 .. m
        BY <1>1, <2>2
      <4> QED BY <4>1
    <3>2. FromEnd(a \o b, j) = FromEnd(a, i)
      BY <1>2, <2>2, <3>1
    <3>3. IF i > after /\ i <= after + p THEN FromEnd(a, i) = FromEnd(seg, i - after)
                                         ELSE ~ About(FromEnd(a, i), k)
      BY <1>1, <1>4, <3>1 DEF Left
    <3>4. /\ j - (after + n) = i - after
          /\ (j > after + n /\ j <= after + n + p) <=> (i > after /\ i <= after + p)
      BY <1>1, <3>1
    <3> QED BY <3>2, <3>3, <3>4
  <2> QED BY <2>1, <2>2
<1>5. ASSUME Left(b, k, after, seg), Avoids(a, k), n >= after + p PROVE Left(a \o b, k, after, seg)
  <2> SUFFICES ASSUME NEW j \in 1 .. m + n
               PROVE  IF j > after /\ j <= after + p
                      THEN FromEnd(a \o b, j) = FromEnd(seg, j - after)
                      ELSE ~ About(FromEnd(a \o b, j), k)
    BY <1>1, <1>2 DEF Left
  <2>1. CASE j <= n
    BY <1>1, <1>2, <1>5, <2>1 DEF Left
  <2>2. CASE ~ (j <= n)
    BY <1>1, <1>2, <1>5, <2>2 DEF Avoids
  <2> QED BY <2>1, <2>2
<1> QED BY <1>1, <1>3, <1>4, <1>5

\* A script that is all about k, and one that is not about k at all.
LEMMA LeftWhole ==
  ASSUME NEW S, NEW s \in Seq(S), NEW k
  PROVE  /\ Left(s, k, 0, s)
         /\ Avoids(s, k) => \A after \in Nat : Left(s, k, after, <<>>)
<1>1. Len(s) \in Nat /\ Len(<<>>) = 0
  BY LenProperties, EmptySeq
<1>2. Left(s, k, 0, s)
  <2>1. \A j \in 1 .. Len(s) : j > 0 /\ j <= 0 + Len(s) /\ j - 0 = j
    BY <1>1
  <2> QED BY <2>1 DEF Left
<1>3. ASSUME Avoids(s, k), NEW after \in Nat PROVE Left(s, k, after, <<>>)
  <2>1. \A j \in 1 .. Len(s) : ~ (j > after /\ j <= after + 0)
    BY <1>1
  <2> QED BY <1>1, <1>3, <2>1 DEF Left, Avoids
<1> QED BY <1>2, <1>3

\* The rest of a script after its next command.
LEMMA LeftTail ==
  ASSUME NEW S, NEW s \in Seq(S), s # <<>>, NEW k, NEW after \in Nat, NEW seg,
         Left(s, k, after, seg)
  PROVE  /\ Left(Tail(s), k, after, seg)
         /\ LET r == Len(s) - after IN
            IF r >= 1 /\ r <= Len(seg) THEN Head(s) = FromEnd(seg, r) ELSE ~ About(Head(s), k)
<1>1. PICK m \in Nat \ {0} : m = Len(s)
  BY TailFromEnd
<1>2. Left(Tail(s), k, after, seg)
  BY <1>1, TailFromEnd DEF Left
<1>3. Head(s) = FromEnd(s, m)
  BY <1>1, TailFromEnd
<1>4. IF m > after /\ m <= after + Len(seg) THEN Head(s) = FromEnd(seg, m - after)
                                            ELSE ~ About(Head(s), k)
  BY <1>1, <1>3 DEF Left
<1> QED BY <1>1, <1>2, <1>4

-----------------------------------------------------------------------------
(* The parts of the scripts                                                *)

\* What the functions run is made of these commands.
LEMMA Listed ==
  /\ \A c \in Chains : /\ DropChain(c) \in Seq(Commands) /\ Len(DropChain(c)) = 3
                       /\ FromEnd(DropChain(c), 1) = <<"-X", c>>
                       /\ FromEnd(DropChain(c), 2) = <<"-F", c>>
                       /\ FromEnd(DropChain(c), 3) = <<"-D", c>>
                       /\ \A k \in Kinds : k # c => Avoids(DropChain(c), k)
<1> SUFFICES ASSUME NEW c \in Chains
             PROVE  /\ DropChain(c) \in Seq(Commands) /\ Len(DropChain(c)) = 3
                    /\ FromEnd(DropChain(c), 1) = <<"-X", c>>
                    /\ FromEnd(DropChain(c), 2) = <<"-F", c>>
                    /\ FromEnd(DropChain(c), 3) = <<"-D", c>>
                    /\ \A k \in Kinds : k # c => Avoids(DropChain(c), k)
  OBVIOUS
<1>1. <<"-X", c>> \in Commands /\ <<"-F", c>> \in Commands /\ <<"-D", c>> \in Commands
  BY DEF Commands
<1>2. DropChain(c) \in Seq(Commands) /\ Len(DropChain(c)) = 3
  BY <1>1 DEF DropChain
<1>3. /\ FromEnd(DropChain(c), 1) = <<"-X", c>>
      /\ FromEnd(DropChain(c), 2) = <<"-F", c>>
      /\ FromEnd(DropChain(c), 3) = <<"-D", c>>
  BY DEF DropChain, FromEnd
<1>4. \A j \in 1 .. 3 : FromEnd(DropChain(c), j) \in {<<"-X", c>>, <<"-F", c>>, <<"-D", c>>}
  BY <1>3
<1>5. \A cmd \in {<<"-X", c>>, <<"-F", c>>, <<"-D", c>>} : cmd[1] \in {"-X", "-F", "-D"} /\ cmd[2] = c
  OBVIOUS
<1>6. \A k \in Kinds : k # c => Avoids(DropChain(c), k)
  BY <1>2, <1>4, <1>5 DEF Avoids, About, DnsCommands, Kinds, Chains
<1> QED BY <1>2, <1>3, <1>6

\* A list given by its elements.
LEMMA SeqFromDomain ==
  ASSUME NEW S, NEW m \in Nat, NEW s \in [1 .. m -> S]
  PROVE  s \in Seq(S) /\ Len(s) = m
<1>1. s \in Seq(S)
  BY SeqDef
<1>2. 1 .. Len(s) = 1 .. m /\ Len(s) \in Nat
  BY <1>1, LenProperties
<1> QED BY <1>1, <1>2

\* The rules of a chain, one after the other.
LEMMA FillListed ==
  ASSUME NEW c \in Chains, NEW rules \in Seq(RulesFor(c))
  PROVE  /\ Fill(c, rules) \in Seq(Commands) /\ Len(Fill(c, rules)) = Len(rules)
         /\ \A j \in 1 .. Len(rules) :
              FromEnd(Fill(c, rules), j) = <<"-A", c, rules[Len(rules) + 1 - j]>>
         /\ \A k \in Kinds : k # c => Avoids(Fill(c, rules), k)
<1>1. PICK n \in Nat : n = Len(rules) /\ DOMAIN rules = 1 .. n
                       /\ \A i \in 1 .. n : rules[i] \in RulesFor(c)
  BY LenProperties
<1>2. PICK s : s = Fill(c, rules)
  OBVIOUS
<1>3. s = [i \in 1 .. n |-> <<"-A", c, rules[i]>>]
  BY <1>1, <1>2 DEF Fill
<1>4. \A i \in 1 .. n : <<"-A", c, rules[i]>> \in Commands
  <2>1. \A i \in 1 .. n : rules[i] \in AllRules
    BY <1>1 DEF AllRules
  <2> QED BY <2>1 DEF Commands
<1>5. s \in Seq(Commands) /\ Len(s) = n
  <2>1. s \in [1 .. n -> Commands]
    BY <1>3, <1>4
  <2>2. s \in Seq(Commands)
    BY <2>1, SeqDef
  <2> QED BY <1>3, <2>2, LenProperties
<1>6. \A j \in 1 .. n : FromEnd(s, j) = <<"-A", c, rules[n + 1 - j]>>
  BY <1>3, <1>5 DEF FromEnd
<1>7. \A k \in Kinds : k # c => Avoids(s, k)
  <2>1. \A j \in 1 .. n : FromEnd(s, j)[1] = "-A" /\ FromEnd(s, j)[2] = c
    BY <1>6
  <2> QED BY <1>5, <2>1 DEF Avoids, About, DnsCommands, Kinds, Chains
<1> QED BY <1>1, <1>2, <1>5, <1>6, <1>7

\* Removing a chain, making it, filling it, and the jump to it at last.
LEMMA MakeListed ==
  ASSUME NEW c \in Chains, NEW rules \in Seq(RulesFor(c)), NEW n \in Nat, n = Len(rules),
         NEW s, s = MakeChain(c, rules)
  PROVE  /\ s \in Seq(Commands) /\ Len(s) = n + 5
         /\ FromEnd(s, 1) = <<"-I", c>>
         /\ \A j \in 2 .. n + 1 : FromEnd(s, j) = <<"-A", c, rules[n + 2 - j]>>
         /\ FromEnd(s, n + 2) = <<"-N", c>> /\ FromEnd(s, n + 3) = <<"-X", c>>
         /\ FromEnd(s, n + 4) = <<"-F", c>> /\ FromEnd(s, n + 5) = <<"-D", c>>
         /\ \A k \in Kinds : k # c => Avoids(s, k)
<1>1. <<"-N", c>> \in Commands /\ <<"-I", c>> \in Commands
  BY DEF Commands
<1>2. PICK new, jump : new = << <<"-N", c>> >> /\ jump = << <<"-I", c>> >>
  OBVIOUS
<1>3. /\ new \in Seq(Commands) /\ Len(new) = 1 /\ FromEnd(new, 1) = <<"-N", c>>
      /\ jump \in Seq(Commands) /\ Len(jump) = 1 /\ FromEnd(jump, 1) = <<"-I", c>>
  BY <1>1, <1>2 DEF FromEnd
<1>4. \A k \in Kinds : k # c => Avoids(new, k) /\ Avoids(jump, k)
  <2>1. \A cmd \in {<<"-N", c>>, <<"-I", c>>} : \A k \in Kinds : k # c => ~ About(cmd, k)
    <3>1. \A cmd \in {<<"-N", c>>, <<"-I", c>>} : cmd[1] \in {"-N", "-I"} /\ cmd[2] = c
      OBVIOUS
    <3> QED BY <3>1 DEF About, DnsCommands, Kinds, Chains
  <2>2. \A j \in 1 .. 1 : FromEnd(new, j) = <<"-N", c>> /\ FromEnd(jump, j) = <<"-I", c>>
    BY <1>3
  <2> QED BY <1>3, <2>1, <2>2 DEF Avoids
<1>5. PICK a : a = DropChain(c) \o new
  OBVIOUS
<1>6. /\ a \in Seq(Commands) /\ Len(a) = 4
      /\ FromEnd(a, 1) = <<"-N", c>> /\ FromEnd(a, 2) = <<"-X", c>>
      /\ FromEnd(a, 3) = <<"-F", c>> /\ FromEnd(a, 4) = <<"-D", c>>
      /\ \A k \in Kinds : k # c => Avoids(a, k)
  <2>1. DropChain(c) \in Seq(Commands) /\ Len(DropChain(c)) = 3
    BY Listed
  <2>2. /\ a \in Seq(Commands) /\ Len(a) = 3 + 1
        /\ \A j \in 1 .. 1 : FromEnd(a, j) = FromEnd(new, j)
        /\ \A j \in 1 + 1 .. 3 + 1 : FromEnd(a, j) = FromEnd(DropChain(c), j - 1)
    <3>1. /\ DropChain(c) \o new \in Seq(Commands)
          /\ Len(DropChain(c) \o new) = Len(DropChain(c)) + Len(new)
          /\ \A j \in 1 .. Len(DropChain(c)) + Len(new) :
               FromEnd(DropChain(c) \o new, j) = IF j <= Len(new) THEN FromEnd(new, j)
                                                 ELSE FromEnd(DropChain(c), j - Len(new))
      BY <1>3, <2>1, ConcatFromEnd, ZenonT(30)
    <3> QED BY <1>3, <1>5, <2>1, <3>1
  <2>3. /\ FromEnd(a, 1) = FromEnd(new, 1) /\ FromEnd(a, 2) = FromEnd(DropChain(c), 1)
        /\ FromEnd(a, 3) = FromEnd(DropChain(c), 2) /\ FromEnd(a, 4) = FromEnd(DropChain(c), 3)
    BY <2>2
  <2>4. \A k \in Kinds : k # c => Avoids(a, k)
    BY <1>3, <1>4, <1>5, <2>1, LeftConcat, Listed
  <2> QED BY <1>3, <2>2, <2>3, <2>4, Listed
<1>7. PICK fill, b : fill = Fill(c, rules) /\ b = a \o fill
  OBVIOUS
<1>8. /\ fill \in Seq(Commands) /\ Len(fill) = n
      /\ \A j \in 1 .. n : FromEnd(fill, j) = <<"-A", c, rules[n + 1 - j]>>
      /\ \A k \in Kinds : k # c => Avoids(fill, k)
  BY <1>7, FillListed
<1>9. /\ b \in Seq(Commands) /\ Len(b) = 4 + n
      /\ \A j \in 1 .. n : FromEnd(b, j) = FromEnd(fill, j)
      /\ \A j \in n + 1 .. 4 + n : FromEnd(b, j) = FromEnd(a, j - n)
      /\ \A k \in Kinds : k # c => Avoids(b, k)
  <2>1. /\ b \in Seq(Commands) /\ Len(b) = 4 + n
        /\ \A j \in 1 .. n : FromEnd(b, j) = FromEnd(fill, j)
        /\ \A j \in n + 1 .. 4 + n : FromEnd(b, j) = FromEnd(a, j - n)
    <3>1. /\ a \o fill \in Seq(Commands) /\ Len(a \o fill) = Len(a) + Len(fill)
          /\ \A j \in 1 .. Len(a) + Len(fill) :
               FromEnd(a \o fill, j) = IF j <= Len(fill) THEN FromEnd(fill, j)
                                       ELSE FromEnd(a, j - Len(fill))
      BY <1>6, <1>8, ConcatFromEnd, ZenonT(30)
    <3>2. /\ b \in Seq(Commands) /\ Len(b) = Len(a) + Len(fill)
          /\ \A j \in 1 .. Len(a) + Len(fill) :
               FromEnd(b, j) = IF j <= Len(fill) THEN FromEnd(fill, j) ELSE FromEnd(a, j - Len(fill))
      BY <1>7, <3>1, Zenon
    <3>3. Len(a) = 4 /\ Len(fill) = n
      BY <1>6, <1>8
    <3> QED BY <3>2, <3>3
  <2>2. \A k \in Kinds : k # c => Avoids(b, k)
    BY <1>6, <1>7, <1>8, LeftConcat
  <2> QED BY <2>1, <2>2
<1>10. s = b \o jump
  BY <1>2, <1>5, <1>7 DEF MakeChain
<1>11. /\ s \in Seq(Commands) /\ Len(s) = (4 + n) + 1
       /\ \A j \in 1 .. 1 : FromEnd(s, j) = FromEnd(jump, j)
       /\ \A j \in 1 + 1 .. (4 + n) + 1 : FromEnd(s, j) = FromEnd(b, j - 1)
       /\ \A k \in Kinds : k # c => Avoids(s, k)
  <2>1. 4 + n \in Nat
    OBVIOUS
  <2>2. /\ s \in Seq(Commands) /\ Len(s) = (4 + n) + 1
        /\ \A j \in 1 .. 1 : FromEnd(s, j) = FromEnd(jump, j)
        /\ \A j \in 1 + 1 .. (4 + n) + 1 : FromEnd(s, j) = FromEnd(b, j - 1)
    <3>1. /\ b \o jump \in Seq(Commands) /\ Len(b \o jump) = Len(b) + Len(jump)
          /\ \A j \in 1 .. Len(b) + Len(jump) :
               FromEnd(b \o jump, j) = IF j <= Len(jump) THEN FromEnd(jump, j)
                                       ELSE FromEnd(b, j - Len(jump))
      <4>1. b \in Seq(Commands) /\ jump \in Seq(Commands)
        BY <1>3, <1>9
      <4> QED BY <4>1, ConcatFromEnd, ZenonT(30)
    <3> QED BY <1>3, <1>9, <1>10, <2>1, <3>1
  <2>3. \A k \in Kinds : k # c => Avoids(s, k)
    BY <1>3, <1>4, <1>9, <1>10, LeftConcat
  <2> QED BY <2>2, <2>3
<1>12. FromEnd(s, 1) = <<"-I", c>>
  BY <1>3, <1>11
<1>13. ASSUME NEW j \in 2 .. n + 1 PROVE FromEnd(s, j) = <<"-A", c, rules[n + 2 - j]>>
  <2>1. PICK i \in 1 .. n : i = j - 1
    OBVIOUS
  <2>2. FromEnd(s, j) = FromEnd(b, i)
    BY <1>11, <2>1
  <2>3. FromEnd(s, j) = <<"-A", c, rules[n + 1 - i]>>
    BY <1>8, <1>9, <2>2
  <2>4. n + 1 - i = n + 2 - j
    BY <2>1
  <2> QED BY <2>3, <2>4
<1>14. ASSUME NEW i \in 1 .. 4 PROVE FromEnd(s, n + 1 + i) = FromEnd(a, i)
  <2>1. PICK j, k : j = n + 1 + i /\ k = n + i
    OBVIOUS
  <2>2. j \in 1 + 1 .. (4 + n) + 1 /\ j - 1 = k /\ k \in n + 1 .. 4 + n /\ k - n = i
    BY <2>1
  <2>3. FromEnd(s, j) = FromEnd(b, k) /\ FromEnd(b, k) = FromEnd(a, i)
    BY <1>9, <1>11, <2>2
  <2> QED BY <2>1, <2>3
<1>15. /\ FromEnd(s, n + 2) = <<"-N", c>> /\ FromEnd(s, n + 3) = <<"-X", c>>
       /\ FromEnd(s, n + 4) = <<"-F", c>> /\ FromEnd(s, n + 5) = <<"-D", c>>
  <2>1. /\ n + 1 + 1 = n + 2 /\ n + 1 + 2 = n + 3 /\ n + 1 + 3 = n + 4 /\ n + 1 + 4 = n + 5
    OBVIOUS
  <2>2. /\ FromEnd(s, n + 1 + 1) = FromEnd(a, 1) /\ FromEnd(s, n + 1 + 2) = FromEnd(a, 2)
        /\ FromEnd(s, n + 1 + 3) = FromEnd(a, 3) /\ FromEnd(s, n + 1 + 4) = FromEnd(a, 4)
    BY <1>14
  <2> QED BY <1>6, <2>1, <2>2
<1>16. Len(s) = n + 5
  BY <1>11
<1> QED BY <1>11, <1>12, <1>13, <1>15, <1>16

\* The DNS rules of the devices, each removed and added again.
LEMMA DnsListed ==
  ASSUME NEW devices \in Seq(Devices), NEW n \in Nat, n = Len(devices),
         NEW s, s = setup_dns_iptables(devices)
  PROVE  /\ s \in Seq(Commands) /\ Len(s) = 2 * n
         /\ \A i \in 1 .. n : \A j \in Nat :
              /\ j = 2 * (n - i) + 1 => FromEnd(s, j) = <<"dns-A", devices[i]>>
              /\ j = 2 * (n - i) + 2 => FromEnd(s, j) = <<"dns-D", devices[i]>>
         /\ \A c \in Chains : Avoids(s, c)
<1>1. DOMAIN devices = 1 .. n /\ \A i \in 1 .. n : devices[i] \in Devices
  BY LenProperties
<1>2. \A i \in 1 .. n : <<"dns-A", devices[i]>> \in Commands /\ <<"dns-D", devices[i]>> \in Commands
  BY <1>1 DEF Commands, DnsCommands
<1> DEFINE F(k) == <<IF k % 2 = 1 THEN "dns-D" ELSE "dns-A", devices[(k + 1) \div 2]>>
<1>3. /\ \A k \in 1 .. 2 * n : F(k) \in Commands /\ F(k)[1] \in DnsCommands
      /\ \A i \in 1 .. n : F(2 * i) = <<"dns-A", devices[i]>> /\ F(2 * i - 1) = <<"dns-D", devices[i]>>
  <2>1. ASSUME NEW k \in 1 .. 2 * n PROVE F(k) \in Commands /\ F(k)[1] \in DnsCommands
    <3>1. PICK i \in 1 .. n : i = (k + 1) \div 2
      OBVIOUS
    <3>2. F(k) = <<"dns-D", devices[i]>> \/ F(k) = <<"dns-A", devices[i]>>
      BY <3>1
    <3>3. F(k) \in Commands
      BY <1>2, <3>2
    <3>4. F(k)[1] = "dns-D" \/ F(k)[1] = "dns-A"
      BY <3>2
    <3> QED BY <3>3, <3>4 DEF DnsCommands
  <2>2. ASSUME NEW i \in 1 .. n
        PROVE  F(2 * i) = <<"dns-A", devices[i]>> /\ F(2 * i - 1) = <<"dns-D", devices[i]>>
    <3>1. /\ (2 * i) % 2 = 0 /\ (2 * i - 1) % 2 = 1
          /\ (2 * i + 1) \div 2 = i /\ (2 * i - 1 + 1) \div 2 = i
      OBVIOUS
    <3> QED BY <3>1
  <2> QED BY <2>1, <2>2
<1>4. s = [k \in 1 .. 2 * n |-> F(k)]
  BY DEF setup_dns_iptables
<1> HIDE DEF F
<1>5. PICK m \in Nat : m = 2 * n /\ s \in Seq(Commands) /\ Len(s) = m
  <2>1. PICK m \in Nat : m = 2 * n
    OBVIOUS
  <2>2. s \in [1 .. m -> Commands]
    BY <1>3, <1>4, <2>1
  <2> QED BY <2>1, <2>2, SeqFromDomain
<1>6. ASSUME NEW i \in 1 .. n, NEW j \in Nat
      PROVE  /\ j = 2 * (n - i) + 1 => FromEnd(s, j) = <<"dns-A", devices[i]>>
             /\ j = 2 * (n - i) + 2 => FromEnd(s, j) = <<"dns-D", devices[i]>>
  <2>1. /\ j = 2 * (n - i) + 1 => m + 1 - j = 2 * i
        /\ j = 2 * (n - i) + 2 => m + 1 - j = 2 * i - 1
        /\ 2 * i \in 1 .. 2 * n /\ 2 * i - 1 \in 1 .. 2 * n
    <3>1. m = 2 * n
      BY <1>5
    <3>2. i >= 1 /\ i <= n /\ i \in Nat
      OBVIOUS
    <3> QED BY <3>1, <3>2
  <2>2. s[2 * i] = F(2 * i) /\ s[2 * i - 1] = F(2 * i - 1)
    BY <1>4, <2>1
  <2> QED BY <1>3, <1>5, <2>1, <2>2 DEF FromEnd
<1>7. ASSUME NEW c \in Chains PROVE Avoids(s, c)
  <2>1. \A j \in 1 .. m : m + 1 - j \in 1 .. m /\ m + 1 - j \in 1 .. 2 * n
    BY <1>5
  <2>2. \A j \in 1 .. m : FromEnd(s, j)[1] \in DnsCommands
    BY <1>3, <1>4, <1>5, <2>1 DEF FromEnd
  <2>3. c # "dns" /\ \A x \in DnsCommands : x \notin ChainCommands
    BY DEF Chains, DnsCommands, ChainCommands
  <2> QED BY <1>5, <2>2, <2>3 DEF Avoids, About
<1> QED BY <1>5, <1>6, <1>7

\* And each removed.
LEMMA ReleaseListed ==
  ASSUME NEW devices \in Seq(Devices), NEW n \in Nat, n = Len(devices),
         NEW s, s = cleanup_dns_iptables(devices)
  PROVE  /\ s \in Seq(Commands) /\ Len(s) = n
         /\ \A i \in 1 .. n : FromEnd(s, n + 1 - i) = <<"dns-D", devices[i]>>
         /\ \A c \in Chains : Avoids(s, c)
<1>1. DOMAIN devices = 1 .. n /\ \A i \in 1 .. n : devices[i] \in Devices
  BY LenProperties
<1> DEFINE G(i) == <<"dns-D", devices[i]>>
<1>2. \A i \in 1 .. n : G(i) \in Commands /\ G(i)[1] = "dns-D"
  BY <1>1 DEF Commands, DnsCommands
<1>3. s = [i \in 1 .. n |-> G(i)]
  BY <1>1 DEF cleanup_dns_iptables
<1> HIDE DEF G
<1>4. s \in Seq(Commands) /\ Len(s) = n
  <2>1. s \in [1 .. n -> Commands]
    BY <1>2, <1>3
  <2> QED BY <2>1, SeqFromDomain
<1>5. \A i \in 1 .. n : FromEnd(s, n + 1 - i) = G(i)
  <2>1. \A i \in 1 .. n : n + 1 - (n + 1 - i) = i
    OBVIOUS
  <2> QED BY <1>3, <1>4, <2>1 DEF FromEnd
<1>6. ASSUME NEW c \in Chains PROVE Avoids(s, c)
  <2>1. \A j \in 1 .. n : FromEnd(s, j)[1] = "dns-D"
    <3>1. \A j \in 1 .. n : n + 1 - j \in 1 .. n
      OBVIOUS
    <3> QED BY <1>2, <1>3, <1>4, <3>1 DEF FromEnd
  <2>2. c # "dns" /\ "dns-D" \notin ChainCommands
    BY DEF Chains, ChainCommands
  <2> QED BY <1>4, <2>1, <2>2 DEF Avoids, About
<1> QED BY <1>4, <1>5, <1>6 DEF G

\* The tools and the two processes.
LEMMA ToolsListed ==
  ASSUME NEW have, NEW s,
         \/ s = setup_libs(have)
         \/ s = build_bridge(have)
         \/ s = << <<"start_relay">>, <<"start_go2rtc">> >>
  PROVE  /\ s \in Seq(Tools)
         /\ s \in Seq(Commands)
         /\ \A k \in Kinds : Avoids(s, k)
<1>1. Tools \subseteq Commands /\ \A cmd \in Tools : cmd[1] \notin ChainCommands \cup DnsCommands
  BY CommandKinds
<1>2. s \in Seq(Tools)
  <2>1. /\ <<"rmtree">> \in Tools /\ <<"start_relay">> \in Tools /\ <<"start_go2rtc">> \in Tools
        /\ <<"make", Shims>> \in Tools
        /\ \A l \in SdkLibs : <<"make", <<"copied", l>> >> \in Tools /\ <<"make", <<"patched", l>> >> \in Tools
        /\ <<"ninja", "bridge">> \in Tools /\ <<"ninja", "bridge-daemon">> \in Tools
    BY DEF Tools, Items, Binaries
  <2>2. <<>> \in Seq(Tools)
    BY EmptySeq
  <2>2a. ASSUME NEW x \in Tools, NEW y \in Tools PROVE <<x, y>> \in Seq(Tools)
    OBVIOUS
  <2>3. CASE s = setup_libs(have)
    <3>1. /\ "libiotp2pav.so" \in SdkLibs /\ "libmbedtls.so" \in SdkLibs
          /\ \A l \in SdkLibs : PatchLib(l) \in Seq(Tools)
      BY <2>1, <2>2a DEF SdkLibs, PatchLib
    <3>2. PICK a \in Seq(Tools), b \in Seq(Tools), c \in Seq(Tools) :
            /\ a = << <<"rmtree">>, <<"make", Shims>> >>
            /\ b = PatchLib("libiotp2pav.so") /\ c = PatchLib("libmbedtls.so")
      BY <2>1, <2>2a, <3>1
    <3>3. (a \o b) \o c \in Seq(Tools)
      BY ConcatProperties
    <3>4. setup_libs(have) = IF <<"copied", "libiotp2pav.so">> \in have THEN <<>> ELSE (a \o b) \o c
      BY <3>2, Zenon DEF setup_libs
    <3> QED BY <2>2, <2>3, <3>3, <3>4
  <2>4. CASE s = build_bridge(have)
    <3>1. build_bridge(have) = <<>> \/ build_bridge(have) = << <<"ninja", "bridge">>, <<"ninja", "bridge-daemon">> >>
      BY Zenon DEF build_bridge
    <3> QED BY <2>1, <2>2, <2>2a, <2>4, <3>1
  <2>5. CASE s = << <<"start_relay">>, <<"start_go2rtc">> >>
    BY <2>1, <2>2a, <2>5
  <2> QED BY <2>3, <2>4, <2>5
<1>3. PICK n \in Nat : n = Len(s) /\ s \in [1 .. n -> Tools]
  BY <1>2, LenProperties
<1>4. \A j \in 1 .. Len(s) : FromEnd(s, j) \in Tools
  <2>1. \A j \in 1 .. n : n + 1 - j \in 1 .. n
    OBVIOUS
  <2> QED BY <1>3, <2>1 DEF FromEnd
<1>5. \A k \in Kinds : Avoids(s, k)
  BY <1>1, <1>4 DEF Avoids, About
<1>6. s \in Seq(Commands)
  <2>1. s \in [1 .. n -> Commands]
    BY <1>1, <1>3
  <2> QED BY <1>3, <2>1, SeqFromDomain
<1> QED BY <1>2, <1>5, <1>6

-----------------------------------------------------------------------------
(* The commands                                                            *)

Bodies == {NoChain} \cup Seq(AllRules)
Tables == [jump : [Chains -> Nat], body : [Chains -> Bodies], redirect : [Devices -> Nat]]

\* The jumps to the chain that a command is about, and its rules, afterwards.
JumpAfter(t, cmd) ==
  IF cmd[1] = "-D" /\ t.jump[cmd[2]] > 0 THEN t.jump[cmd[2]] - 1
  ELSE IF cmd[1] = "-I" /\ t.body[cmd[2]] # NoChain THEN t.jump[cmd[2]] + 1
  ELSE t.jump[cmd[2]]
BodyAfter(t, cmd) ==
  IF cmd[1] = "-F" /\ t.body[cmd[2]] # NoChain THEN <<>>
  ELSE IF cmd[1] = "-X" /\ t.body[cmd[2]] = <<>> /\ t.jump[cmd[2]] = 0 THEN NoChain
  ELSE IF cmd[1] = "-N" /\ t.body[cmd[2]] = NoChain THEN <<>>
  ELSE IF cmd[1] = "-A" /\ t.body[cmd[2]] # NoChain THEN Append(t.body[cmd[2]], cmd[3])
  ELSE t.body[cmd[2]]

\* What a command about a chain does to that chain, and to nothing else.
LEMMA ApplyChain ==
  ASSUME NEW t \in Tables, NEW cmd \in Commands, cmd[1] \in ChainCommands,
         NEW u, u = Apply(t, cmd), NEW c, c = cmd[2]
  PROVE  /\ u \in Tables /\ u.redirect = t.redirect /\ c \in Chains
         /\ \A d \in Chains : d # c => u.jump[d] = t.jump[d] /\ u.body[d] = t.body[d]
         /\ u.jump[c] = JumpAfter(t, cmd) /\ u.body[c] = BodyAfter(t, cmd)
<1>1. /\ t.jump \in [Chains -> Nat] /\ t.body \in [Chains -> Bodies] /\ t.redirect \in [Devices -> Nat]
      /\ t = [jump |-> t.jump, body |-> t.body, redirect |-> t.redirect]
  BY DEF Tables
<1>2. c \in Chains /\ (cmd[1] = "-A" => cmd[3] \in AllRules)
  BY CommandKinds
<1>3. /\ t.jump[c] \in Nat /\ <<>> \in Bodies /\ NoChain \in Bodies
      /\ cmd[1] = "-A" /\ t.body[c] # NoChain => Append(t.body[c], cmd[3]) \in Bodies
  BY <1>1, <1>2 DEF Bodies
<1> DEFINE Jump(v) == [t EXCEPT !.jump[c] = v]
           Body(v) == [t EXCEPT !.body[c] = v]
<1>4. u = IF cmd[1] = "-D" /\ t.jump[c] > 0 THEN Jump(t.jump[c] - 1)
          ELSE IF cmd[1] = "-F" /\ t.body[c] # NoChain THEN Body(<<>>)
          ELSE IF cmd[1] = "-X" /\ t.body[c] = <<>> /\ t.jump[c] = 0 THEN Body(NoChain)
          ELSE IF cmd[1] = "-N" /\ t.body[c] = NoChain THEN Body(<<>>)
          ELSE IF cmd[1] = "-A" /\ t.body[c] # NoChain THEN Body(Append(t.body[c], cmd[3]))
          ELSE IF cmd[1] = "-I" /\ t.body[c] # NoChain THEN Jump(t.jump[c] + 1)
          ELSE t
  BY DEF Apply, Exists, ChainCommands
<1>5. \A v \in Nat :
        /\ Jump(v) \in Tables /\ Jump(v).body = t.body /\ Jump(v).redirect = t.redirect
        /\ Jump(v).jump[c] = v /\ \A d \in Chains : d # c => Jump(v).jump[d] = t.jump[d]
  BY <1>1, <1>2 DEF Tables
<1>6. \A v \in Bodies :
        /\ Body(v) \in Tables /\ Body(v).jump = t.jump /\ Body(v).redirect = t.redirect
        /\ Body(v).body[c] = v /\ \A d \in Chains : d # c => Body(v).body[d] = t.body[d]
  BY <1>1, <1>2 DEF Tables
<1> HIDE DEF Jump, Body
<1>7. t.jump[c] + 1 \in Nat /\ (t.jump[c] > 0 => t.jump[c] - 1 \in Nat)
  BY <1>3
<1>8. CASE cmd[1] = "-D"
  <2>1. BodyAfter(t, cmd) = t.body[c]
    BY <1>8 DEF BodyAfter
  <2>2. CASE t.jump[c] > 0
    <3>1. u = Jump(t.jump[c] - 1) /\ JumpAfter(t, cmd) = t.jump[c] - 1
      BY <1>4, <1>8, <2>2 DEF JumpAfter
    <3> QED BY <1>2, <1>5, <1>7, <2>1, <2>2, <3>1
  <2>3. CASE ~ (t.jump[c] > 0)
    <3>1. u = t /\ JumpAfter(t, cmd) = t.jump[c]
      BY <1>4, <1>8, <2>3 DEF JumpAfter
    <3> QED BY <1>2, <2>1, <3>1
  <2> QED BY <2>2, <2>3
<1>9. CASE cmd[1] = "-I"
  <2>1. BodyAfter(t, cmd) = t.body[c]
    BY <1>9 DEF BodyAfter
  <2>2. CASE t.body[c] # NoChain
    <3>1. u = Jump(t.jump[c] + 1) /\ JumpAfter(t, cmd) = t.jump[c] + 1
      BY <1>4, <1>9, <2>2 DEF JumpAfter
    <3> QED BY <1>2, <1>5, <1>7, <2>1, <3>1
  <2>3. CASE t.body[c] = NoChain
    <3>1. u = t /\ JumpAfter(t, cmd) = t.jump[c]
      BY <1>4, <1>9, <2>3 DEF JumpAfter
    <3> QED BY <1>2, <2>1, <3>1
  <2> QED BY <2>2, <2>3
<1>10. CASE cmd[1] = "-A"
  BY <1>2, <1>3, <1>4, <1>6, <1>10 DEF JumpAfter, BodyAfter
<1>11. CASE cmd[1] \in {"-F", "-X", "-N"}
  <2>1. JumpAfter(t, cmd) = t.jump[c]
    BY <1>11 DEF JumpAfter
  <2>2. u = t \/ \E v \in {<<>>, NoChain} : u = Body(v)
    BY <1>4, <1>11
  <2>3. u.body[c] = BodyAfter(t, cmd)
    <3>1. Body(<<>>).body[c] = <<>> /\ Body(NoChain).body[c] = NoChain
      BY <1>3, <1>6
    <3>2. CASE cmd[1] = "-F"
      BY <1>4, <3>1, <3>2 DEF BodyAfter
    <3>3. CASE cmd[1] = "-X"
      BY <1>4, <3>1, <3>3 DEF BodyAfter
    <3>4. CASE cmd[1] = "-N"
      BY <1>4, <3>1, <3>4 DEF BodyAfter
    <3> QED BY <1>11, <3>2, <3>3, <3>4
  <2>4. CASE u = t
    BY <1>2, <2>1, <2>3, <2>4
  <2>5. ASSUME NEW v \in {<<>>, NoChain}, u = Body(v)
        PROVE  /\ u \in Tables /\ u.redirect = t.redirect /\ u.jump = t.jump
               /\ \A d \in Chains : d # c => u.body[d] = t.body[d]
    BY <1>3, <1>6, <2>5
  <2> QED BY <1>2, <2>1, <2>2, <2>3, <2>4, <2>5
<1> QED BY <1>8, <1>9, <1>10, <1>11 DEF ChainCommands

\* What a command about the DNS rules does.
LEMMA ApplyDns ==
  ASSUME NEW t \in Tables, NEW cmd \in Commands, cmd[1] \in DnsCommands,
         NEW u, u = Apply(t, cmd), NEW x, x = cmd[2]
  PROVE  /\ u \in Tables /\ u.jump = t.jump /\ u.body = t.body /\ x \in Devices
         /\ \A d \in Devices : d # x => u.redirect[d] = t.redirect[d]
         /\ u.redirect[x] = IF cmd[1] = "dns-A" THEN t.redirect[x] + 1
                            ELSE IF t.redirect[x] > 0 THEN t.redirect[x] - 1
                            ELSE 0
<1>1. /\ t.jump \in [Chains -> Nat] /\ t.body \in [Chains -> Bodies] /\ t.redirect \in [Devices -> Nat]
      /\ t = [jump |-> t.jump, body |-> t.body, redirect |-> t.redirect]
  BY DEF Tables
<1>2. x \in Devices
  BY CommandKinds
<1>3. t.redirect[x] \in Nat
  BY <1>1, <1>2
<1> DEFINE Set(v) == [t EXCEPT !.redirect[x] = v]
<1>4. u = IF cmd[1] = "dns-D" /\ t.redirect[x] > 0 THEN Set(t.redirect[x] - 1)
          ELSE IF cmd[1] = "dns-A" THEN Set(t.redirect[x] + 1)
          ELSE t
  BY DEF Apply, DnsCommands
<1>5. \A v \in Nat :
        /\ Set(v) \in Tables /\ Set(v).jump = t.jump /\ Set(v).body = t.body
        /\ Set(v).redirect[x] = v /\ \A d \in Devices : d # x => Set(v).redirect[d] = t.redirect[d]
  BY <1>1, <1>2 DEF Tables
<1> HIDE DEF Set
<1>6. t.redirect[x] + 1 \in Nat /\ (t.redirect[x] > 0 => t.redirect[x] - 1 \in Nat)
  BY <1>3
<1>7. CASE cmd[1] = "dns-A"
  <2>1. u = Set(t.redirect[x] + 1)
    BY <1>4, <1>7
  <2> QED BY <1>2, <1>5, <1>6, <1>7, <2>1
<1>8. CASE cmd[1] = "dns-D"
  <2>1. u = IF t.redirect[x] > 0 THEN Set(t.redirect[x] - 1) ELSE t
    BY <1>4, <1>8
  <2>2. ~ (t.redirect[x] > 0) => t.redirect[x] = 0
    BY <1>3
  <2> QED BY <1>2, <1>5, <1>6, <1>8, <2>1, <2>2
<1> QED BY <1>7, <1>8 DEF DnsCommands

\* A step of a script, as far as the rules are concerned.
AfterCommand(t, cmd) == IF cmd[1] \in TableCommands THEN Apply(t, cmd) ELSE t

\* What a command does to the tables, chain by chain.
LEMMA CommandEffect ==
  ASSUME NEW t \in Tables, NEW cmd \in Commands, NEW u, u = AfterCommand(t, cmd)
  PROVE  /\ u \in Tables
         /\ \A c \in Chains :
              /\ ~ About(cmd, c) => u.jump[c] = t.jump[c] /\ u.body[c] = t.body[c]
              /\ About(cmd, c) =>
                   u.jump[c] = JumpAfter(t, cmd) /\ u.body[c] = BodyAfter(t, cmd)
         /\ \A d \in Devices :
              u.redirect[d] = IF ~ About(cmd, "dns") \/ cmd[2] # d THEN t.redirect[d]
                              ELSE IF cmd[1] = "dns-A" THEN t.redirect[d] + 1
                              ELSE IF t.redirect[d] > 0 THEN t.redirect[d] - 1
                              ELSE 0
<1>1. /\ cmd[1] \in TableCommands <=> cmd[1] \in ChainCommands \/ cmd[1] \in DnsCommands
      /\ cmd[1] \in ChainCommands => cmd[1] \notin DnsCommands
      /\ "dns" \notin Chains
      /\ About(cmd, "dns") <=> cmd[1] \in DnsCommands
      /\ \A c \in Chains : About(cmd, c) <=> cmd[1] \in ChainCommands /\ cmd[2] = c
  BY DEF TableCommands, ChainCommands, DnsCommands, Chains, About
<1>2. CASE cmd[1] \in ChainCommands
  <2>1. u = Apply(t, cmd)
    BY <1>1, <1>2 DEF AfterCommand
  <2>2. PICK c : c = cmd[2]
    OBVIOUS
  <2>3. /\ u \in Tables /\ u.redirect = t.redirect /\ c \in Chains
        /\ \A d \in Chains : d # c => u.jump[d] = t.jump[d] /\ u.body[d] = t.body[d]
        /\ u.jump[c] = JumpAfter(t, cmd) /\ u.body[c] = BodyAfter(t, cmd)
    BY <1>2, <2>1, <2>2, ApplyChain
  <2> QED BY <1>1, <1>2, <2>2, <2>3
<1>3. CASE cmd[1] \in DnsCommands
  <2>1. u = Apply(t, cmd)
    BY <1>1, <1>3 DEF AfterCommand
  <2>2. PICK x : x = cmd[2]
    OBVIOUS
  <2>3. /\ u \in Tables /\ u.jump = t.jump /\ u.body = t.body /\ x \in Devices
        /\ \A d \in Devices : d # x => u.redirect[d] = t.redirect[d]
    BY <1>3, <2>1, <2>2, ApplyDns
  <2>4. u.redirect[x] = IF cmd[1] = "dns-A" THEN t.redirect[x] + 1
                        ELSE IF t.redirect[x] > 0 THEN t.redirect[x] - 1
                        ELSE 0
    BY <1>3, <2>1, <2>2, ApplyDns
  <2> QED BY <1>1, <1>3, <2>2, <2>3, <2>4
<1>4. CASE cmd[1] \notin ChainCommands /\ cmd[1] \notin DnsCommands
  BY <1>1, <1>4 DEF AfterCommand
<1> QED BY <1>2, <1>3, <1>4

-----------------------------------------------------------------------------
(* A chain, as far as a script has come                                    *)

\* The next command of a script of whose part seg there are r commands left.
NextOf(cmd, k, seg, r) ==
  IF r >= 1 /\ r <= Len(seg) THEN cmd = FromEnd(seg, r) ELSE ~ About(cmd, k)

\* An empty part holds no next command, whatever is left.
LEMMA NextOfNothing ==
  ASSUME NEW cmd, NEW k, NEW r \in Int, NextOf(cmd, k, <<>>, r)
  PROVE  ~ About(cmd, k)
  BY EmptySeq DEF NextOf

\* At most one jump leads to a chain, and only to a complete or an empty one.
LiveIn(t, c, whole) ==
  /\ t.jump[c] \in {0, 1}
  /\ t.jump[c] = 1 => t.body[c] \in whole

\* What MakeChain has made of the chain when r of its commands are left.
MadeIn(t, c, rules, r) ==
  /\ r <= 0 => t.jump[c] = 1 /\ t.body[c] = rules
  /\ r >= 1 /\ r <= Len(rules) + 4 => t.jump[c] = 0
  /\ r = Len(rules) + 3 => t.body[c] \in {NoChain, <<>>}
  /\ r = Len(rules) + 2 => t.body[c] = NoChain
  /\ r >= 1 /\ r <= Len(rules) + 1 => t.body[c] = SubSeq(rules, 1, Len(rules) + 1 - r)

\* What DropChain leaves of the chain: nothing if no foreign command comes in
\* between, and no rule that a packet meets in any case.
DroppedIn(t, c, r) ==
  /\ r <= 2 => t.jump[c] = 0
  /\ r <= 1 => t.body[c] \in {NoChain, <<>>}
  /\ r <= 0 => t.body[c] = NoChain
EmptiedIn(t, c, r)  == r <= 1 => t.body[c] \in {NoChain, <<>>}
DisarmedIn(t, c, r) == r <= 1 => t.jump[c] = 0 \/ t.body[c] \in {NoChain, <<>>}

\* A missing chain is not taken for an empty one or for one with rules.
LEMMA NoChainDiffers ==
  \A c \in Chains : NoChain # <<>> /\ \A rules \in Seq(RulesFor(c)) : rules # NoChain
  BY NoChainAssumption, EmptySeq

\* Making the chain.
LEMMA MakingStep ==
  ASSUME NEW t \in Tables, NEW c \in Chains, NEW rules \in Seq(RulesFor(c)), NEW r \in Int,
         NEW cmd \in Commands, NEW u, u = AfterCommand(t, cmd),
         NEW whole, <<>> \in whole, rules \in whole,
         NextOf(cmd, c, MakeChain(c, rules), r), LiveIn(t, c, whole), MadeIn(t, c, rules, r)
  PROVE  LiveIn(u, c, whole) /\ MadeIn(u, c, rules, r - 1)
<1>1. PICK n \in Nat : n = Len(rules)
  BY LenProperties
<1>2. PICK j \in Nat, b \in Bodies : j = t.jump[c] /\ b = t.body[c]
  BY DEF Tables
<1>3. /\ ~ About(cmd, c) => u.jump[c] = j /\ u.body[c] = b
      /\ About(cmd, c) => u.jump[c] = JumpAfter(t, cmd) /\ u.body[c] = BodyAfter(t, cmd)
  BY <1>2, CommandEffect
<1>4. About(cmd, c) <=> cmd[1] \in ChainCommands /\ cmd[2] = c
  BY DEF About, Chains
<1>5. NoChain # <<>> /\ NoChain # rules /\ NoChain # SubSeq(rules, 1, n)
  BY <1>1, NoChainDiffers, SubSeqProperties
<1>6. PICK s : /\ s = MakeChain(c, rules) /\ Len(s) = n + 5
               /\ FromEnd(s, 1) = <<"-I", c>>
               /\ \A i \in 2 .. n + 1 : FromEnd(s, i) = <<"-A", c, rules[n + 2 - i]>>
               /\ FromEnd(s, n + 2) = <<"-N", c>> /\ FromEnd(s, n + 3) = <<"-X", c>>
               /\ FromEnd(s, n + 4) = <<"-F", c>> /\ FromEnd(s, n + 5) = <<"-D", c>>
  <2>1. PICK s : s = MakeChain(c, rules)
    OBVIOUS
  <2>2. /\ Len(s) = n + 5
        /\ FromEnd(s, 1) = <<"-I", c>>
        /\ \A i \in 2 .. n + 1 : FromEnd(s, i) = <<"-A", c, rules[n + 2 - i]>>
        /\ FromEnd(s, n + 2) = <<"-N", c>> /\ FromEnd(s, n + 3) = <<"-X", c>>
        /\ FromEnd(s, n + 4) = <<"-F", c>> /\ FromEnd(s, n + 5) = <<"-D", c>>
    BY <1>1, <2>1, MakeListed
  <2> QED BY <2>1, <2>2
<1>7. IF r >= 1 /\ r <= n + 5 THEN cmd = FromEnd(s, r) ELSE ~ About(cmd, c)
  BY <1>6 DEF NextOf
<1>8. /\ j \in {0, 1} /\ (j = 1 => b \in whole)
      /\ r <= 0 => j = 1 /\ b = rules
      /\ r >= 1 /\ r <= n + 4 => j = 0
      /\ r = n + 3 => b \in {NoChain, <<>>}
      /\ r = n + 2 => b = NoChain
      /\ r >= 1 /\ r <= n + 1 => b = SubSeq(rules, 1, n + 1 - r)
  BY <1>1, <1>2 DEF LiveIn, MadeIn
<1> DEFINE Goal(k, d) ==
      /\ k \in {0, 1} /\ (k = 1 => d \in whole)
      /\ r - 1 <= 0 => k = 1 /\ d = rules
      /\ r - 1 >= 1 /\ r - 1 <= n + 4 => k = 0
      /\ r - 1 = n + 3 => d \in {NoChain, <<>>}
      /\ r - 1 = n + 2 => d = NoChain
      /\ r - 1 >= 1 /\ r - 1 <= n + 1 => d = SubSeq(rules, 1, n + 1 - (r - 1))
<1> SUFFICES Goal(u.jump[c], u.body[c])
  BY <1>1 DEF LiveIn, MadeIn
<1>9. CASE ~ (r >= 1 /\ r <= n + 5)
  BY <1>3, <1>7, <1>8, <1>9
<1>10. CASE r = n + 5
  <2>1. cmd = <<"-D", c>>
    BY <1>6, <1>7, <1>10
  <2>2. u.jump[c] = 0 /\ u.body[c] = b
    BY <1>2, <1>3, <1>4, <1>8, <2>1 DEF ChainCommands, JumpAfter, BodyAfter
  <2> QED BY <1>10, <2>2
<1>11. CASE r = n + 4
  <2>1. cmd = <<"-F", c>>
    BY <1>6, <1>7, <1>11
  <2>2. u.jump[c] = 0 /\ u.body[c] \in {NoChain, <<>>}
    BY <1>2, <1>3, <1>4, <1>8, <1>11, <2>1 DEF ChainCommands, JumpAfter, BodyAfter
  <2> QED BY <1>11, <2>2
<1>12. CASE r = n + 3
  <2>1. cmd = <<"-X", c>>
    BY <1>6, <1>7, <1>12
  <2>2. u.jump[c] = 0 /\ u.body[c] = NoChain
    BY <1>2, <1>3, <1>4, <1>8, <1>12, <2>1 DEF ChainCommands, JumpAfter, BodyAfter
  <2> QED BY <1>12, <2>2
<1>13. CASE r = n + 2
  <2>1. cmd = <<"-N", c>>
    BY <1>6, <1>7, <1>13
  <2>2. u.jump[c] = 0 /\ u.body[c] = <<>>
    BY <1>2, <1>3, <1>4, <1>8, <1>13, <2>1 DEF ChainCommands, JumpAfter, BodyAfter
  <2>3. SubSeq(rules, 1, n + 1 - (r - 1)) = <<>>
    BY <1>13, SubSeqEmpty
  <2> QED BY <1>13, <2>2, <2>3
<1>14. CASE r \in 2 .. n + 1
  <2>1. PICK i \in 1 .. n : i = n + 2 - r
    BY <1>14
  <2>2. cmd = <<"-A", c, rules[i]>> /\ b = SubSeq(rules, 1, i - 1) /\ j = 0
    <3>1. n + 1 - r = i - 1 /\ r >= 1 /\ r <= n + 1 /\ r <= n + 4 /\ r <= n + 5
      BY <1>14, <2>1
    <3> QED BY <1>6, <1>7, <1>8, <1>14, <2>1, <3>1
  <2>3. b # NoChain /\ Append(b, rules[i]) = SubSeq(rules, 1, i)
    BY <1>1, <2>2, PrefixGrows, NoChainDiffers
  <2>4. cmd[1] = "-A" /\ cmd[2] = c /\ cmd[3] = rules[i]
    BY <2>2
  <2>5. u.jump[c] = JumpAfter(t, cmd) /\ u.body[c] = BodyAfter(t, cmd)
    BY <1>3, <1>4, <2>4 DEF ChainCommands
  <2>6. JumpAfter(t, cmd) = j /\ (b # NoChain => BodyAfter(t, cmd) = Append(b, rules[i]))
    BY <1>2, <2>4 DEF JumpAfter, BodyAfter
  <2>7. u.jump[c] = 0 /\ u.body[c] = SubSeq(rules, 1, i)
    BY <2>2, <2>3, <2>5, <2>6
  <2>8. r - 1 > 0 /\ r - 1 # n + 3 /\ r - 1 # n + 2 /\ n + 1 - (r - 1) = i
    BY <1>14, <2>1
  <2> QED BY <2>7, <2>8
<1>15. CASE r = 1
  <2>1. cmd = <<"-I", c>>
    BY <1>6, <1>7, <1>15
  <2>2. j = 0 /\ b = rules
    <3>1. b = SubSeq(rules, 1, n)
      BY <1>8, <1>15
    <3> QED BY <1>1, <1>8, <1>15, <3>1, SubSeqFull
  <2>3. cmd[1] = "-I" /\ cmd[2] = c
    BY <2>1
  <2>4. u.jump[c] = JumpAfter(t, cmd) /\ u.body[c] = BodyAfter(t, cmd)
    BY <1>3, <1>4, <2>3 DEF ChainCommands
  <2>5. BodyAfter(t, cmd) = b /\ (b # NoChain => JumpAfter(t, cmd) = j + 1)
    BY <1>2, <2>3 DEF BodyAfter, JumpAfter
  <2>6. u.jump[c] = 1 /\ u.body[c] = rules
    BY <1>5, <2>2, <2>4, <2>5
  <2> QED BY <1>15, <2>6
<1> QED BY <1>9, <1>10, <1>11, <1>12, <1>13, <1>14, <1>15

\* A command that is not about the chain.
LEMMA OtherStep ==
  ASSUME NEW t \in Tables, NEW c \in Chains, NEW cmd \in Commands,
         NEW u, u = AfterCommand(t, cmd), ~ About(cmd, c), NEW whole
  PROVE  /\ u.jump[c] = t.jump[c] /\ u.body[c] = t.body[c]
         /\ LiveIn(t, c, whole) => LiveIn(u, c, whole)
  BY CommandEffect DEF LiveIn

\* A command of DropChain, in its turn or a late one of an earlier run of it.
LEMMA RemovingStep ==
  ASSUME NEW t \in Tables, NEW c \in Chains, NEW cmd \in Commands,
         NEW u, u = AfterCommand(t, cmd), cmd[1] \in {"-D", "-F", "-X"}, cmd[2] = c,
         NEW whole, <<>> \in whole, LiveIn(t, c, whole)
  PROVE  /\ LiveIn(u, c, whole)
         /\ t.jump[c] = 0 \/ cmd[1] = "-D" => u.jump[c] = 0
         /\ u.body[c] = t.body[c] \/ u.body[c] \in {<<>>, NoChain}
         /\ cmd[1] = "-F" => u.body[c] \in {<<>>, NoChain}
         /\ t.body[c] = NoChain => u.body[c] = NoChain
         /\ cmd[1] = "-X" /\ t.jump[c] = 0 /\ t.body[c] = <<>> => u.body[c] = NoChain
<1>1. PICK j \in {0, 1}, b \in Bodies : j = t.jump[c] /\ b = t.body[c] /\ (j = 1 => b \in whole)
  BY DEF Tables, LiveIn
<1>2. u.jump[c] = JumpAfter(t, cmd) /\ u.body[c] = BodyAfter(t, cmd)
  <2>1. About(cmd, c)
    BY DEF About, Chains, ChainCommands
  <2> QED BY <2>1, CommandEffect
<1>3. NoChain # <<>>
  BY NoChainDiffers
<1>4. CASE cmd[1] = "-D"
  <2>1. JumpAfter(t, cmd) = 0 /\ BodyAfter(t, cmd) = b
    BY <1>1, <1>4 DEF JumpAfter, BodyAfter
  <2> QED BY <1>1, <1>2, <1>3, <1>4, <2>1 DEF LiveIn
<1>5. CASE cmd[1] = "-F"
  <2>1. JumpAfter(t, cmd) = j /\ BodyAfter(t, cmd) = IF b # NoChain THEN <<>> ELSE b
    BY <1>1, <1>5 DEF JumpAfter, BodyAfter
  <2> QED BY <1>1, <1>2, <1>3, <1>5, <2>1 DEF LiveIn
<1>6. CASE cmd[1] = "-X"
  <2>1. JumpAfter(t, cmd) = j /\ BodyAfter(t, cmd) = IF b = <<>> /\ j = 0 THEN NoChain ELSE b
    BY <1>1, <1>6 DEF JumpAfter, BodyAfter
  <2> QED BY <1>1, <1>2, <1>3, <1>6, <2>1 DEF LiveIn
<1> QED BY <1>4, <1>5, <1>6

\* Removing the chain.
LEMMA DroppingStep ==
  ASSUME NEW t \in Tables, NEW c \in Chains, NEW r \in Int, NEW cmd \in Commands,
         NEW u, u = AfterCommand(t, cmd), NEW whole, <<>> \in whole,
         NextOf(cmd, c, DropChain(c), r), LiveIn(t, c, whole)
  PROVE  /\ LiveIn(u, c, whole)
         /\ t.jump[c] = 0 => u.jump[c] = 0
         /\ u.body[c] = t.body[c] \/ u.body[c] \in {<<>>, NoChain}
         /\ DroppedIn(t, c, r) => DroppedIn(u, c, r - 1)
         /\ EmptiedIn(t, c, r) => EmptiedIn(u, c, r - 1)
         /\ DisarmedIn(t, c, r) => DisarmedIn(u, c, r - 1)
<1>1. IF r >= 1 /\ r <= 3 THEN cmd = FromEnd(DropChain(c), r) ELSE ~ About(cmd, c)
  BY Listed DEF NextOf
<1>2. CASE ~ (r >= 1 /\ r <= 3)
  <2>1. u.jump[c] = t.jump[c] /\ u.body[c] = t.body[c] /\ LiveIn(u, c, whole)
    BY <1>1, <1>2, OtherStep
  <2>2. ~ (r - 1 <= 1) \/ r <= 0
    BY <1>2
  <2> QED BY <1>2, <2>1, <2>2 DEF DroppedIn, EmptiedIn, DisarmedIn
<1>3. CASE r = 3
  <2>1. cmd = <<"-D", c>>
    BY <1>1, <1>3, Listed
  <2>2. cmd[1] = "-D" /\ cmd[2] = c
    BY <2>1
  <2> QED BY <1>3, <2>2, RemovingStep DEF DroppedIn, EmptiedIn, DisarmedIn
<1>4. CASE r = 2
  <2>1. cmd = <<"-F", c>>
    BY <1>1, <1>4, Listed
  <2>2. cmd[1] = "-F" /\ cmd[2] = c
    BY <2>1
  <2> QED BY <1>4, <2>2, RemovingStep DEF DroppedIn, EmptiedIn, DisarmedIn
<1>5. CASE r = 1
  <2>1. cmd = <<"-X", c>>
    BY <1>1, <1>5, Listed
  <2>2. cmd[1] = "-X" /\ cmd[2] = c
    BY <2>1
  <2> QED BY <1>5, <2>2, RemovingStep DEF DroppedIn, EmptiedIn, DisarmedIn
<1> QED BY <1>2, <1>3, <1>4, <1>5

\* A command of MakeChain that was interrupted takes effect at last.
LEMMA LateStep ==
  ASSUME NEW t \in Tables, NEW c \in Chains, NEW r \in Int, NEW cmd \in Commands,
         NEW u, u = AfterCommand(t, cmd), cmd[1] \in ChainCommands, cmd[2] = c,
         NEW whole, <<>> \in whole, LiveIn(t, c, whole), DisarmedIn(t, c, r),
         cmd[1] = "-A" => t.jump[c] = 0,
         cmd[1] = "-I" => /\ t.jump[c] = 0
                          /\ t.body[c] \in whole \cup {NoChain}
                          /\ EmptiedIn(t, c, r)
  PROVE  LiveIn(u, c, whole) /\ DisarmedIn(u, c, r)
<1>1. PICK j \in {0, 1}, b \in Bodies : j = t.jump[c] /\ b = t.body[c] /\ (j = 1 => b \in whole)
  BY DEF Tables, LiveIn
<1>2. u.jump[c] = JumpAfter(t, cmd) /\ u.body[c] = BodyAfter(t, cmd)
  <2>1. About(cmd, c)
    BY DEF About, Chains, ChainCommands
  <2> QED BY <2>1, CommandEffect
<1>3. CASE cmd[1] \in {"-D", "-F", "-X"}
  BY <1>3, RemovingStep DEF DisarmedIn
<1>4. CASE cmd[1] = "-N"
  <2>1. JumpAfter(t, cmd) = j /\ BodyAfter(t, cmd) = IF b = NoChain THEN <<>> ELSE b
    BY <1>1, <1>4 DEF JumpAfter, BodyAfter
  <2> QED BY <1>1, <1>2, <2>1 DEF LiveIn, DisarmedIn
<1>5. CASE cmd[1] = "-A"
  <2>1. JumpAfter(t, cmd) = j
    BY <1>1, <1>5 DEF JumpAfter
  <2> QED BY <1>1, <1>2, <1>5, <2>1 DEF LiveIn, DisarmedIn
<1>6. CASE cmd[1] = "-I"
  <2>1. JumpAfter(t, cmd) = (IF b # NoChain THEN j + 1 ELSE j) /\ BodyAfter(t, cmd) = b
    BY <1>1, <1>6 DEF JumpAfter, BodyAfter
  <2> QED BY <1>1, <1>2, <1>6, <2>1 DEF LiveIn, DisarmedIn, EmptiedIn
<1> QED BY <1>3, <1>4, <1>5, <1>6 DEF ChainCommands

-----------------------------------------------------------------------------
(* The DNS rules, as far as a script has come                              *)

\* At most one rule for a device.
Single(t) == \A d \in Devices : t.redirect[d] \in {0, 1}

\* What setup_dns_iptables has done when r of its commands are left: the rule
\* of a device that was dealt with is there, unless the same device is dealt
\* with again and its rule is just to be added.
RedirectedIn(t, devices, r) ==
  /\ \A i \in 1 .. Len(devices) :
       r <= 2 * (Len(devices) - i) =>
         \/ t.redirect[devices[i]] = 1
         \/ \E j \in 1 .. Len(devices) :
              r = 2 * (Len(devices) - j) + 1 /\ devices[j] = devices[i]
  /\ \A j \in 1 .. Len(devices) :
       r = 2 * (Len(devices) - j) + 1 => t.redirect[devices[j]] = 0

\* What cleanup_dns_iptables has done when r of its commands are left.
ReleasedIn(t, devices, r) ==
  \A i \in 1 .. Len(devices) : r <= Len(devices) - i => t.redirect[devices[i]] = 0

\* A command that is not about DNS leaves the redirects alone.
LEMMA OtherDnsStep ==
  ASSUME NEW t \in Tables, NEW cmd \in Commands,
         NEW u, u = AfterCommand(t, cmd), ~ About(cmd, "dns")
  PROVE  /\ \A d \in Devices : u.redirect[d] = t.redirect[d]
         /\ Single(t) => Single(u)
  BY CommandEffect DEF Single

\* Deleting a device's redirect leaves that device without one.
LEMMA ReleaseStep ==
  ASSUME NEW t \in Tables, NEW cmd \in Commands, NEW u, u = AfterCommand(t, cmd),
         cmd[1] = "dns-D", Single(t)
  PROVE  /\ cmd[2] \in Devices /\ u.redirect[cmd[2]] = 0
         /\ \A d \in Devices : d # cmd[2] => u.redirect[d] = t.redirect[d]
         /\ Single(u)
<1>1. cmd[2] \in Devices /\ About(cmd, "dns")
  BY CommandKinds DEF About, DnsCommands
<1>2. \A d \in Devices :
        u.redirect[d] = IF cmd[2] # d THEN t.redirect[d]
                        ELSE IF t.redirect[d] > 0 THEN t.redirect[d] - 1
                        ELSE 0
  BY <1>1, CommandEffect
<1>3. \A d \in Devices : t.redirect[d] \in {0, 1}
  BY DEF Single
<1> QED BY <1>1, <1>2, <1>3 DEF Single

\* Removing and adding the rules of all devices.
LEMMA RedirectingStep ==
  ASSUME NEW t \in Tables, NEW devices \in Seq(Devices), NEW r \in Int, NEW cmd \in Commands,
         NEW u, u = AfterCommand(t, cmd), NextOf(cmd, "dns", setup_dns_iptables(devices), r),
         Single(t), RedirectedIn(t, devices, r)
  PROVE  Single(u) /\ RedirectedIn(u, devices, r - 1)
<1>1. PICK n \in Nat : n = Len(devices) /\ \A i \in 1 .. n : devices[i] \in Devices
  BY LenProperties
<1>2. PICK s : /\ s = setup_dns_iptables(devices) /\ Len(s) = 2 * n
               /\ \A i \in 1 .. n : \A j \in Nat :
                    /\ j = 2 * (n - i) + 1 => FromEnd(s, j) = <<"dns-A", devices[i]>>
                    /\ j = 2 * (n - i) + 2 => FromEnd(s, j) = <<"dns-D", devices[i]>>
  BY <1>1, DnsListed
<1>3. IF r >= 1 /\ r <= 2 * n THEN cmd = FromEnd(s, r) ELSE ~ About(cmd, "dns")
  BY <1>2 DEF NextOf
<1>4. /\ \A i \in 1 .. n :
           r <= 2 * (n - i) => \/ t.redirect[devices[i]] = 1
                               \/ \E j \in 1 .. n : r = 2 * (n - j) + 1 /\ devices[j] = devices[i]
      /\ \A j \in 1 .. n : r = 2 * (n - j) + 1 => t.redirect[devices[j]] = 0
  BY <1>1 DEF RedirectedIn
<1> SUFFICES /\ Single(u)
             /\ \A i \in 1 .. n :
                  r - 1 <= 2 * (n - i) =>
                    \/ u.redirect[devices[i]] = 1
                    \/ \E j \in 1 .. n : r - 1 = 2 * (n - j) + 1 /\ devices[j] = devices[i]
             /\ \A j \in 1 .. n : r - 1 = 2 * (n - j) + 1 => u.redirect[devices[j]] = 0
  BY <1>1 DEF RedirectedIn
<1>5. CASE ~ (r >= 1 /\ r <= 2 * n)
  <2>1. Single(u) /\ \A i \in 1 .. n : u.redirect[devices[i]] = t.redirect[devices[i]]
    BY <1>1, <1>3, <1>5, OtherDnsStep
  <2>2. \A j \in 1 .. n : r # 2 * (n - j) + 1 /\ r - 1 # 2 * (n - j) + 1
    BY <1>5
  <2>3. \A i \in 1 .. n : r - 1 <= 2 * (n - i) => r <= 2 * (n - i)
    BY <1>5
  <2> QED BY <1>4, <2>1, <2>2, <2>3
<1>6. CASE \E j \in 1 .. n : r = 2 * (n - j) + 2
  <2>1. PICK j \in 1 .. n : r = 2 * (n - j) + 2
    BY <1>6
  <2>2. r >= 1 /\ r <= 2 * n
    BY <2>1
  <2>3. cmd = <<"dns-D", devices[j]>>
    BY <1>2, <1>3, <2>1, <2>2
  <2>4. cmd[1] = "dns-D" /\ cmd[2] = devices[j]
    BY <2>3
  <2>5. /\ u.redirect[devices[j]] = 0 /\ Single(u)
        /\ \A i \in 1 .. n : devices[i] # devices[j] => u.redirect[devices[i]] = t.redirect[devices[i]]
    BY <1>1, <2>4, ReleaseStep
  <2>6. /\ \A i \in 1 .. n : r # 2 * (n - i) + 1 /\ (r - 1 <= 2 * (n - i) => r <= 2 * (n - i))
        /\ \A i \in 1 .. n : r - 1 = 2 * (n - i) + 1 => i = j
        /\ r - 1 = 2 * (n - j) + 1
    BY <2>1
  <2> QED BY <1>4, <2>5, <2>6
<1>7. CASE \E j \in 1 .. n : r = 2 * (n - j) + 1
  <2>1. PICK j \in 1 .. n : r = 2 * (n - j) + 1
    BY <1>7
  <2>2. r >= 1 /\ r <= 2 * n
    BY <2>1
  <2>3. cmd = <<"dns-A", devices[j]>>
    BY <1>2, <1>3, <2>1, <2>2
  <2>4. cmd[1] = "dns-A" /\ cmd[2] = devices[j] /\ About(cmd, "dns")
    BY <2>3 DEF About, DnsCommands
  <2>5. \A d \in Devices :
          u.redirect[d] = IF devices[j] # d THEN t.redirect[d] ELSE t.redirect[d] + 1
    BY <2>4, CommandEffect
  <2>6. t.redirect[devices[j]] = 0
    BY <1>4, <2>1
  <2>7. Single(u)
    BY <1>1, <2>5, <2>6 DEF Single
  <2>8. /\ \A i \in 1 .. n : r - 1 # 2 * (n - i) + 1 /\ (r = 2 * (n - i) + 1 => i = j)
        /\ \A i \in 1 .. n : r - 1 <= 2 * (n - i) => r <= 2 * (n - i) \/ i = j
    BY <2>1
  <2>9. ASSUME NEW i \in 1 .. n, r - 1 <= 2 * (n - i) PROVE u.redirect[devices[i]] = 1
    <3>1. devices[i] \in Devices /\ devices[j] \in Devices
      BY <1>1
    <3>2. CASE devices[i] = devices[j]
      BY <2>5, <2>6, <3>1, <3>2
    <3>3. CASE devices[i] # devices[j]
      <4>1. r <= 2 * (n - i)
        BY <2>8, <2>9, <3>3
      <4>2. t.redirect[devices[i]] = 1
        BY <1>4, <2>8, <3>3, <4>1
      <4> QED BY <2>5, <3>1, <3>3, <4>2
    <3> QED BY <3>2, <3>3
  <2> QED BY <2>7, <2>8, <2>9
<1>8. ASSUME r >= 1, r <= 2 * n
      PROVE  \/ \E j \in 1 .. n : r = 2 * (n - j) + 2
             \/ \E j \in 1 .. n : r = 2 * (n - j) + 1
  <2>1. PICK k \in Nat : r = 2 * k \/ r = 2 * k + 1
    <3>1. r \div 2 \in Nat /\ (r = 2 * (r \div 2) \/ r = 2 * (r \div 2) + 1)
      BY <1>8
    <3> QED BY <3>1
  <2>2. CASE r = 2 * k
    <3>1. n + 1 - k \in 1 .. n /\ r = 2 * (n - (n + 1 - k)) + 2
      BY <1>8, <2>2
    <3> QED BY <3>1
  <2>3. CASE r = 2 * k + 1
    <3>1. n - k \in 1 .. n /\ r = 2 * (n - (n - k)) + 1
      BY <1>8, <2>3
    <3> QED BY <3>1
  <2> QED BY <2>1, <2>2, <2>3
<1> QED BY <1>5, <1>6, <1>7, <1>8

\* Removing the rules of all devices.
LEMMA ReleasingStep ==
  ASSUME NEW t \in Tables, NEW devices \in Seq(Devices), NEW r \in Int, NEW cmd \in Commands,
         NEW u, u = AfterCommand(t, cmd), NextOf(cmd, "dns", cleanup_dns_iptables(devices), r),
         Single(t), ReleasedIn(t, devices, r)
  PROVE  Single(u) /\ ReleasedIn(u, devices, r - 1)
<1>1. PICK n \in Nat : n = Len(devices) /\ \A i \in 1 .. n : devices[i] \in Devices
  BY LenProperties
<1>2. PICK s : /\ s = cleanup_dns_iptables(devices) /\ Len(s) = n
               /\ \A i \in 1 .. n : FromEnd(s, n + 1 - i) = <<"dns-D", devices[i]>>
  BY <1>1, ReleaseListed
<1>3. IF r >= 1 /\ r <= n THEN cmd = FromEnd(s, r) ELSE ~ About(cmd, "dns")
  BY <1>2 DEF NextOf
<1>4. \A i \in 1 .. n : r <= n - i => t.redirect[devices[i]] = 0
  BY <1>1 DEF ReleasedIn
<1>5. CASE r >= 1 /\ r <= n
  <2>1. PICK j \in 1 .. n : j = n + 1 - r
    BY <1>5
  <2>2. cmd = <<"dns-D", devices[j]>>
    <3>1. n + 1 - j = r
      BY <2>1
    <3> QED BY <1>2, <1>3, <1>5, <3>1
  <2>3. cmd[1] = "dns-D" /\ cmd[2] = devices[j]
    BY <2>2
  <2>4. /\ u.redirect[devices[j]] = 0 /\ Single(u)
        /\ \A i \in 1 .. n : devices[i] # devices[j] => u.redirect[devices[i]] = t.redirect[devices[i]]
    BY <1>1, <2>3, ReleaseStep
  <2>5. \A i \in 1 .. n : r - 1 <= n - i => i = j \/ r <= n - i
    BY <2>1
  <2> QED BY <1>1, <1>4, <2>4, <2>5 DEF ReleasedIn
<1>6. CASE ~ (r >= 1 /\ r <= n)
  <2>1. Single(u) /\ \A i \in 1 .. n : u.redirect[devices[i]] = t.redirect[devices[i]]
    BY <1>1, <1>3, <1>6, OtherDnsStep
  <2>2. \A i \in 1 .. n : r - 1 <= n - i => r <= n - i
    BY <1>6
  <2> QED BY <1>1, <1>4, <2>1, <2>2 DEF ReleasedIn
<1> QED BY <1>5, <1>6

-----------------------------------------------------------------------------
(* The scripts of the programs                                             *)

\* What the program p configured with x puts into its chains and which of them
\* it makes and removes.
RulesBy(p, x, c) ==
  IF c = "dnat" THEN DnatRules(IF p = "network" THEN x.devices ELSE <<x.devices[1]>>, x.relay)
                ELSE BlockRules
MakesBy(p, x, c) == IF p = "network" THEN c = "dnat" ELSE x.lanOnly
DropsBy(p, c)    == p = "entry" \/ c = "dnat"

\* The part of its setup, or of its cleanup, that is about k, and the number of
\* commands after it.
Part(p, x, setup, k) ==
  CASE setup /\ k = "dns"  -> IF p = "network" THEN setup_dns_iptables(x.devices) ELSE <<>>
    [] setup /\ k # "dns"  -> IF MakesBy(p, x, k) THEN MakeChain(k, RulesBy(p, x, k)) ELSE <<>>
    [] ~ setup /\ k = "dns" -> IF p = "network" THEN cleanup_dns_iptables(x.devices) ELSE <<>>
    [] ~ setup /\ k # "dns" -> IF DropsBy(p, k) THEN DropChain(k) ELSE <<>>
After(p, x, setup, k) ==
  CASE setup /\ p = "network"   -> IF k = "dns" THEN Len(x.devices) + 5 ELSE 0
    [] setup /\ p = "entry"     -> IF k = "dnat" THEN 9 ELSE IF k = "block" THEN 2 ELSE 0
    [] ~ setup /\ p = "network" -> IF k = "dns" THEN 3 ELSE 0
    [] ~ setup /\ p = "entry"   -> IF k = "dnat" THEN 3 ELSE 0

\* A script with all of that in its place.
Ordered(s, p, x, setup) ==
  /\ s \in Seq(Commands)
  /\ \A k \in Kinds : /\ Left(s, k, After(p, x, setup, k), Part(p, x, setup, k))
                      /\ \/ Part(p, x, setup, k) = <<>>
                         \/ Len(s) >= After(p, x, setup, k) + Len(Part(p, x, setup, k))

\* The configurations.
LEMMA ConfigFacts ==
  ASSUME NEW x \in Configs
  PROVE  /\ x.devices \in Seq(Devices) /\ Len(x.devices) \in Nat \ {0} /\ x.devices[1] \in Devices
         /\ \A i \in 1 .. Len(x.devices) : x.devices[i] \in Devices
         /\ ToSet(x.devices) = {x.devices[i] : i \in 1 .. Len(x.devices)}
         /\ x.lanOnly \in BOOLEAN
<1>1. x.devices \in Seq(Devices) /\ Len(x.devices) > 0 /\ x.lanOnly \in BOOLEAN
  BY ConfigsAssumption
<1>2. Len(x.devices) \in Nat /\ DOMAIN x.devices = 1 .. Len(x.devices)
      /\ \A i \in 1 .. Len(x.devices) : x.devices[i] \in Devices
  BY <1>1, LenProperties
<1>3. ToSet(x.devices) = {x.devices[i] : i \in 1 .. Len(x.devices)}
  BY <1>2 DEF ToSet
<1> QED BY <1>1, <1>2, <1>3

\* The rules a program makes for a chain, and how many there are.
LEMMA RulesFacts ==
  ASSUME NEW x \in Configs, NEW p \in {"network", "entry"}, NEW c \in Chains
  PROVE  /\ RulesBy(p, x, c) \in Seq(RulesFor(c))
         /\ Len(RulesBy(p, x, c)) = IF c = "block" THEN 2 ELSE IF p = "network" THEN Len(x.devices) ELSE 1
<1>1. CASE c = "block"
  <2>1. RulesBy(p, x, c) = BlockRules /\ RulesFor(c) = ToSet(BlockRules)
    BY <1>1 DEF RulesBy, RulesFor
  <2>2. BlockRules \in Seq({"lan_signaling_https_dns_RETURN", "tcp_REJECT"}) /\ Len(BlockRules) = 2
        /\ DOMAIN BlockRules = 1 .. 2
        /\ BlockRules[1] = "lan_signaling_https_dns_RETURN" /\ BlockRules[2] = "tcp_REJECT"
    BY DEF BlockRules
  <2>3. BlockRules \in [1 .. 2 -> ToSet(BlockRules)]
    <3>1. \A i \in 1 .. 2 : BlockRules[i] \in ToSet(BlockRules)
      BY <2>2 DEF ToSet
    <3>2. BlockRules = [i \in 1 .. 2 |-> BlockRules[i]]
      BY <2>2
    <3> QED BY <3>1, <3>2
  <2> QED BY <1>1, <2>1, <2>2, <2>3, SeqFromDomain
<1>2. CASE c = "dnat"
  <2>1. PICK devices \in Seq(Devices), n \in Nat :
          /\ devices = IF p = "network" THEN x.devices ELSE <<x.devices[1]>>
          /\ n = Len(devices)
          /\ n = IF p = "network" THEN Len(x.devices) ELSE 1
    <3>1. CASE p = "network"
      BY <3>1, ConfigFacts
    <3>2. CASE p # "network"
      <4>1. x.devices[1] \in Devices
        BY ConfigFacts
      <4>2. PICK d : d = <<x.devices[1]>>
        OBVIOUS
      <4>3. d \in Seq(Devices) /\ Len(d) = 1
        BY <4>1, <4>2
      <4> QED BY <3>2, <4>2, <4>3
    <3> QED BY <3>1, <3>2
  <2>2. PICK rules : rules = RulesBy(p, x, c)
    OBVIOUS
  <2>3. rules = DnatRules(devices, x.relay)
    BY <1>2, <2>1, <2>2 DEF RulesBy
  <2>4. DOMAIN devices = 1 .. n /\ \A i \in 1 .. n : devices[i] \in Devices
    BY <2>1, LenProperties
  <2>5. rules = [i \in 1 .. n |-> <<devices[i], x.relay>>]
    BY <2>3, <2>4 DEF DnatRules
  <2>6. \A i \in 1 .. n : <<devices[i], x.relay>> \in Devices \X {y.relay : y \in Configs}
    BY <2>4
  <2>7. RulesFor(c) = Devices \X {y.relay : y \in Configs}
    BY <1>2 DEF RulesFor
  <2>8. rules \in [1 .. n -> RulesFor(c)]
    BY <2>5, <2>6, <2>7
  <2>9. rules \in Seq(RulesFor(c)) /\ Len(rules) = n
    BY <2>8, SeqFromDomain
  <2> QED BY <1>2, <2>1, <2>2, <2>9
<1> QED BY <1>1, <1>2 DEF Chains

\* The three parts of a script: two chains and the DNS redirects.
LEMMA KindsList == Kinds = {"dnat", "block", "dns"} /\ Chains = {"dnat", "block"}
  BY DEF Kinds, Chains

\* The setup script of network_setup.py holds the commands of each kind whole and in their place.
LEMMA NetworkMainOrdered ==
  ASSUME NEW x \in Configs
  PROVE  Ordered(network_main(x), "network", x, TRUE)
<1>1. PICK n \in Nat : n = Len(x.devices) /\ x.devices \in Seq(Devices)
  BY ConfigFacts
<1>2. PICK a : /\ a = setup_dns_iptables(x.devices) /\ a \in Seq(Commands) /\ Len(a) = 2 * n
               /\ \A c \in Chains : Avoids(a, c)
  BY <1>1, DnsListed
<1>3. PICK b : /\ b = MakeChain("dnat", RulesBy("network", x, "dnat")) /\ b \in Seq(Commands)
               /\ Len(b) = n + 5 /\ Avoids(b, "block") /\ Avoids(b, "dns")
  <2>1. PICK rules \in Seq(RulesFor("dnat")) : rules = RulesBy("network", x, "dnat") /\ Len(rules) = n
    BY <1>1, RulesFacts, KindsList
  <2>2. PICK b : b = MakeChain("dnat", rules)
    OBVIOUS
  <2>3. /\ b \in Seq(Commands) /\ Len(b) = n + 5
        /\ \A k \in Kinds : k # "dnat" => Avoids(b, k)
    BY <2>1, <2>2, MakeListed, KindsList
  <2> QED BY <2>1, <2>2, <2>3, KindsList
<1>4. PICK s : s = a \o b /\ s \in Seq(Commands) /\ Len(s) = 2 * n + (n + 5)
  <2>1. PICK s : s = a \o b
    OBVIOUS
  <2>2. s \in Seq(Commands) /\ Len(s) = Len(a) + Len(b)
    BY <1>2, <1>3, <2>1, ConcatProperties
  <2> QED BY <1>2, <1>3, <2>1, <2>2
<1>5. network_main(x) = s
  BY <1>2, <1>3, <1>4 DEF network_main, start_dns_intercept, setup_iptables_dnat, RulesBy
<1>6. Left(s, "dns", n + 5, a)
  <2>1. Left(s, "dns", 0 + Len(b), a)
    BY <1>2, <1>3, <1>4, LeftWhole, LeftConcat
  <2> QED BY <1>3, <2>1
<1>7. Left(s, "dnat", 0, b)
  <2>1. Left(b, "dnat", 0, b) /\ Avoids(a, "dnat") /\ Len(b) >= 0 + Len(b)
    BY <1>2, <1>3, LeftWhole, KindsList
  <2> QED BY <1>2, <1>3, <1>4, <2>1, LeftConcat
<1>8. Left(s, "block", 0, <<>>)
  <2>1. Avoids(s, "block")
    BY <1>2, <1>3, <1>4, LeftConcat, KindsList
  <2> QED BY <1>4, <2>1, LeftWhole
<1>9. /\ Part("network", x, TRUE, "dns") = a /\ After("network", x, TRUE, "dns") = n + 5
      /\ Part("network", x, TRUE, "dnat") = b /\ After("network", x, TRUE, "dnat") = 0
      /\ Part("network", x, TRUE, "block") = <<>> /\ After("network", x, TRUE, "block") = 0
  BY <1>1, <1>2, <1>3 DEF Part, After, MakesBy
<1>10. Len(<<>>) = 0 /\ 2 * n + (n + 5) >= n + 5 + 2 * n /\ 2 * n + (n + 5) >= 0 + (n + 5)
       /\ 2 * n + (n + 5) >= 0 + 0
  BY EmptySeq
<1> QED BY <1>2, <1>3, <1>4, <1>5, <1>6, <1>7, <1>8, <1>9, <1>10, KindsList DEF Ordered

\* The part of entrypoint.main about the rules.
LEMMA LanOnlyListed ==
  ASSUME NEW x \in Configs, NEW s, s = lan_only_rules(x)
  PROVE  /\ s \in Seq(Commands)
         /\ Avoids(s, "dns")
         /\ \A c \in Chains : \A after \in Nat :
              after = (IF c = "dnat" THEN 7 ELSE 0) =>
                \/ /\ Left(s, c, after, Part("entry", x, TRUE, c))
                   /\ Len(s) >= after + Len(Part("entry", x, TRUE, c))
                \/ Part("entry", x, TRUE, c) = <<>> /\ Avoids(s, c)
<1>1. \A c \in Chains : Part("entry", x, TRUE, c) =
        IF x.lanOnly THEN MakeChain(c, RulesBy("entry", x, c)) ELSE <<>>
  BY DEF Part, MakesBy, Chains
<1>2. CASE ~ x.lanOnly
  <2>1. s = <<>> /\ s \in Seq(Commands)
    BY <1>2, EmptySeq DEF lan_only_rules
  <2>2. \A k : Avoids(s, k)
    BY <2>1 DEF Avoids
  <2> QED BY <1>1, <1>2, <2>1, <2>2
<1>3. CASE x.lanOnly
  <2>1. PICK dnat \in Seq(RulesFor("dnat")), block \in Seq(RulesFor("block")), m \in Nat, n \in Nat :
          /\ dnat = RulesBy("entry", x, "dnat") /\ m = Len(dnat) /\ m = 1
          /\ block = RulesBy("entry", x, "block") /\ n = Len(block) /\ n = 2
    BY RulesFacts, KindsList
  <2>2. PICK a, b : a = MakeChain("dnat", dnat) /\ b = MakeChain("block", block)
    OBVIOUS
  <2>3. /\ a \in Seq(Commands) /\ Len(a) = m + 5 /\ \A k \in Kinds : k # "dnat" => Avoids(a, k)
        /\ b \in Seq(Commands) /\ Len(b) = n + 5 /\ \A k \in Kinds : k # "block" => Avoids(b, k)
    BY <2>1, <2>2, MakeListed, KindsList
  <2>4. s = a \o b
    BY <1>3, <2>1, <2>2 DEF lan_only_rules, setup_iptables_dnat, setup_lan_only_firewall, RulesBy
  <2>5. s \in Seq(Commands) /\ Len(s) = Len(a) + Len(b) /\ Avoids(s, "dns")
    <3>1. a \in Seq(Commands) /\ b \in Seq(Commands) /\ Avoids(a, "dns") /\ Avoids(b, "dns")
      BY <2>3, KindsList
    <3>2. s \in Seq(Commands) /\ Len(s) = Len(a) + Len(b)
      BY <2>4, <3>1, ConcatProperties
    <3> QED BY <2>4, <3>1, <3>2, LeftConcat
  <2>6. Left(s, "dnat", 7, a) /\ Len(s) >= 7 + Len(a)
    <3>1. Left(s, "dnat", 0 + Len(b), a)
      BY <2>3, <2>4, LeftWhole, LeftConcat, KindsList
    <3> QED BY <2>1, <2>3, <2>5, <3>1
  <2>7. Left(s, "block", 0, b) /\ Len(s) >= 0 + Len(b)
    <3>1. Left(b, "block", 0, b) /\ Avoids(a, "block") /\ Len(b) >= 0 + Len(b)
      BY <2>3, LeftWhole, KindsList
    <3>2. a \in Seq(Commands) /\ b \in Seq(Commands)
      BY <2>3
    <3>3. Left(s, "block", 0, b)
      BY <2>4, <3>1, <3>2, LeftConcat
    <3> QED BY <2>1, <2>3, <2>5, <3>3
  <2>8. Part("entry", x, TRUE, "dnat") = a /\ Part("entry", x, TRUE, "block") = b
    BY <1>1, <1>3, <2>1, <2>2, KindsList
  <2> QED BY <2>5, <2>6, <2>7, <2>8, KindsList
<1> QED BY <1>2, <1>3

\* The script of entry.py holds the commands of each kind whole and in their place.
LEMMA EntryMainOrdered ==
  ASSUME NEW x \in Configs
  PROVE  Ordered(entry_main(x), "entry", x, TRUE)
<1>1. PICK a, b, m, e : /\ a = setup_libs(libs) /\ b = build_bridge(binaries) /\ m = lan_only_rules(x)
                        /\ e = << <<"start_relay">>, <<"start_go2rtc">> >>
  OBVIOUS
<1>2. /\ a \in Seq(Commands) /\ b \in Seq(Commands) /\ m \in Seq(Commands) /\ e \in Seq(Commands)
      /\ Len(e) = 2
      /\ \A k \in Kinds : Avoids(a, k) /\ Avoids(b, k) /\ Avoids(e, k)
      /\ Avoids(m, "dns")
  BY <1>1, ToolsListed, LanOnlyListed
<1>3. PICK f, g, s : f = a \o b /\ g = f \o m /\ s = g \o e
  OBVIOUS
<1>4. entry_main(x) = s
  BY <1>1, <1>3 DEF entry_main
<1>5. f \in Seq(Commands) /\ \A k \in Kinds : Avoids(f, k)
  BY <1>2, <1>3, ConcatProperties, LeftConcat
<1>6. g \in Seq(Commands) /\ Len(g) = Len(f) + Len(m)
  BY <1>2, <1>3, <1>5, ConcatProperties
<1>7. s \in Seq(Commands) /\ Len(s) = Len(g) + Len(e)
  BY <1>2, <1>3, <1>6, ConcatProperties
<1>8. Len(f) \in Nat /\ Len(m) \in Nat /\ Len(g) \in Nat
  BY <1>2, <1>5, <1>6, LenProperties
<1>9. ASSUME NEW c \in Chains
      PROVE  /\ Left(s, c, After("entry", x, TRUE, c), Part("entry", x, TRUE, c))
             /\ \/ Part("entry", x, TRUE, c) = <<>>
                \/ Len(s) >= After("entry", x, TRUE, c) + Len(Part("entry", x, TRUE, c))
  <2>1. PICK after \in Nat : /\ after = IF c = "dnat" THEN 7 ELSE 0
                             /\ After("entry", x, TRUE, c) = after + 2
    BY DEF After, Chains
  <2>2. PICK seg \in Seq(Commands) : seg = Part("entry", x, TRUE, c)
    <3>1. CASE x.lanOnly
      <4>1. Part("entry", x, TRUE, c) = MakeChain(c, RulesBy("entry", x, c))
        BY <3>1 DEF Part, MakesBy, Chains
      <4>2. PICK rules \in Seq(RulesFor(c)), n \in Nat : rules = RulesBy("entry", x, c) /\ n = Len(rules)
        BY RulesFacts, LenProperties
      <4> QED BY <4>1, <4>2, MakeListed
    <3>2. CASE ~ x.lanOnly
      BY <3>2, EmptySeq DEF Part, MakesBy, Chains
    <3> QED BY <3>1, <3>2
  <2>3. \/ Left(m, c, after, seg) /\ Len(m) >= after + Len(seg)
        \/ seg = <<>> /\ Avoids(m, c)
    BY <1>1, <2>1, <2>2, LanOnlyListed
  <2>4. CASE Left(m, c, after, seg) /\ Len(m) >= after + Len(seg)
    <3>1. Left(g, c, after, seg)
      BY <1>2, <1>3, <1>5, <2>4, LeftConcat DEF Kinds
    <3>2. Left(s, c, after + Len(e), seg)
      BY <1>2, <1>3, <1>6, <3>1, LeftConcat DEF Kinds
    <3>3. Len(seg) \in Nat
      BY LenProperties
    <3>4. Len(s) >= (after + 2) + Len(seg)
      BY <1>2, <1>6, <1>7, <1>8, <2>4, <3>3
    <3> QED BY <1>2, <2>1, <2>2, <3>2, <3>4
  <2>5. CASE seg = <<>> /\ Avoids(m, c)
    <3>1. Avoids(g, c)
      BY <1>2, <1>3, <1>5, <2>5, LeftConcat DEF Kinds
    <3>2. Avoids(s, c)
      BY <1>2, <1>3, <1>6, <3>1, LeftConcat DEF Kinds
    <3>3. PICK i \in Nat : i = after + 2
      OBVIOUS
    <3>4. Left(s, c, i, <<>>)
      BY <1>7, <3>2, LeftWhole
    <3> QED BY <2>1, <2>2, <2>5, <3>3, <3>4
  <2> QED BY <2>3, <2>4, <2>5
<1>10. Part("entry", x, TRUE, "dns") = <<>> /\ After("entry", x, TRUE, "dns") = 0
  BY DEF Part, After
<1>11. Left(s, "dns", 0, <<>>)
  <2>1. Avoids(g, "dns")
    BY <1>2, <1>3, <1>5, LeftConcat DEF Kinds
  <2>2. Avoids(s, "dns")
    BY <1>2, <1>3, <1>6, <2>1, LeftConcat DEF Kinds
  <2> QED BY <1>7, <2>2, LeftWhole
<1> QED BY <1>4, <1>7, <1>9, <1>10, <1>11 DEF Ordered, Kinds

\* The two cleanups.
LEMMA CleanupOrdered ==
  ASSUME NEW x \in Configs
  PROVE  /\ Ordered(cleanup_on_exit(x.devices), "network", x, FALSE)
         /\ Ordered(cleanup_all_iptables(<<>>), "entry", x, FALSE)
<1>1. PICK n \in Nat : n = Len(x.devices) /\ x.devices \in Seq(Devices)
  BY ConfigFacts
<1>2. PICK a : /\ a = cleanup_dns_iptables(x.devices) /\ a \in Seq(Commands) /\ Len(a) = n
               /\ \A c \in Chains : Avoids(a, c)
  BY <1>1, ReleaseListed
<1>3. PICK d, b : d = DropChain("dnat") /\ b = DropChain("block")
  OBVIOUS
<1>4. /\ d \in Seq(Commands) /\ Len(d) = 3 /\ \A k \in Kinds : k # "dnat" => Avoids(d, k)
      /\ b \in Seq(Commands) /\ Len(b) = 3 /\ \A k \in Kinds : k # "block" => Avoids(b, k)
  BY <1>3, Listed, KindsList
<1>5. PICK s, t : s = a \o d /\ t = d \o b
  OBVIOUS
<1>6. /\ s \in Seq(Commands) /\ Len(s) = Len(a) + Len(d)
      /\ t \in Seq(Commands) /\ Len(t) = Len(d) + Len(b)
  BY <1>2, <1>4, <1>5, ConcatProperties
<1>7. cleanup_on_exit(x.devices) = s
  BY <1>2, <1>3, <1>5 DEF cleanup_on_exit
<1>8. cleanup_all_iptables(<<>>) = t
  <2>1. cleanup_dns_iptables(<<>>) = <<>>
    BY DEF cleanup_dns_iptables
  <2>2. t \o <<>> = t
    BY <1>6, ConcatEmptySeq
  <2> QED BY <1>3, <1>5, <2>1, <2>2 DEF cleanup_all_iptables
<1>9. /\ Part("network", x, FALSE, "dns") = a /\ After("network", x, FALSE, "dns") = 3
      /\ Part("network", x, FALSE, "dnat") = d /\ After("network", x, FALSE, "dnat") = 0
      /\ Part("network", x, FALSE, "block") = <<>> /\ After("network", x, FALSE, "block") = 0
      /\ Part("entry", x, FALSE, "dns") = <<>> /\ After("entry", x, FALSE, "dns") = 0
      /\ Part("entry", x, FALSE, "dnat") = d /\ After("entry", x, FALSE, "dnat") = 3
      /\ Part("entry", x, FALSE, "block") = b /\ After("entry", x, FALSE, "block") = 0
  BY <1>2, <1>3 DEF Part, After, DropsBy
<1>10. Left(a, "dns", 0, a) /\ Left(d, "dnat", 0, d) /\ Left(b, "block", 0, b)
  BY <1>2, <1>4, LeftWhole
<1>11. Left(s, "dns", 3, a) /\ Left(s, "dnat", 0, d) /\ Left(s, "block", 0, <<>>)
  <2>1. Left(s, "dns", 0 + Len(d), a)
    BY <1>2, <1>4, <1>5, <1>10, LeftConcat, KindsList
  <2>2. Left(s, "dnat", 0, d)
    <3>1. Avoids(a, "dnat") /\ Len(d) >= 0 + Len(d)
      BY <1>2, <1>4, KindsList
    <3> QED BY <1>2, <1>4, <1>5, <1>10, <3>1, LeftConcat
  <2>3. Avoids(s, "block")
    BY <1>2, <1>4, <1>5, LeftConcat, KindsList
  <2> QED BY <1>4, <1>6, <2>1, <2>2, <2>3, LeftWhole
<1>12. Left(t, "dns", 0, <<>>) /\ Left(t, "dnat", 3, d) /\ Left(t, "block", 0, b)
  <2>1. Left(t, "dnat", 0 + Len(b), d)
    BY <1>4, <1>5, <1>10, LeftConcat, KindsList
  <2>2. Left(t, "block", 0, b)
    <3>1. Avoids(d, "block") /\ Len(b) >= 0 + Len(b)
      BY <1>4, KindsList
    <3> QED BY <1>4, <1>5, <1>10, <3>1, LeftConcat
  <2>3. Avoids(t, "dns")
    BY <1>4, <1>5, LeftConcat, KindsList
  <2> QED BY <1>4, <1>6, <2>1, <2>2, <2>3, LeftWhole
<1>13. /\ Len(s) >= 3 + Len(a) /\ Len(s) >= 0 + Len(d)
       /\ Len(t) >= 3 + Len(d) /\ Len(t) >= 0 + Len(b)
  BY <1>2, <1>4, <1>6
<1> QED BY <1>6, <1>7, <1>8, <1>9, <1>11, <1>12, <1>13, KindsList DEF Ordered

-----------------------------------------------------------------------------
(* The inductive invariant                                                 *)

Stopping    == phase \in {"stopping", "again"}
RulesOf(c)  == RulesBy(program, config, c)
Makes(c)    == MakesBy(program, config, c)
Complete(c) == {<<>>} \cup {RulesBy(program, x, c) : x \in Configs}
Place(k)    == After(program, config, phase = "setup", k)
ToGo(k)     == Len(todo) - Place(k)

TypeInv ==
  /\ program \in {"network", "entry"}
  /\ config \in Configs
  /\ phase \in {"down", "setup", "running", "stopping", "timeout", "again"}
  /\ todo \in Seq(Commands)
  /\ flight \subseteq Commands
  /\ tables \in Tables

\* What is left of the script is the end of a script of the program.
TodoInv ==
  /\ ~ Working => todo = <<>>
  /\ Working => \A k \in Kinds : Left(todo, k, Place(k), Part(program, config, phase = "setup", k))
  /\ phase = "again" => program = "network"

ChainInv(c) ==
  /\ LiveIn(tables, c, Complete(c))
  /\ phase = "setup" /\ Makes(c) => MadeIn(tables, c, RulesOf(c), ToGo(c))
  /\ phase = "running" /\ Makes(c) => tables.jump[c] = 1 /\ tables.body[c] = RulesOf(c)
  /\ Stopping /\ program = "network" /\ c = "dnat" => DroppedIn(tables, c, ToGo(c))
  /\ Stopping /\ program = "entry" => DisarmedIn(tables, c, ToGo(c))

DnsInv ==
  /\ Single(tables)
  /\ program = "network" =>
       /\ phase = "setup" => RedirectedIn(tables, config.devices, ToGo("dns"))
       /\ phase = "running" => \A i \in 1 .. Len(config.devices) : tables.redirect[config.devices[i]] = 1
       /\ Stopping => ReleasedIn(tables, config.devices, ToGo("dns"))

\* The network program is interrupted in its cleanup only; the entry program
\* once, in its setup, where a jump is inserted into a chain with all rules.
LateInv(f) ==
  IF program = "network"
  THEN f[1] = "dns-D" \/ (f[1] \in {"-D", "-F", "-X"} /\ f[2] = "dnat")
  ELSE /\ f[1] \in ChainCommands
       /\ f[1] = "-A" => tables.jump[f[2]] = 0
       /\ f[1] = "-I" => /\ tables.jump[f[2]] = 0
                         /\ tables.body[f[2]] \in Complete(f[2]) \cup {NoChain}
                         /\ EmptiedIn(tables, f[2], ToGo(f[2]))
FlightInv ==
  /\ ~ Stopping => flight = {}
  /\ program = "entry" => \A f, g \in flight : f = g
  /\ \A f \in flight : LateInv(f)

ExitInv ==
  exit = "stopped" /\ phase = "down" =>
    /\ program = "network" =>
         /\ tables.jump["dnat"] = 0 /\ tables.body["dnat"] = NoChain
         /\ \A i \in 1 .. Len(config.devices) : tables.redirect[config.devices[i]] = 0
    /\ program = "entry" =>
         \A c \in Chains : tables.jump[c] = 0 \/ tables.body[c] \in {NoChain, <<>>}

RulesInv == TypeInv /\ TodoInv /\ (\A c \in Chains : ChainInv(c)) /\ DnsInv /\ FlightInv /\ ExitInv

\* The commands that follow a part can be counted.
LEMMA AfterFacts ==
  ASSUME NEW p \in {"network", "entry"}, NEW x \in Configs, NEW setup \in BOOLEAN, NEW k
  PROVE  After(p, x, setup, k) \in Nat
<1>1. Len(x.devices) + 5 \in Nat
  BY ConfigFacts
<1> QED BY <1>1 DEF After

\* What the definitions say of the program and configuration at hand.
LEMMA StateFacts ==
  ASSUME TypeInv
  PROVE  /\ \A c \in Chains : /\ RulesOf(c) \in Seq(RulesFor(c)) /\ RulesOf(c) \in Complete(c)
                              /\ <<>> \in Complete(c)
         /\ \A k \in Kinds : Place(k) \in Nat /\ ToGo(k) \in Int
         /\ Len(todo) \in Nat
<1>1. /\ program \in {"network", "entry"} /\ config \in Configs /\ todo \in Seq(Commands)
      /\ Len(todo) \in Nat /\ Len(config.devices) \in Nat
  BY ConfigFacts, LenProperties DEF TypeInv
<1>2. \A c \in Chains : /\ RulesOf(c) \in Seq(RulesFor(c)) /\ RulesOf(c) \in Complete(c)
                        /\ <<>> \in Complete(c)
  BY <1>1, RulesFacts DEF RulesOf, Complete
<1>3. \A k \in Kinds : Place(k) \in Nat
  BY <1>1, AfterFacts DEF Place
<1> QED BY <1>1, <1>2, <1>3 DEF ToGo

-----------------------------------------------------------------------------
(* Init                                                                    *)

\* The invariant of the rules holds before the first start.
LEMMA InitRules ==
  ASSUME Init
  PROVE  RulesInv
<1>1. /\ program \in {"network", "entry"} /\ config \in Configs /\ phase = "down" /\ exit = "never"
      /\ todo = <<>> /\ flight = {} /\ tables = EmptyTables(Devices)
  BY DEF Init
<1>2. /\ tables \in Tables /\ Single(tables)
      /\ \A c \in Chains : tables.jump[c] = 0
  BY <1>1 DEF EmptyTables, Tables, Bodies, Single
<1>3. TypeInv
  BY <1>1, <1>2, EmptySeq DEF TypeInv
<1>4. TodoInv /\ FlightInv /\ ExitInv
  BY <1>1 DEF TodoInv, FlightInv, ExitInv, Working, Stopping
<1>5. DnsInv /\ \A c \in Chains : ChainInv(c)
  BY <1>1, <1>2 DEF DnsInv, ChainInv, LiveIn, Stopping
<1> QED BY <1>3, <1>4, <1>5 DEF RulesInv

-----------------------------------------------------------------------------
(* Start                                                                   *)

\* A start keeps it.
LEMMA StartRules ==
  ASSUME RulesInv, Start
  PROVE  RulesInv'
<1>1. PICK x \in Configs :
        /\ config' = x /\ program' = program /\ phase = "down" /\ phase' = "setup"
        /\ todo' = IF program = "network" THEN network_main(x) ELSE entry_main(x)
        /\ tables' = tables /\ flight' = flight /\ exit' = exit
  BY DEF Start, hostVars
<1>2. /\ program \in {"network", "entry"} /\ tables \in Tables /\ flight = {}
      /\ \A c \in Chains : LiveIn(tables, c, Complete(c))
      /\ Single(tables)
  BY <1>1 DEF RulesInv, TypeInv, FlightInv, Stopping, ChainInv, DnsInv
<1>3. Ordered(todo', program, x, TRUE)
  BY <1>1, <1>2, NetworkMainOrdered, EntryMainOrdered
<1>4. TypeInv'
  BY <1>1, <1>2, <1>3 DEF TypeInv, Ordered
<1>5. /\ \A k \in Kinds : Place(k)' = After(program, x, TRUE, k) /\ Place(k)' \in Nat
      /\ Len(todo') \in Nat /\ \A k \in Kinds : ToGo(k)' = Len(todo') - Place(k)'
      /\ \A k \in Kinds : /\ Left(todo', k, Place(k)', Part(program, x, TRUE, k))
                          /\ \/ Part(program, x, TRUE, k) = <<>>
                             \/ Len(todo') >= Place(k)' + Len(Part(program, x, TRUE, k))
  BY <1>1, <1>2, <1>3, AfterFacts, LenProperties DEF Ordered, Place, ToGo
<1>6. TodoInv'
  BY <1>1, <1>5 DEF TodoInv, Working
<1>7. ASSUME NEW c \in Chains PROVE ChainInv(c)'
  <2>1. LiveIn(tables, c, Complete(c))'
    BY <1>1, <1>2 DEF LiveIn, Complete
  <2>2. ASSUME Makes(c)' PROVE MadeIn(tables, c, RulesOf(c), ToGo(c))'
    <3>1. PICK n \in Nat, rules \in Seq(RulesFor(c)), r \in Int :
             rules = RulesBy(program, x, c) /\ n = Len(rules) /\ r = ToGo(c)'
      <4>1. ToGo(c)' \in Int
        <5>1. Len(todo') \in Nat /\ Place(c)' \in Nat /\ ToGo(c)' = Len(todo') - Place(c)'
          BY <1>5 DEF Kinds
        <5> QED BY <5>1
      <4>2. RulesBy(program, x, c) \in Seq(RulesFor(c))
        BY <1>2, RulesFacts
      <4> QED BY <4>1, <4>2, LenProperties
    <3>2. Part(program, x, TRUE, c) = MakeChain(c, rules)
      BY <1>1, <2>2, <3>1 DEF Makes, Part, Chains
    <3>3. MakeChain(c, rules) # <<>> /\ Len(MakeChain(c, rules)) = n + 5
      <4>1. Len(MakeChain(c, rules)) = n + 5 /\ MakeChain(c, rules) \in Seq(Commands)
        BY <3>1, MakeListed
      <4> QED BY <4>1, EmptySeq
    <3>4. Len(todo') >= Place(c)' + (n + 5)
      BY <1>5, <3>2, <3>3 DEF Kinds
    <3>5. r >= n + 5
      <4>1. Len(todo') \in Nat /\ Place(c)' \in Nat /\ ToGo(c)' = Len(todo') - Place(c)'
        BY <1>5 DEF Kinds
      <4> QED BY <3>1, <3>4, <4>1
    <3>6. MadeIn(tables, c, rules, r)
      BY <3>1, <3>5 DEF MadeIn
    <3> QED BY <1>1, <3>1, <3>6 DEF RulesOf, MadeIn
  <2> QED BY <1>1, <2>1, <2>2 DEF ChainInv, Stopping
<1>8. DnsInv'
  <2>1. ASSUME program = "network" PROVE RedirectedIn(tables', x.devices, ToGo("dns")')
    <3>1. PICK n \in Nat : n = Len(x.devices) /\ x.devices \in Seq(Devices) /\ n > 0
      BY ConfigFacts
    <3>2. Part(program, x, TRUE, "dns") = setup_dns_iptables(x.devices)
      BY <2>1 DEF Part
    <3>3. setup_dns_iptables(x.devices) \in Seq(Commands) /\ Len(setup_dns_iptables(x.devices)) = 2 * n
      BY <3>1, DnsListed
    <3>4. setup_dns_iptables(x.devices) # <<>>
      BY <3>1, <3>3, EmptySeq
    <3>5. PICK r \in Int : r = ToGo("dns")' /\ r >= 2 * n
      <4>1. Len(todo') \in Nat /\ Place("dns")' \in Nat /\ ToGo("dns")' = Len(todo') - Place("dns")'
        BY <1>5 DEF Kinds
      <4>2. Len(todo') >= Place("dns")' + 2 * n
        BY <1>5, <3>2, <3>3, <3>4 DEF Kinds
      <4> QED BY <4>1, <4>2
    <3>6. \A i \in 1 .. n : ~ (r <= 2 * (n - i)) /\ r # 2 * (n - i) + 1
      BY <3>5
    <3> QED BY <3>1, <3>5, <3>6 DEF RedirectedIn
  <2> QED BY <1>1, <1>2, <2>1 DEF DnsInv, Stopping
<1>9. FlightInv' /\ ExitInv'
  BY <1>1, <1>2 DEF FlightInv, ExitInv, Stopping
<1> QED BY <1>4, <1>6, <1>7, <1>8, <1>9 DEF RulesInv

-----------------------------------------------------------------------------
(* The steps of the scripts                                                *)

\* The next command comes in the order of the script.
LEMMA CommandFacts ==
  ASSUME RulesInv, RunCommand, NEW cmd, cmd = Head(todo)
  PROVE  /\ cmd \in Commands /\ tables' = AfterCommand(tables, cmd)
         /\ todo' = Tail(todo) /\ todo' \in Seq(Commands)
         /\ \A k \in Kinds :
              /\ ToGo(k) \in Int /\ ToGo(k)' = ToGo(k) - 1
              /\ NextOf(cmd, k, Part(program, config, phase = "setup", k), ToGo(k))
              /\ Left(todo', k, Place(k)', Part(program, config, phase = "setup", k))
         /\ UNCHANGED <<program, config, phase, flight, exit>>
<1>1. /\ todo # <<>> /\ todo \in Seq(Commands) /\ Working
      /\ todo' = Tail(todo) /\ tables' = AfterCommand(tables, cmd)
      /\ UNCHANGED <<program, config, phase, flight, exit>>
  BY DEF RunCommand, RulesInv, TypeInv, AfterCommand
<1>2. /\ Len(todo) \in Nat \ {0} /\ cmd \in Commands
      /\ todo' \in Seq(Commands) /\ Len(todo') = Len(todo) - 1
  BY <1>1, TailFromEnd
<1>3. ASSUME NEW k \in Kinds
      PROVE  /\ ToGo(k) \in Int /\ ToGo(k)' = ToGo(k) - 1
             /\ NextOf(cmd, k, Part(program, config, phase = "setup", k), ToGo(k))
             /\ Left(todo', k, Place(k)', Part(program, config, phase = "setup", k))
  <2>1. PICK after, seg : after \in Nat /\ after = Place(k) /\ seg = Part(program, config, phase = "setup", k)
    BY StateFacts DEF RulesInv
  <2>2. Place(k)' = after
    BY <1>1, <2>1 DEF Place
  <2>3. Left(todo, k, after, seg)
    BY <1>1, <2>1 DEF RulesInv, TodoInv
  <2>4. /\ Left(Tail(todo), k, after, seg)
        /\ LET r == Len(todo) - after IN
           IF r >= 1 /\ r <= Len(seg) THEN Head(todo) = FromEnd(seg, r) ELSE ~ About(Head(todo), k)
    BY <1>1, <2>1, <2>3, LeftTail
  <2> QED BY <1>1, <1>2, <2>1, <2>2, <2>4 DEF ToGo, NextOf
<1> QED BY <1>1, <1>2, <1>3

\* Running the next command keeps a chain where its script says.
LEMMA CommandChain ==
  ASSUME RulesInv, RunCommand, NEW c \in Chains
  PROVE  /\ ChainInv(c)'
         /\ Stopping => /\ tables.jump[c] = 0 => tables'.jump[c] = 0
                        /\ tables'.body[c] = tables.body[c] \/ tables'.body[c] \in {<<>>, NoChain}
         /\ Stopping /\ program = "entry" /\ EmptiedIn(tables, c, ToGo(c)) => EmptiedIn(tables, c, ToGo(c))'
<1>1. PICK cmd : cmd = Head(todo)
  OBVIOUS
<1>2. PICK r, rules, whole :
        r \in Int /\ rules \in Seq(RulesFor(c)) /\ r = ToGo(c) /\ rules = RulesOf(c) /\ whole = Complete(c) /\ rules \in whole /\ <<>> \in whole
  BY StateFacts DEF RulesInv, Kinds
<1>3. /\ tables \in Tables /\ cmd \in Commands /\ tables' = AfterCommand(tables, cmd) /\ ToGo(c)' = r - 1
      /\ NextOf(cmd, c, Part(program, config, phase = "setup", c), r)
      /\ program' = program /\ config' = config /\ phase' = phase
  BY <1>1, <1>2, CommandFacts DEF RulesInv, TypeInv, Kinds
<1>4. /\ Working /\ program \in {"network", "entry"} /\ ChainInv(c) /\ (phase = "again" => program = "network")
  BY DEF RunCommand, RulesInv, TypeInv, TodoInv
<1>5. LiveIn(tables, c, whole)
  BY <1>2, <1>4 DEF ChainInv
<1>6. RulesOf(c)' = rules /\ Complete(c)' = whole /\ (Makes(c)' <=> Makes(c)) /\ (Stopping' <=> Stopping)
  BY <1>2, <1>3 DEF RulesOf, Complete, Makes, Stopping
<1> DEFINE t == tables
           u == tables'
<1>7. ASSUME ~ About(cmd, c), ~ (phase = "setup" /\ Makes(c)),
             ~ (Stopping /\ (program = "entry" \/ c = "dnat"))
      PROVE  ChainInv(c)' /\ u.jump[c] = t.jump[c] /\ u.body[c] = t.body[c]
  <2>1. u.jump[c] = t.jump[c] /\ u.body[c] = t.body[c] /\ LiveIn(u, c, whole)
    BY <1>3, <1>5, <1>7, OtherStep
  <2>2. phase # "running"
    BY <1>4 DEF Working
  <2> QED BY <1>3, <1>6, <1>7, <2>1, <2>2 DEF ChainInv, LiveIn
<1>8. CASE phase = "setup"
  <2>1. ~ Stopping
    BY <1>8 DEF Stopping
  <2>2. CASE Makes(c)
    <3>1. NextOf(cmd, c, MakeChain(c, rules), r) /\ MadeIn(t, c, rules, r)
      BY <1>2, <1>3, <1>4, <1>8, <2>2 DEF Part, Chains, RulesOf, Makes, ChainInv
    <3>2. LiveIn(u, c, whole) /\ MadeIn(u, c, rules, r - 1)
      BY <1>2, <1>3, <1>5, <3>1, MakingStep
    <3> QED BY <1>3, <1>6, <1>8, <2>1, <3>2 DEF ChainInv, LiveIn, MadeIn
  <2>3. CASE ~ Makes(c)
    <3>1. NextOf(cmd, c, <<>>, r)
      BY <1>3, <1>8, <2>3 DEF Part, Chains, Makes
    <3>2. ~ About(cmd, c)
      BY <1>2, <3>1, NextOfNothing
    <3> QED BY <1>7, <1>8, <2>1, <2>3, <3>2
  <2> QED BY <2>2, <2>3
<1>9. CASE Stopping
  <2>1. phase # "setup" /\ phase # "running"
    BY <1>9 DEF Stopping
  <2>2. CASE program = "entry" \/ c = "dnat"
    <3>1. NextOf(cmd, c, DropChain(c), r)
      BY <1>3, <2>1, <2>2 DEF Part, DropsBy, Chains
    <3>2. /\ LiveIn(u, c, whole)
          /\ t.jump[c] = 0 => u.jump[c] = 0
          /\ u.body[c] = t.body[c] \/ u.body[c] \in {<<>>, NoChain}
          /\ DroppedIn(t, c, r) => DroppedIn(u, c, r - 1)
          /\ EmptiedIn(t, c, r) => EmptiedIn(u, c, r - 1)
          /\ DisarmedIn(t, c, r) => DisarmedIn(u, c, r - 1)
      BY <1>2, <1>3, <1>5, <3>1, DroppingStep
    <3>3. /\ program = "network" /\ c = "dnat" => DroppedIn(t, c, r)
          /\ program = "entry" => DisarmedIn(t, c, r)
      BY <1>2, <1>4, <1>9 DEF ChainInv
    <3>4. /\ LiveIn(tables, c, Complete(c))'
          /\ program = "network" /\ c = "dnat" => DroppedIn(tables, c, ToGo(c))'
          /\ program = "entry" => DisarmedIn(tables, c, ToGo(c))'
          /\ EmptiedIn(tables, c, ToGo(c)) => EmptiedIn(tables, c, ToGo(c))'
      BY <1>2, <1>3, <1>6, <3>2, <3>3 DEF LiveIn, DroppedIn, DisarmedIn, EmptiedIn
    <3> QED BY <1>3, <1>6, <2>1, <3>2, <3>4 DEF ChainInv
  <2>3. CASE ~ (program = "entry" \/ c = "dnat")
    <3>1. NextOf(cmd, c, <<>>, r)
      BY <1>3, <2>1, <2>3 DEF Part, DropsBy, Chains
    <3>2. ~ About(cmd, c)
      BY <1>2, <3>1, NextOfNothing
    <3> QED BY <1>7, <2>1, <2>3, <3>2
  <2> QED BY <2>2, <2>3
<1> QED BY <1>4, <1>8, <1>9 DEF Working, Stopping

\* Running the next command keeps the DNS redirects where their script says.
LEMMA CommandDns ==
  ASSUME RulesInv, RunCommand
  PROVE  DnsInv'
<1>1. PICK cmd, r, devices : cmd = Head(todo) /\ r = ToGo("dns") /\ devices = config.devices
  OBVIOUS
<1>2. r \in Int /\ devices \in Seq(Devices)
  BY <1>1, StateFacts, ConfigFacts DEF RulesInv, TypeInv, Kinds
<1>3. /\ tables \in Tables /\ cmd \in Commands /\ tables' = AfterCommand(tables, cmd)
      /\ ToGo("dns")' = r - 1
      /\ NextOf(cmd, "dns", Part(program, config, phase = "setup", "dns"), r)
      /\ program' = program /\ config' = config /\ phase' = phase
  BY <1>1, <1>2, CommandFacts DEF RulesInv, TypeInv, Kinds
<1>4. Working /\ DnsInv /\ Single(tables)
  BY DEF RunCommand, RulesInv, DnsInv
<1>5. CASE program = "network" /\ phase = "setup"
  <2>1. NextOf(cmd, "dns", setup_dns_iptables(devices), r) /\ RedirectedIn(tables, devices, r)
    BY <1>1, <1>2, <1>3, <1>4, <1>5 DEF Part, DnsInv
  <2>2. Single(tables') /\ RedirectedIn(tables', devices, r - 1)
    BY <1>1, <1>2, <1>3, <1>4, <2>1, RedirectingStep
  <2> QED BY <1>1, <1>2, <1>3, <1>5, <2>2 DEF DnsInv, Stopping, Single, RedirectedIn
<1>6. CASE program = "network" /\ phase # "setup"
  <2>1. Stopping /\ phase # "running"
    BY <1>4, <1>6 DEF Stopping, Working
  <2>2. NextOf(cmd, "dns", cleanup_dns_iptables(devices), r) /\ ReleasedIn(tables, devices, r)
    BY <1>1, <1>2, <1>3, <1>4, <1>6, <2>1 DEF Part, DnsInv
  <2>3. Single(tables') /\ ReleasedIn(tables', devices, r - 1)
    BY <1>1, <1>2, <1>3, <1>4, <2>2, ReleasingStep
  <2> QED BY <1>1, <1>2, <1>3, <1>6, <2>1, <2>3 DEF DnsInv, Single, ReleasedIn
<1>7. CASE program # "network"
  <2>1. NextOf(cmd, "dns", <<>>, r)
    BY <1>3, <1>7 DEF Part
  <2>2. ~ About(cmd, "dns")
    BY <1>2, <2>1, NextOfNothing
  <2>3. Single(tables')
    BY <1>3, <1>4, <2>2, OtherDnsStep
  <2> QED BY <1>3, <1>7, <2>3 DEF DnsInv, Single
<1> QED BY <1>5, <1>6, <1>7

\* Running the next command keeps what an interrupted command may still do.
LEMMA CommandFlight ==
  ASSUME RulesInv, RunCommand
  PROVE  FlightInv'
<1>1. /\ program' = program /\ config' = config /\ phase' = phase /\ flight' = flight
      /\ FlightInv /\ flight \subseteq Commands /\ (Stopping' <=> Stopping)
  BY DEF RunCommand, RulesInv, TypeInv, Stopping
<1>2. ASSUME NEW f \in flight PROVE LateInv(f)'
  <2>1. LateInv(f) /\ Stopping /\ f \in Commands
    BY <1>1, <1>2 DEF FlightInv
  <2>2. CASE program = "network"
    BY <1>1, <2>1, <2>2 DEF LateInv
  <2>3. CASE program # "network"
    <3>1. program = "entry"
      BY <2>3 DEF RulesInv, TypeInv
    <3>2. PICK c \in Chains : c = f[2]
      BY <2>1, <2>3, CommandKinds DEF LateInv
    <3>3. /\ tables.jump[c] = 0 => tables'.jump[c] = 0
          /\ tables'.body[c] = tables.body[c] \/ tables'.body[c] \in {<<>>, NoChain}
          /\ EmptiedIn(tables, c, ToGo(c)) => EmptiedIn(tables, c, ToGo(c))'
      BY <2>1, <3>1, CommandChain
    <3>4. <<>> \in Complete(c) /\ Complete(c)' = Complete(c)
      BY <1>1 DEF Complete
    <3> QED BY <1>1, <2>1, <2>3, <3>2, <3>3, <3>4 DEF LateInv
  <2> QED BY <2>2, <2>3
<1> QED BY <1>1, <1>2 DEF FlightInv

\* Running the next command keeps the invariant of the rules.
LEMMA CommandRules ==
  ASSUME RulesInv, RunCommand
  PROVE  RulesInv'
<1>1. PICK cmd : cmd = Head(todo)
  OBVIOUS
<1>2. /\ cmd \in Commands /\ tables' = AfterCommand(tables, cmd) /\ todo' \in Seq(Commands)
      /\ \A k \in Kinds : Left(todo', k, Place(k)', Part(program, config, phase = "setup", k))
      /\ UNCHANGED <<program, config, phase, flight, exit>>
  BY <1>1, CommandFacts
<1>3. TypeInv'
  <2>1. tables' \in Tables
    BY <1>2, CommandEffect DEF RulesInv, TypeInv
  <2> QED BY <1>2, <2>1 DEF RulesInv, TypeInv
<1>4. TodoInv'
  BY <1>2 DEF RulesInv, TodoInv, RunCommand, Working
<1>5. ExitInv'
  BY <1>2 DEF RunCommand, Working, ExitInv
<1> QED BY <1>3, <1>4, <1>5, CommandChain, CommandDns, CommandFlight DEF RulesInv

-----------------------------------------------------------------------------
(* The end of the setup, and of the program                                *)

\* The end of the setup script keeps it.
LEMMA SetupDoneRules ==
  ASSUME RulesInv, SetupDone
  PROVE  RulesInv'
<1>1. /\ phase = "setup" /\ phase' = "running" /\ todo = <<>>
      /\ UNCHANGED <<program, config, todo, flight, exit, tables>>
  BY DEF SetupDone, hostVars
<1>2. TypeInv /\ TodoInv /\ DnsInv /\ FlightInv /\ \A c \in Chains : ChainInv(c)
  BY DEF RulesInv
<1>3. \A k \in Kinds : ToGo(k) \in Int /\ ToGo(k) <= 0
  BY <1>1, <1>2, StateFacts DEF ToGo
<1>4. ASSUME NEW c \in Chains PROVE ChainInv(c)'
  <2>1. LiveIn(tables, c, Complete(c))'
    BY <1>1, <1>2 DEF ChainInv, LiveIn, Complete
  <2>2. ASSUME Makes(c) PROVE tables.jump[c] = 1 /\ tables.body[c] = RulesOf(c)
    <3>1. MadeIn(tables, c, RulesOf(c), ToGo(c)) /\ ToGo(c) <= 0
      BY <1>1, <1>2, <1>3, <2>2 DEF ChainInv, Kinds
    <3> QED BY <3>1 DEF MadeIn
  <2> QED BY <1>1, <2>1, <2>2 DEF ChainInv, Makes, RulesOf, Stopping
<1>5. DnsInv'
  <2>1. ASSUME program = "network", NEW i \in 1 .. Len(config.devices)
        PROVE  tables.redirect[config.devices[i]] = 1
    <3>1. PICK r, n : r = ToGo("dns") /\ n = Len(config.devices)
      OBVIOUS
    <3>2. r \in Int /\ r <= 0 /\ n \in Nat
      BY <1>2, <1>3, <3>1, ConfigFacts DEF TypeInv, Kinds
    <3>3. RedirectedIn(tables, config.devices, r)
      BY <1>1, <1>2, <2>1, <3>1 DEF DnsInv
    <3>4. \A j \in 1 .. n : r # 2 * (n - j) + 1 /\ r <= 2 * (n - j)
      BY <3>2
    <3> QED BY <2>1, <3>1, <3>3, <3>4 DEF RedirectedIn
  <2> QED BY <1>1, <1>2, <2>1 DEF DnsInv, Stopping, Single
<1>6. TypeInv' /\ TodoInv' /\ FlightInv' /\ ExitInv'
  BY <1>1, <1>2 DEF TypeInv, TodoInv, FlightInv, ExitInv, Working, Stopping
<1> QED BY <1>4, <1>5, <1>6 DEF RulesInv

\* A program that ended by itself, or cleaned up before.
LEMMA GoDownRules ==
  ASSUME RulesInv, NEW how, GoDown(how),
         how = "stopped" =>
           /\ program = "network" =>
                /\ tables.jump["dnat"] = 0 /\ tables.body["dnat"] = NoChain
                /\ \A i \in 1 .. Len(config.devices) : tables.redirect[config.devices[i]] = 0
           /\ program = "entry" =>
                \A c \in Chains : tables.jump[c] = 0 \/ tables.body[c] \in {NoChain, <<>>}
  PROVE  RulesInv'
<1>1. /\ phase' = "down" /\ exit' = how /\ todo' = <<>> /\ flight' = {}
      /\ program' = program /\ config' = config /\ tables' = tables
  BY DEF GoDown
<1>2. TypeInv /\ DnsInv /\ \A c \in Chains : ChainInv(c)
  BY DEF RulesInv
<1>3. TypeInv'
  BY <1>1, <1>2, EmptySeq DEF TypeInv
<1>4. ASSUME NEW c \in Chains PROVE ChainInv(c)'
  <2>1. LiveIn(tables, c, Complete(c))'
    BY <1>1, <1>2 DEF ChainInv, LiveIn, Complete
  <2> QED BY <1>1, <2>1 DEF ChainInv, Stopping
<1>5. TodoInv' /\ DnsInv' /\ FlightInv'
  BY <1>1, <1>2 DEF TodoInv, DnsInv, FlightInv, Working, Stopping, Single
<1>6. ExitInv'
  BY <1>1 DEF ExitInv
<1> QED BY <1>3, <1>4, <1>5, <1>6 DEF RulesInv

\* A cleanup starts, or starts anew.
LEMMA CleanupStarts ==
  ASSUME RulesInv, phase' \in {"stopping", "again"}, phase' = "again" => program = "network",
         todo' = IF program = "network" THEN cleanup_on_exit(config.devices)
                                        ELSE cleanup_all_iptables(<<>>),
         program' = program, config' = config, tables' = tables, exit' = exit,
         flight' \subseteq Commands
  PROVE  /\ FlightInv' => RulesInv'
         /\ program = "entry" => \A c \in Chains : EmptiedIn(tables, c, ToGo(c))'
<1>1. TypeInv /\ DnsInv /\ \A c \in Chains : ChainInv(c)
  BY DEF RulesInv
<1>2. PICK x \in Configs : x = config /\ program \in {"network", "entry"}
  BY <1>1 DEF TypeInv
<1>3. Ordered(todo', program, x, FALSE)
  BY <1>2, CleanupOrdered
<1>4. TypeInv'
  BY <1>1, <1>3 DEF TypeInv, Ordered
<1>5. /\ \A k \in Kinds : Place(k)' = After(program, x, FALSE, k) /\ Place(k)' \in Nat
      /\ Len(todo') \in Nat /\ \A k \in Kinds : ToGo(k)' = Len(todo') - Place(k)'
      /\ \A k \in Kinds : /\ Left(todo', k, Place(k)', Part(program, x, FALSE, k))
                          /\ \/ Part(program, x, FALSE, k) = <<>>
                             \/ Len(todo') >= Place(k)' + Len(Part(program, x, FALSE, k))
  BY <1>2, <1>3, AfterFacts, LenProperties DEF Ordered, Place, ToGo
<1>6. TodoInv'
  BY <1>2, <1>5 DEF TodoInv, Working
<1>7. ASSUME NEW c \in Chains, program = "entry" \/ c = "dnat"
      PROVE  ToGo(c)' \in Int /\ ToGo(c)' >= 3
  <2>1. Part(program, x, FALSE, c) = DropChain(c)
    BY <1>7 DEF Part, DropsBy, Chains
  <2>2. DropChain(c) \in Seq(Commands) /\ Len(DropChain(c)) = 3
    BY Listed
  <2>3. DropChain(c) # <<>>
    <3>1. PICK s : s = DropChain(c) /\ Len(s) = 3
      BY <2>2
    <3>2. Len(<<>>) = 0
      BY EmptySeq
    <3> QED BY <3>1, <3>2
  <2>4. Len(todo') >= Place(c)' + 3
    BY <1>5, <2>1, <2>2, <2>3 DEF Kinds
  <2>5. Len(todo') \in Nat /\ Place(c)' \in Nat /\ ToGo(c)' = Len(todo') - Place(c)'
    BY <1>5 DEF Kinds
  <2> QED BY <2>4, <2>5
<1>8. ASSUME NEW c \in Chains PROVE ChainInv(c)'
  <2>1. LiveIn(tables, c, Complete(c))'
    BY <1>1 DEF ChainInv, LiveIn, Complete
  <2>2. program = "network" /\ c = "dnat" => DroppedIn(tables, c, ToGo(c))'
    BY <1>7 DEF DroppedIn
  <2>3. program = "entry" => DisarmedIn(tables, c, ToGo(c))'
    BY <1>7 DEF DisarmedIn
  <2> QED BY <2>1, <2>2, <2>3 DEF ChainInv
<1>9. DnsInv'
  <2>1. ASSUME program = "network" PROVE ReleasedIn(tables', x.devices, ToGo("dns")')
    <3>1. PICK n \in Nat : n = Len(x.devices) /\ x.devices \in Seq(Devices) /\ n > 0
      BY ConfigFacts
    <3>2. Part(program, x, FALSE, "dns") = cleanup_dns_iptables(x.devices)
      BY <2>1 DEF Part
    <3>3. cleanup_dns_iptables(x.devices) \in Seq(Commands) /\ Len(cleanup_dns_iptables(x.devices)) = n
      BY <3>1, ReleaseListed
    <3>4. cleanup_dns_iptables(x.devices) # <<>>
      BY <3>1, <3>3, EmptySeq
    <3>5. PICK r \in Int : r = ToGo("dns")' /\ r >= n
      <4>1. Len(todo') \in Nat /\ Place("dns")' \in Nat /\ ToGo("dns")' = Len(todo') - Place("dns")'
        BY <1>5 DEF Kinds
      <4>2. Len(todo') >= Place("dns")' + n
        BY <1>5, <3>2, <3>3, <3>4 DEF Kinds
      <4> QED BY <4>1, <4>2
    <3>6. \A i \in 1 .. n : ~ (r <= n - i)
      BY <3>5
    <3> QED BY <3>1, <3>5, <3>6 DEF ReleasedIn
  <2> QED BY <1>1, <1>2, <2>1 DEF DnsInv, Single, ReleasedIn
<1>10. ExitInv'
  BY DEF ExitInv
<1>11. program = "entry" => \A c \in Chains : EmptiedIn(tables, c, ToGo(c))'
  BY <1>7 DEF EmptiedIn
<1> QED BY <1>4, <1>6, <1>8, <1>9, <1>10, <1>11 DEF RulesInv

\* The end of a cleanup script keeps it.
LEMMA CleanupDoneRules ==
  ASSUME RulesInv, CleanupDone
  PROVE  RulesInv'
<1>1. /\ Stopping /\ todo = <<>> /\ TypeInv /\ TodoInv /\ DnsInv /\ \A c \in Chains : ChainInv(c)
      /\ program \in {"network", "entry"}
  BY DEF CleanupDone, RulesInv, TypeInv, Stopping
<1>2. CASE program = "network" /\ phase = "stopping"
  <2>1. /\ phase' = "again" /\ todo' = cleanup_on_exit(config.devices) /\ flight' = {}
        /\ program' = program /\ config' = config /\ tables' = tables /\ exit' = exit
    BY <1>2 DEF CleanupDone, hostVars
  <2>2. FlightInv'
    BY <2>1 DEF FlightInv
  <2> QED BY <1>2, <2>1, <2>2, CleanupStarts
<1>3. CASE ~ (program = "network" /\ phase = "stopping")
  <2>1. GoDown("stopped")
    BY <1>3 DEF CleanupDone
  <2>2. \A k \in Kinds : ToGo(k) \in Int /\ ToGo(k) <= 0
    BY <1>1, StateFacts DEF ToGo
  <2>3. ASSUME program = "network"
        PROVE  /\ tables.jump["dnat"] = 0 /\ tables.body["dnat"] = NoChain
               /\ \A i \in 1 .. Len(config.devices) : tables.redirect[config.devices[i]] = 0
    <3>1. DroppedIn(tables, "dnat", ToGo("dnat")) /\ ReleasedIn(tables, config.devices, ToGo("dns"))
      BY <1>1, <2>3 DEF ChainInv, DnsInv, Chains
    <3>2. ToGo("dnat") \in Int /\ ToGo("dnat") <= 0 /\ ToGo("dns") \in Int /\ ToGo("dns") <= 0
      BY <2>2, KindsList
    <3>3. Len(config.devices) \in Nat
      BY <1>1, ConfigFacts DEF TypeInv
    <3> QED BY <3>1, <3>2, <3>3 DEF DroppedIn, ReleasedIn
  <2>4. ASSUME program = "entry", NEW c \in Chains
        PROVE  tables.jump[c] = 0 \/ tables.body[c] \in {NoChain, <<>>}
    <3>1. DisarmedIn(tables, c, ToGo(c)) /\ ToGo(c) \in Int /\ ToGo(c) <= 0
      BY <1>1, <2>2, <2>4 DEF ChainInv, Kinds
    <3> QED BY <3>1 DEF DisarmedIn
  <2> QED BY <2>1, <2>3, <2>4, GoDownRules
<1> QED BY <1>2, <1>3

-----------------------------------------------------------------------------
(* Signals                                                                 *)

\* The command that the main thread waits for.
LEMMA HeadFacts ==
  ASSUME RulesInv, todo # <<>>, NEW cmd, cmd = Head(todo)
  PROVE  /\ Working /\ cmd \in Commands
         /\ \A k \in Kinds : /\ ToGo(k) \in Int
                             /\ NextOf(cmd, k, Part(program, config, phase = "setup", k), ToGo(k))
<1>1. Working /\ todo \in Seq(Commands) /\ TypeInv /\ TodoInv
  BY DEF RulesInv, TypeInv, TodoInv
<1>2. cmd \in Commands
  BY <1>1, TailFromEnd
<1>3. ASSUME NEW k \in Kinds
      PROVE  NextOf(cmd, k, Part(program, config, phase = "setup", k), ToGo(k))
  <2>1. PICK after, seg : after \in Nat /\ after = Place(k) /\ seg = Part(program, config, phase = "setup", k)
    BY <1>1, StateFacts
  <2>2. Left(todo, k, after, seg)
    BY <1>1, <2>1 DEF TodoInv
  <2>3. LET r == Len(todo) - after IN
        IF r >= 1 /\ r <= Len(seg) THEN Head(todo) = FromEnd(seg, r) ELSE ~ About(Head(todo), k)
    BY <1>1, <2>1, <2>2, LeftTail
  <2> QED BY <2>1, <2>3 DEF ToGo, NextOf
<1> QED BY <1>1, <1>2, <1>3, StateFacts

\* A signal leaves at most that command in flight, and only one for iptables.
LEMMA InterruptedFlight ==
  ASSUME NEW script, Interrupted(script)
  PROVE  /\ todo' = script
         /\ \/ flight' = flight
            \/ /\ todo # <<>> /\ Head(todo)[1] \in ChainCommands \cup DnsCommands
               /\ flight' = flight \cup {Head(todo)}
<1>1. PICK f \in InFlight : todo' = script /\ flight' = flight \cup f
  BY DEF Interrupted
<1>2. CASE f = {}
  BY <1>1, <1>2
<1>3. CASE f # {}
  <2>1. todo # <<>> /\ f = {c \in {Head(todo)} : c[1] \in TableCommands}
    BY <1>1, <1>3 DEF InFlight
  <2>2. f = {Head(todo)} /\ Head(todo)[1] \in TableCommands
    BY <1>3, <2>1
  <2> QED BY <1>1, <2>1, <2>2 DEF TableCommands, ChainCommands, DnsCommands
<1> QED BY <1>2, <1>3

\* What an interrupted command of MakeChain meets.
LEMMA InterruptedMaking ==
  ASSUME NEW t, NEW c \in Chains, NEW rules \in Seq(RulesFor(c)), NEW r \in Int, NEW cmd,
         About(cmd, c), NextOf(cmd, c, MakeChain(c, rules), r), MadeIn(t, c, rules, r)
  PROVE  /\ cmd[1] = "-A" => t.jump[c] = 0
         /\ cmd[1] = "-I" => t.jump[c] = 0 /\ t.body[c] = rules
<1>1. PICK n \in Nat : n = Len(rules)
  BY LenProperties
<1>2. PICK s : /\ s = MakeChain(c, rules) /\ Len(s) = n + 5
               /\ FromEnd(s, 1) = <<"-I", c>>
               /\ FromEnd(s, n + 2) = <<"-N", c>> /\ FromEnd(s, n + 3) = <<"-X", c>>
               /\ FromEnd(s, n + 4) = <<"-F", c>> /\ FromEnd(s, n + 5) = <<"-D", c>>
               /\ \A i \in 2 .. n + 1 : FromEnd(s, i) = <<"-A", c, rules[n + 2 - i]>>
  BY <1>1, MakeListed
<1>3. r >= 1 /\ r <= n + 5 /\ cmd = FromEnd(s, r)
  BY <1>2 DEF NextOf
<1>4. CASE r = 1
  <2>1. cmd[1] = "-I"
    BY <1>2, <1>3, <1>4
  <2>2. t.jump[c] = 0 /\ t.body[c] = SubSeq(rules, 1, n)
    BY <1>1, <1>4 DEF MadeIn
  <2> QED BY <1>1, <2>1, <2>2, SubSeqFull
<1>5. CASE r \in 2 .. n + 1
  <2>1. cmd[1] = "-A"
    BY <1>2, <1>3, <1>5
  <2>2. t.jump[c] = 0
    BY <1>1, <1>5 DEF MadeIn
  <2> QED BY <2>1, <2>2
<1>6. CASE r > n + 1
  <2>1. r = n + 2 \/ r = n + 3 \/ r = n + 4 \/ r = n + 5
    BY <1>3, <1>6
  <2>2. cmd[1] \in {"-N", "-X", "-F", "-D"}
    BY <1>2, <1>3, <2>1
  <2> QED BY <2>2
<1> QED BY <1>3, <1>4, <1>5, <1>6

\* A signal to network_setup.py, which starts its cleanup (again), keeps it.
LEMMA NetworkSignalRules ==
  ASSUME RulesInv, NetworkSignal
  PROVE  RulesInv'
<1>1. /\ program = "network" /\ phase \in {"running", "stopping", "again"}
      /\ phase' \in {"stopping", "again"} /\ Interrupted(cleanup_on_exit(config.devices))
      /\ UNCHANGED <<program, config, exit, tables>>
  BY DEF NetworkSignal, hostVars
<1>2. FlightInv /\ flight \subseteq Commands
  BY DEF RulesInv, TypeInv
<1>3. /\ todo' = cleanup_on_exit(config.devices)
      /\ \/ flight' = flight
         \/ /\ todo # <<>> /\ Head(todo)[1] \in ChainCommands \cup DnsCommands
            /\ flight' = flight \cup {Head(todo)}
  BY <1>1, InterruptedFlight
<1>4. ASSUME todo # <<>>, NEW cmd, cmd = Head(todo), cmd[1] \in ChainCommands \cup DnsCommands
      PROVE  /\ cmd \in Commands
             /\ cmd[1] = "dns-D" \/ (cmd[1] \in {"-D", "-F", "-X"} /\ cmd[2] = "dnat")
  <2>1. /\ phase # "setup" /\ cmd \in Commands
        /\ \A k \in Kinds : /\ ToGo(k) \in Int
                            /\ NextOf(cmd, k, Part(program, config, phase = "setup", k), ToGo(k))
    BY <1>1, <1>4, HeadFacts
  <2>2. CASE cmd[1] \in DnsCommands
    <3> DEFINE s == cleanup_dns_iptables(config.devices)
    <3>1. PICK devices \in Seq(Devices), n \in Nat : devices = config.devices /\ n = Len(devices)
      BY ConfigFacts DEF RulesInv, TypeInv
    <3>2. Len(s) = n /\ \A i \in 1 .. n : FromEnd(s, n + 1 - i) = <<"dns-D", devices[i]>>
      BY <3>1, ReleaseListed
    <3>3. PICK r \in Int : r = ToGo("dns") /\ NextOf(cmd, "dns", s, r)
      BY <1>1, <2>1, <3>1 DEF Part, Kinds
    <3>4. r \in 1 .. n /\ cmd = FromEnd(s, r)
      BY <2>2, <3>2, <3>3 DEF NextOf, About
    <3>5. PICK i \in 1 .. n : r = n + 1 - i
      <4>1. n + 1 - r \in 1 .. n /\ r = n + 1 - (n + 1 - r)
        BY <3>4
      <4> QED BY <4>1
    <3>6. cmd = <<"dns-D", devices[i]>>
      BY <3>2, <3>4, <3>5
    <3> QED BY <2>1, <3>6
  <2>3. CASE cmd[1] \in ChainCommands
    <3>1. PICK c \in Chains : c = cmd[2]
      BY <2>1, <2>3, CommandKinds
    <3>2. About(cmd, c)
      BY <2>3, <3>1 DEF About, Chains
    <3>3. c = "dnat"
      <4>1. SUFFICES ASSUME c = "block" PROVE FALSE
        BY DEF Chains
      <4>2. Part(program, config, phase = "setup", c) = <<>>
        BY <1>1, <2>1, <4>1 DEF Part, DropsBy
      <4> QED BY <2>1, <3>2, <4>2, NextOfNothing DEF Kinds
    <3>4. NextOf(cmd, c, DropChain(c), ToGo(c)) /\ ToGo(c) \in Int
      BY <1>1, <2>1, <3>3 DEF Part, DropsBy, Kinds, Chains
    <3>5. PICK r \in Int : r >= 1 /\ r <= 3 /\ cmd = FromEnd(DropChain(c), r)
      <4>1. PICK r \in Int : r = ToGo(c)
        BY <3>4
      <4>2. Len(DropChain(c)) = 3
        BY Listed
      <4> QED BY <3>2, <3>4, <4>1, <4>2 DEF NextOf
    <3>6. cmd \in {<<"-X", c>>, <<"-F", c>>, <<"-D", c>>}
      <4>1. r = 1 \/ r = 2 \/ r = 3
        BY <3>5
      <4> QED BY <3>5, <4>1, Listed
    <3> QED BY <2>1, <3>3, <3>6
  <2> QED BY <1>4, <2>2, <2>3
<1>5. flight' \subseteq Commands
  BY <1>2, <1>3, <1>4
<1>6. FlightInv'
  <2>1. ASSUME NEW f \in flight' PROVE LateInv(f)'
    <3>1. CASE f \in flight
      BY <1>1, <1>2, <3>1 DEF FlightInv, LateInv
    <3>2. CASE f \notin flight
      <4>1. todo # <<>> /\ f = Head(todo) /\ f[1] \in ChainCommands \cup DnsCommands
        BY <1>3, <2>1, <3>2
      <4> QED BY <1>1, <1>4, <4>1 DEF LateInv
    <3> QED BY <3>1, <3>2
  <2> QED BY <1>1, <2>1 DEF FlightInv, Stopping
<1> QED BY <1>1, <1>3, <1>5, <1>6, CleanupStarts

\* A signal to entry.py during its setup keeps it.
LEMMA shutdown_InSetupRules ==
  ASSUME RulesInv, shutdown_InSetup
  PROVE  RulesInv'
<1>1. /\ program = "entry" /\ phase = "setup" /\ phase' = "stopping"
      /\ Interrupted(cleanup_all_iptables(<<>>))
      /\ UNCHANGED <<program, config, exit, tables>>
  BY DEF shutdown_InSetup, hostVars
<1>2. TypeInv /\ flight = {} /\ \A c \in Chains : ChainInv(c)
  BY <1>1 DEF RulesInv, FlightInv, Stopping
<1>3. /\ todo' = cleanup_all_iptables(<<>>)
      /\ \/ flight' = {}
         \/ /\ todo # <<>> /\ Head(todo)[1] \in ChainCommands \cup DnsCommands
            /\ flight' = {Head(todo)}
  BY <1>1, <1>2, InterruptedFlight
<1>4. flight' \subseteq Commands
  BY <1>3, HeadFacts
<1>5. /\ FlightInv' => RulesInv'
      /\ \A c \in Chains : EmptiedIn(tables, c, ToGo(c))'
  BY <1>1, <1>3, <1>4, CleanupStarts
<1>6. ASSUME todo # <<>>, NEW cmd, cmd = Head(todo), cmd[1] \in ChainCommands \cup DnsCommands
      PROVE  LateInv(cmd)'
  <2>1. /\ cmd \in Commands
        /\ \A k \in Kinds : /\ ToGo(k) \in Int
                            /\ NextOf(cmd, k, Part(program, config, TRUE, k), ToGo(k))
    BY <1>1, <1>6, HeadFacts
  <2>2. cmd[1] \in ChainCommands
    <3>1. SUFFICES ASSUME cmd[1] \in DnsCommands PROVE FALSE
      BY <1>6
    <3>2. Part(program, config, TRUE, "dns") = <<>>
      BY <1>1 DEF Part
    <3>3. ~ About(cmd, "dns")
      BY <2>1, <3>2, NextOfNothing DEF Kinds
    <3> QED BY <3>1, <3>3 DEF About
  <2>3. PICK c \in Chains : c = cmd[2]
    BY <2>1, <2>2, CommandKinds
  <2>4. About(cmd, c)
    BY <2>2, <2>3 DEF About, Chains
  <2>5. PICK r \in Int, rules \in Seq(RulesFor(c)) :
          r = ToGo(c) /\ rules = RulesOf(c) /\ rules \in Complete(c)
    BY <1>2, <2>1, StateFacts DEF Kinds
  <2>6. Makes(c)
    <3>1. SUFFICES ASSUME ~ Makes(c) PROVE FALSE
      OBVIOUS
    <3>2. Part(program, config, TRUE, c) = <<>>
      BY <3>1 DEF Part, Makes, Chains
    <3> QED BY <2>1, <2>4, <3>2, NextOfNothing DEF Kinds
  <2>7. NextOf(cmd, c, MakeChain(c, rules), r) /\ MadeIn(tables, c, rules, r)
    <3>1. Part(program, config, TRUE, c) = MakeChain(c, rules)
      BY <2>5, <2>6 DEF Part, Makes, RulesOf, Chains
    <3>2. NextOf(cmd, c, Part(program, config, TRUE, c), ToGo(c))
      BY <2>1 DEF Kinds
    <3> QED BY <1>1, <1>2, <2>5, <2>6, <3>1, <3>2 DEF ChainInv
  <2>8. /\ cmd[1] = "-A" => tables.jump[c] = 0
        /\ cmd[1] = "-I" => tables.jump[c] = 0 /\ tables.body[c] = rules
    BY <2>4, <2>7, InterruptedMaking
  <2>9. Complete(c)' = Complete(c)
    BY <1>1 DEF Complete
  <2> QED BY <1>1, <1>5, <2>2, <2>3, <2>5, <2>8, <2>9 DEF LateInv
<1>7. FlightInv'
  BY <1>1, <1>3, <1>6 DEF FlightInv, Stopping
<1> QED BY <1>5, <1>7

\* A signal to entry.py while it waits keeps it.
LEMMA shutdown_InWaitRules ==
  ASSUME RulesInv, shutdown_InWait
  PROVE  RulesInv'
<1>1. /\ program = "entry" /\ phase = "running" /\ phase' = "timeout"
      /\ UNCHANGED <<program, config, todo, flight, exit, tables>>
  BY DEF shutdown_InWait, hostVars
<1>2. TypeInv /\ TodoInv /\ DnsInv /\ FlightInv /\ \A c \in Chains : ChainInv(c)
  BY DEF RulesInv
<1>3. ASSUME NEW c \in Chains PROVE ChainInv(c)'
  <2>1. LiveIn(tables, c, Complete(c))'
    BY <1>1, <1>2 DEF ChainInv, LiveIn, Complete
  <2> QED BY <1>1, <2>1 DEF ChainInv, Stopping
<1>4. TypeInv' /\ TodoInv' /\ DnsInv' /\ FlightInv' /\ ExitInv'
  BY <1>1, <1>2 DEF TypeInv, TodoInv, DnsInv, FlightInv, ExitInv, Working, Stopping, Single
<1> QED BY <1>3, <1>4 DEF RulesInv

-----------------------------------------------------------------------------
(* The environment                                                         *)

\* An interrupted command of the network program is one of the cleanup that
\* runs again meanwhile.
LEMMA NetworkLandsRules ==
  ASSUME RulesInv, program = "network", Stopping, NEW cmd \in flight,
         tables' = AfterCommand(tables, cmd),
         UNCHANGED <<program, config, phase, todo>>
  PROVE  (\A c \in Chains : ChainInv(c)') /\ DnsInv'
<1>1. /\ TypeInv /\ DnsInv /\ FlightInv /\ \A c \in Chains : ChainInv(c)
      /\ tables \in Tables /\ cmd \in Commands
  BY DEF RulesInv, TypeInv
<1>2. cmd[1] = "dns-D" \/ (cmd[1] \in {"-D", "-F", "-X"} /\ cmd[2] = "dnat")
  BY <1>1 DEF FlightInv, LateInv
<1>3. phase # "setup" /\ phase # "running" /\ Single(tables)
  BY <1>1 DEF Stopping, DnsInv
<1>4. /\ \A k \in Kinds : ToGo(k)' = ToGo(k)
      /\ \A c \in Chains : Complete(c)' = Complete(c)
  BY DEF ToGo, Place, Complete
<1>5. CASE cmd[1] = "dns-D"
  <2>1. \A c \in Chains : ~ About(cmd, c)
    BY <1>5 DEF About, Chains, ChainCommands
  <2>2. \A c \in Chains : tables'.jump[c] = tables.jump[c] /\ tables'.body[c] = tables.body[c]
    BY <1>1, <2>1, OtherStep
  <2>3. ASSUME NEW c \in Chains PROVE ChainInv(c)'
    <3>1. LiveIn(tables, c, Complete(c))'
      BY <1>1, <1>4, <2>2 DEF ChainInv, LiveIn
    <3>2. c = "dnat" => DroppedIn(tables, c, ToGo(c))'
      BY <1>1, <1>4, <2>2 DEF ChainInv, DroppedIn, Kinds
    <3> QED BY <1>3, <3>1, <3>2 DEF ChainInv
  <2>4. /\ cmd[2] \in Devices /\ tables'.redirect[cmd[2]] = 0
        /\ \A d \in Devices : d # cmd[2] => tables'.redirect[d] = tables.redirect[d]
        /\ Single(tables')
    BY <1>1, <1>3, <1>5, ReleaseStep
  <2>5. ReleasedIn(tables', config.devices, ToGo("dns"))
    <3>1. ReleasedIn(tables, config.devices, ToGo("dns"))
      BY <1>1 DEF DnsInv
    <3>2. \A i \in 1 .. Len(config.devices) : config.devices[i] \in Devices
      BY <1>1, ConfigFacts DEF TypeInv
    <3> QED BY <2>4, <3>1, <3>2 DEF ReleasedIn
  <2> QED BY <1>3, <1>4, <2>3, <2>4, <2>5 DEF DnsInv, Single, ReleasedIn, Kinds
<1>6. CASE cmd[1] \in {"-D", "-F", "-X"} /\ cmd[2] = "dnat"
  <2>1. ~ About(cmd, "dns") /\ ~ About(cmd, "block") /\ "dnat" \in Chains /\ "block" \in Chains
    BY <1>6 DEF About, Chains, DnsCommands
  <2>2. /\ tables'.jump["block"] = tables.jump["block"]
        /\ tables'.body["block"] = tables.body["block"]
        /\ \A d \in Devices : tables'.redirect[d] = tables.redirect[d]
        /\ Single(tables')
    BY <1>1, <1>3, <2>1, OtherStep, OtherDnsStep
  <2>3. PICK r, whole :
          /\ r \in Int /\ r = ToGo("dnat")
          /\ whole = Complete("dnat") /\ <<>> \in whole
    BY <1>1, <2>1, StateFacts DEF Kinds
  <2>4. LiveIn(tables, "dnat", whole) /\ DroppedIn(tables, "dnat", r)
    BY <1>1, <2>1, <2>3 DEF ChainInv
  <2>5. /\ LiveIn(tables', "dnat", whole)
        /\ tables.jump["dnat"] = 0 => tables'.jump["dnat"] = 0
        /\ tables'.body["dnat"] = tables.body["dnat"] \/ tables'.body["dnat"] \in {<<>>, NoChain}
        /\ tables.body["dnat"] = NoChain => tables'.body["dnat"] = NoChain
    BY <1>1, <1>6, <2>1, <2>3, <2>4, RemovingStep
  <2>6. DroppedIn(tables', "dnat", r)
    BY <2>3, <2>4, <2>5 DEF DroppedIn
  <2>7. ChainInv("dnat")'
    BY <1>3, <1>4, <2>1, <2>3, <2>5, <2>6 DEF ChainInv, LiveIn, DroppedIn, Kinds
  <2>8. ChainInv("block")'
    <3>1. LiveIn(tables, "block", Complete("block"))'
      BY <1>1, <1>4, <2>1, <2>2 DEF ChainInv, LiveIn
    <3> QED BY <1>3, <3>1 DEF ChainInv
  <2>9. DnsInv'
    <3>1. ReleasedIn(tables, config.devices, ToGo("dns"))
      BY <1>1 DEF DnsInv
    <3>2. \A i \in 1 .. Len(config.devices) : config.devices[i] \in Devices
      BY <1>1, ConfigFacts DEF TypeInv
    <3> QED BY <1>3, <1>4, <2>2, <3>1, <3>2 DEF DnsInv, Single, ReleasedIn, Kinds
  <2> QED BY <2>7, <2>8, <2>9, KindsList
<1> QED BY <1>2, <1>5, <1>6

\* One of the entry program is of the setup that the cleanup takes back.
LEMMA EntryLandsRules ==
  ASSUME RulesInv, program = "entry", Stopping, NEW cmd \in flight,
         tables' = AfterCommand(tables, cmd),
         UNCHANGED <<program, config, phase, todo>>
  PROVE  (\A c \in Chains : ChainInv(c)') /\ DnsInv'
<1>1. /\ TypeInv /\ DnsInv /\ FlightInv /\ \A c \in Chains : ChainInv(c)
      /\ tables \in Tables /\ cmd \in Commands
  BY DEF RulesInv, TypeInv
<1>2. LateInv(cmd) /\ cmd[1] \in ChainCommands
  BY <1>1 DEF FlightInv, LateInv
<1>3. phase # "setup" /\ phase # "running" /\ Single(tables)
  BY <1>1 DEF Stopping, DnsInv
<1>4. /\ \A k \in Kinds : ToGo(k)' = ToGo(k)
      /\ \A c \in Chains : Complete(c)' = Complete(c)
  BY DEF ToGo, Place, Complete
<1>5. DnsInv'
  <2>1. ~ About(cmd, "dns")
    BY <1>2 DEF About, ChainCommands, DnsCommands
  <2>2. Single(tables')
    BY <1>1, <1>3, <2>1, OtherDnsStep
  <2> QED BY <2>2 DEF DnsInv, Single
<1>6. ASSUME NEW c \in Chains PROVE ChainInv(c)'
  <2>1. LiveIn(tables, c, Complete(c)) /\ DisarmedIn(tables, c, ToGo(c))
    BY <1>1 DEF ChainInv
  <2>2. LiveIn(tables', c, Complete(c)) /\ DisarmedIn(tables', c, ToGo(c))
    <3>1. CASE cmd[2] # c
      <4>1. ~ About(cmd, c)
        BY <3>1 DEF About, Chains
      <4>2. tables'.jump[c] = tables.jump[c] /\ tables'.body[c] = tables.body[c]
        BY <1>1, <4>1, OtherStep
      <4> QED BY <2>1, <4>2 DEF LiveIn, DisarmedIn
    <3>2. CASE cmd[2] = c
      <4>1. PICK r, whole : r \in Int /\ r = ToGo(c) /\ whole = Complete(c) /\ <<>> \in whole
        BY <1>1, StateFacts DEF Kinds
      <4>2. /\ cmd[1] = "-A" => tables.jump[c] = 0
            /\ cmd[1] = "-I" => /\ tables.jump[c] = 0
                                /\ tables.body[c] \in whole \cup {NoChain}
                                /\ EmptiedIn(tables, c, r)
        BY <1>2, <3>2, <4>1 DEF LateInv
      <4> QED BY <1>1, <1>2, <2>1, <3>2, <4>1, <4>2, LateStep
    <3> QED BY <3>1, <3>2
  <2> QED BY <1>3, <1>4, <2>2 DEF ChainInv, LiveIn, DisarmedIn, Kinds
<1> QED BY <1>5, <1>6

\* The command a signal interrupted, ending late, keeps it.
LEMMA FlightLandsRules ==
  ASSUME RulesInv, FlightLands
  PROVE  RulesInv'
<1>1. PICK cmd \in flight :
        /\ tables' = Apply(tables, cmd) /\ flight' = flight \ {cmd}
        /\ UNCHANGED <<program, config, phase, todo, exit>>
  BY DEF FlightLands
<1>2. TypeInv /\ TodoInv /\ FlightInv /\ Stopping /\ cmd \in Commands /\ LateInv(cmd)
  BY DEF RulesInv, TypeInv, FlightInv
<1>3. cmd[1] \in TableCommands
  <2>1. program \in {"network", "entry"}
    BY <1>2 DEF TypeInv
  <2> QED BY <1>2, <2>1 DEF LateInv, TableCommands, ChainCommands
<1>4. tables' = AfterCommand(tables, cmd)
  BY <1>1, <1>3 DEF AfterCommand
<1>5. (\A c \in Chains : ChainInv(c)') /\ DnsInv'
  BY <1>1, <1>2, <1>4, NetworkLandsRules, EntryLandsRules DEF TypeInv
<1>6. TypeInv'
  <2>1. tables' \in Tables
    BY <1>2, <1>4, CommandEffect DEF TypeInv
  <2> QED BY <1>1, <1>2, <2>1 DEF TypeInv
<1>7. TodoInv' /\ ExitInv'
  BY <1>1, <1>2 DEF TodoInv, ExitInv, Working, Stopping, Place
<1>8. FlightInv'
  <2>1. CASE program = "network"
    BY <1>1, <1>2, <2>1 DEF FlightInv, LateInv, Stopping
  <2>2. CASE program = "entry"
    <3>1. flight' = {}
      BY <1>1, <1>2, <2>2 DEF FlightInv
    <3> QED BY <3>1 DEF FlightInv
  <2> QED BY <1>2, <2>1, <2>2 DEF TypeInv
<1> QED BY <1>5, <1>6, <1>7, <1>8 DEF RulesInv

-----------------------------------------------------------------------------
(* What the runs check                                                     *)

\* A program that ends in any other way says nothing of what it leaves.
LEMMA EndsRules ==
  ASSUME RulesInv, ToolFails \/ TimeoutExpired \/ Go2rtcExits \/ Killed
  PROVE  RulesInv'
<1>1. PICK how \in {"failed", "raised", "unexpected", "killed"} : GoDown(how)
  BY DEF ToolFails, TimeoutExpired, Go2rtcExits, Killed
<1> QED BY <1>1, GoDownRules

\* A step that changes nothing keeps it.
LEMMA StutterRules ==
  ASSUME RulesInv, UNCHANGED vars
  PROVE  RulesInv'
<1>1. UNCHANGED <<program, config, phase, todo, flight, exit, tables>>
  BY DEF vars, hostVars
<1>2. \A k : ToGo(k)' = ToGo(k) /\ Place(k)' = Place(k) /\ Complete(k)' = Complete(k)
             /\ RulesOf(k)' = RulesOf(k) /\ (Makes(k)' <=> Makes(k))
  BY <1>1 DEF ToGo, Place, Complete, RulesOf, Makes
<1>3. TypeInv' /\ TodoInv' /\ ExitInv'
  BY <1>1, <1>2 DEF RulesInv, TypeInv, TodoInv, ExitInv, Working
<1>4. DnsInv' /\ \A c \in Chains : ChainInv(c)'
  BY <1>1, <1>2 DEF RulesInv, DnsInv, ChainInv, Stopping, Single, RedirectedIn, ReleasedIn,
                    LiveIn, MadeIn, DroppedIn, DisarmedIn
<1>5. FlightInv'
  BY <1>1, <1>2 DEF RulesInv, FlightInv, LateInv, Stopping, EmptiedIn
<1> QED BY <1>3, <1>4, <1>5 DEF RulesInv

\* The rules are where the script has come to, in every interleaving of
\* setups, cleanups, signals, late commands and kills.
THEOREM RulesInvariant == Spec => []RulesInv
<1>1. Init => RulesInv
  BY InitRules
<1>2. RulesInv /\ [Next]_vars => RulesInv'
  <2>1. SUFFICES ASSUME RulesInv, [Next]_vars PROVE RulesInv'
    OBVIOUS
  <2> QED BY <2>1, StartRules, CommandRules, SetupDoneRules, CleanupDoneRules, NetworkSignalRules,
             shutdown_InSetupRules, shutdown_InWaitRules, FlightLandsRules, EndsRules, StutterRules
          DEF Next
<1> QED BY <1>1, <1>2, PTL DEF Spec

\* A completed setup leaves exactly its own rules, whatever killed, failed or
\* reconfigured runs before it have left (network_setup.py 122-148, 381-402).
THEOREM CompletedSetupReplaces == Spec => []SetupReplaces
<1>1. RulesInv => SetupReplaces
  <2>1. SUFFICES ASSUME RulesInv, phase = "running"
        PROVE  /\ program = "network" =>
                    /\ Installed("dnat", DnatRules(Redirected(config), config.relay))
                    /\ \A d \in ToSet(config.devices) : tables.redirect[d] = 1
               /\ program = "entry" /\ config.lanOnly =>
                    /\ Installed("dnat", DnatRules(Redirected(config), config.relay))
                    /\ Installed("block", BlockRules)
    BY DEF SetupReplaces
  <2>2. TypeInv /\ DnsInv /\ \A c \in Chains : ChainInv(c)
    BY <2>1 DEF RulesInv
  <2>3. \A c \in Chains : Makes(c) => Installed(c, RulesOf(c))
    BY <2>1, <2>2 DEF ChainInv, Installed
  <2>4. /\ RulesOf("dnat") = DnatRules(Redirected(config), config.relay)
        /\ RulesOf("block") = BlockRules
        /\ program = "network" => Makes("dnat")
        /\ program = "entry" /\ config.lanOnly => Makes("dnat") /\ Makes("block")
    BY DEF RulesOf, RulesBy, Redirected, Makes, MakesBy
  <2>5. ASSUME program = "network", NEW d \in ToSet(config.devices) PROVE tables.redirect[d] = 1
    <3>1. PICK i \in 1 .. Len(config.devices) : d = config.devices[i]
      <4>1. config \in Configs
        BY <2>2 DEF TypeInv
      <4>2. ToSet(config.devices) = {config.devices[i] : i \in 1 .. Len(config.devices)}
        BY <4>1, ConfigFacts
      <4> QED BY <2>5, <4>2
    <3> QED BY <2>1, <2>2, <2>5, <3>1 DEF DnsInv
  <2> QED BY <2>3, <2>4, <2>5, KindsList
<1> QED BY <1>1, RulesInvariant, PTL

\* A chain that a hook jumps to is empty or complete, at every moment.
THEOREM NoHalfChain == Spec => []LiveChainsComplete
<1>1. RulesInv => LiveChainsComplete
  <2>1. SUFFICES ASSUME RulesInv PROVE LiveChainsComplete
    OBVIOUS
  <2>2. \A c \in Chains : LiveIn(tables, c, Complete(c))
    BY <2>1 DEF RulesInv, ChainInv
  <2>3. \A c \in Chains : tables.jump[c] > 0 => tables.body[c] \in Complete(c)
    <3>1. \A c \in Chains : tables.jump[c] > 0 => tables.jump[c] = 1
      BY <2>2 DEF LiveIn
    <3> QED BY <2>2, <3>1 DEF LiveIn
  <2>4. \A x \in Configs : RulesBy(program, x, "dnat") = DnatRules(Redirected(x), x.relay)
    BY DEF RulesBy, Redirected
  <2>5. Complete("dnat") \subseteq {<<>>} \cup {DnatRules(Redirected(x), x.relay) : x \in Configs}
    BY <2>4 DEF Complete
  <2>6. Complete("block") \subseteq {<<>>, BlockRules}
    BY DEF Complete, RulesBy
  <2> QED BY <2>3, <2>5, <2>6, KindsList DEF LiveChainsComplete
<1> QED BY <1>1, RulesInvariant, PTL

\* However many signals interrupt its cleanup, the network program leaves no
\* rule of its devices (network_setup.py 516-529, 584-600).
THEOREM NetworkExitsClean == Spec => []NetworkExitCleans
<1>1. RulesInv => NetworkExitCleans
  <2>1. SUFFICES ASSUME RulesInv, program = "network", exit = "stopped", phase = "down"
        PROVE  /\ tables.jump["dnat"] = 0 /\ tables.body["dnat"] = NoChain
               /\ \A d \in ToSet(config.devices) : tables.redirect[d] = 0
    BY DEF NetworkExitCleans
  <2>2. config \in Configs /\ ExitInv
    BY <2>1 DEF RulesInv, TypeInv
  <2>3. ASSUME NEW d \in ToSet(config.devices) PROVE tables.redirect[d] = 0
    <3>1. PICK i \in 1 .. Len(config.devices) : d = config.devices[i]
      BY <2>2, ConfigFacts
    <3> QED BY <2>1, <2>2, <3>1 DEF ExitInv
  <2> QED BY <2>1, <2>2, <2>3 DEF ExitInv
<1> QED BY <1>1, RulesInvariant, PTL

\* Nor is a rule of the entry program in effect that a shutdown interrupted in
\* its setup, even if the interrupted command comes last (entrypoint.py 208-239).
THEOREM EarlyShutdownLeavesNothingLive == Spec => []EarlyShutdownDisarms
<1>1. RulesInv => EarlyShutdownDisarms
  BY DEF RulesInv, ExitInv, EarlyShutdownDisarms
<1> QED BY <1>1, RulesInvariant, PTL

-----------------------------------------------------------------------------
(* The tools of the entry program                                          *)

Rmtree   == <<"rmtree">>
Make(x)  == <<"make", x>>
Link(b)  == <<"ninja", b>>
Go       == <<"start_go2rtc">>
MakeAll  == {Make(x) : x \in Items}
MakeSdk  == {Make(x) : x \in Items \ {Shims}}
SdkItems == {"copied", "patched"} \X SdkLibs
Earlier  == {cmd \in Commands : cmd[1] # "start_go2rtc"}

\* All commands of P come before all of Q.
Before(s, P, Q) == \A i, j \in DOMAIN s : s[i] \in P /\ s[j] \in Q => i < j

Free(s, P) == \A x \in ToSet(s) : x \notin P

Named(s, names) == \A cmd \in ToSet(s) : cmd[1] \in names

\* In a script of two commands the first comes before the second.
LEMMA BeforePair ==
  ASSUME NEW x, NEW y, NEW P, NEW Q, x \notin Q, y \notin P
  PROVE  Before(<<x, y>>, P, Q)
<1>1. PICK s : s = <<x, y>>
  OBVIOUS
<1>2. DOMAIN s = 1 .. 2 /\ s[1] = x /\ s[2] = y
  BY <1>1
<1>3. Before(s, P, Q)
  BY <1>2 DEF Before
<1> QED BY <1>1, <1>3

\* The commands of a script of two.
LEMMA PairMembers ==
  ASSUME NEW x, NEW y
  PROVE  ToSet(<<x, y>>) = {x, y}
<1>1. PICK s : s = <<x, y>>
  OBVIOUS
<1>2. DOMAIN s = 1 .. 2 /\ s[1] = x /\ s[2] = y
  BY <1>1
<1>3. \A i \in 1 .. 2 : i = 1 \/ i = 2
  OBVIOUS
<1>4. ToSet(s) = {x, y}
  BY <1>2, <1>3 DEF ToSet
<1> QED BY <1>1, <1>4

\* A script without one of the two kinds has them in any order.
LEMMA BeforeFree ==
  ASSUME NEW s, NEW P, NEW Q, Free(s, P) \/ Free(s, Q)
  PROVE  Before(s, P, Q)
<1>1. \A i \in DOMAIN s : s[i] \in ToSet(s)
  BY DEF ToSet
<1> QED BY <1>1 DEF Before, Free

\* Two scripts in a row.
LEMMA BeforeConcat ==
  ASSUME NEW S, NEW a \in Seq(S), NEW b \in Seq(S), NEW P, NEW Q,
         Before(a, P, Q), Before(b, P, Q), Free(a, Q) \/ Free(b, P)
  PROVE  Before(a \o b, P, Q)
<1>1. PICK s : s = a \o b
  OBVIOUS
<1>2. PICK n \in Nat : n = Len(a) /\ DOMAIN a = 1 .. n
  BY LenProperties
<1>3. \A i \in DOMAIN s : \/ i \in DOMAIN a /\ s[i] = a[i] /\ a[i] \in ToSet(a)
                          \/ \E k \in DOMAIN b : i = n + k /\ s[i] = b[k] /\ b[k] \in ToSet(b)
  BY <1>1, <1>2, ConcatPositions
<1>4. DOMAIN b \subseteq Nat \ {0}
  <2>1. DOMAIN b = 1 .. Len(b) /\ Len(b) \in Nat
    BY LenProperties
  <2> QED BY <2>1
<1>5. ASSUME NEW i \in DOMAIN s, NEW j \in DOMAIN s, s[i] \in P, s[j] \in Q PROVE i < j
  <2>1. CASE i \in DOMAIN a /\ s[i] = a[i] /\ a[i] \in ToSet(a)
    <3>1. CASE j \in DOMAIN a /\ s[j] = a[j] /\ a[j] \in ToSet(a)
      BY <1>5, <2>1, <3>1 DEF Before
    <3>2. CASE \E k \in DOMAIN b : j = n + k /\ s[j] = b[k] /\ b[k] \in ToSet(b)
      BY <1>2, <1>4, <2>1, <3>2
    <3> QED BY <1>3, <3>1, <3>2
  <2>2. CASE \E k \in DOMAIN b : i = n + k /\ s[i] = b[k] /\ b[k] \in ToSet(b)
    <3>1. PICK k \in DOMAIN b : i = n + k /\ s[i] = b[k] /\ b[k] \in ToSet(b)
      BY <2>2
    <3>2. CASE j \in DOMAIN a /\ s[j] = a[j] /\ a[j] \in ToSet(a)
      BY <1>5, <3>1, <3>2 DEF Free
    <3>3. CASE \E l \in DOMAIN b : j = n + l /\ s[j] = b[l] /\ b[l] \in ToSet(b)
      <4>1. PICK l \in DOMAIN b : j = n + l /\ s[j] = b[l]
        BY <3>3
      <4>2. k < l
        BY <1>5, <3>1, <4>1 DEF Before
      <4> QED BY <1>2, <1>4, <3>1, <4>1, <4>2
    <3> QED BY <1>3, <3>2, <3>3
  <2> QED BY <1>3, <2>1, <2>2
<1> QED BY <1>1, <1>5 DEF Before

\* The rest of a script.
LEMMA BeforeTail ==
  ASSUME NEW S, NEW s \in Seq(S), s # <<>>
  PROVE  /\ ToSet(s) = {Head(s)} \cup ToSet(Tail(s))
         /\ \A P, Q : Before(s, P, Q) =>
              /\ Before(Tail(s), P, Q)
              /\ Head(s) \in Q => Head(s) \notin P /\ Free(Tail(s), P)
<1>1. PICK n \in Nat \ {0}, t \in Seq(S) : n = Len(s) /\ t = Tail(s)
  BY TailFromEnd
<1>2. /\ Len(t) = n - 1 /\ DOMAIN s = 1 .. n /\ DOMAIN t = 1 .. n - 1
      /\ \A i \in 1 .. n - 1 : t[i] = s[i + 1]
      /\ Head(s) = s[1]
  BY <1>1, TailFromEnd, LenProperties
<1>3. ToSet(s) = {Head(s)} \cup ToSet(t)
  <2>1. \A x : x \in ToSet(s) <=> \E i \in 1 .. n : s[i] = x
    BY <1>2 DEF ToSet
  <2>2. \A x : x \in ToSet(t) <=> \E i \in 1 .. n - 1 : t[i] = x
    BY <1>2 DEF ToSet
  <2>3. \A i \in 1 .. n : i = 1 \/ (i - 1 \in 1 .. n - 1 /\ t[i - 1] = s[i])
    BY <1>2
  <2>4. 1 \in 1 .. n /\ \A i \in 1 .. n - 1 : i + 1 \in 1 .. n
    OBVIOUS
  <2> QED BY <1>2, <2>1, <2>2, <2>3, <2>4
<1>4. ASSUME NEW P, NEW Q, Before(s, P, Q)
      PROVE  /\ Before(t, P, Q)
             /\ Head(s) \in Q => Head(s) \notin P /\ Free(t, P)
  <2>1. Before(t, P, Q)
    <3> SUFFICES ASSUME NEW i \in DOMAIN t, NEW j \in DOMAIN t, t[i] \in P, t[j] \in Q
                 PROVE  i < j
      BY DEF Before
    <3>1. /\ i + 1 \in DOMAIN s /\ j + 1 \in DOMAIN s /\ i \in Int /\ j \in Int
          /\ s[i + 1] \in P /\ s[j + 1] \in Q
      BY <1>2
    <3>2. i + 1 < j + 1
      BY <1>4, <3>1 DEF Before
    <3> QED BY <3>1, <3>2
  <2>2. ASSUME Head(s) \in Q PROVE Head(s) \notin P /\ Free(t, P)
    <3>1. \A i \in 1 .. n : s[i] \notin P
      <4> SUFFICES ASSUME NEW i \in 1 .. n, s[i] \in P PROVE FALSE
        OBVIOUS
      <4>1. i \in DOMAIN s /\ 1 \in DOMAIN s /\ s[1] \in Q
        BY <1>2, <2>2
      <4>2. i < 1
        BY <1>4, <4>1 DEF Before
      <4> QED BY <4>2
    <3>2. \A i \in 1 .. n - 1 : t[i] \notin P
      BY <1>2, <3>1
    <3> QED BY <1>2, <3>1, <3>2 DEF Free, ToSet
  <2> QED BY <2>1, <2>2
<1> QED BY <1>1, <1>3, <1>4

\* Two scripts in a row.
LEMMA InARow ==
  ASSUME NEW S, NEW a \in Seq(S), NEW b \in Seq(S)
  PROVE  a \o b \in Seq(S) /\ ToSet(a \o b) = ToSet(a) \cup ToSet(b)
<1>1. a \o b \in Seq(S)
  BY ConcatProperties
<1>2. ToSet(a \o b) = ToSet(a) \cup ToSet(b)
  BY ConcatToSet
<1> QED BY <1>1, <1>2

\* Two scripts that run named commands only, in a row.
LEMMA NamedConcat ==
  ASSUME NEW S, NEW a \in Seq(S), NEW b \in Seq(S), NEW names, Named(a, names), Named(b, names)
  PROVE  Named(a \o b, names) /\ a \o b \in Seq(S)
<1>1. PICK s : s = a \o b
  OBVIOUS
<1>2. s \in Seq(S) /\ ToSet(s) = ToSet(a) \cup ToSet(b)
  <2>1. a \o b \in Seq(S) /\ ToSet(a \o b) = ToSet(a) \cup ToSet(b)
    BY InARow
  <2> QED BY <1>1, <2>1, Zenon
<1>3. Named(s, names)
  BY <1>2 DEF Named
<1> QED BY <1>1, <1>2, <1>3

\* The scripts that set the rules run nothing else.
LEMMA TablesNamed ==
  /\ \A c \in Chains : /\ Named(DropChain(c), TableCommands)
                       /\ \A rules \in Seq(RulesFor(c)) : Named(MakeChain(c, rules), TableCommands)
  /\ \A devices \in Seq(Devices) : /\ Named(setup_dns_iptables(devices), TableCommands)
                                   /\ Named(cleanup_dns_iptables(devices), TableCommands)
<1>1. ASSUME NEW s, NEW n \in Nat, Len(s) = n, s \in Seq(Commands),
             \A j \in 1 .. n : FromEnd(s, j)[1] \in TableCommands
      PROVE  Named(s, TableCommands)
  <2>1. DOMAIN s = 1 .. n
    BY <1>1, LenProperties
  <2>2. ASSUME NEW i \in 1 .. n PROVE s[i][1] \in TableCommands
    <3>1. n + 1 - i \in 1 .. n /\ n + 1 - (n + 1 - i) = i
      OBVIOUS
    <3>2. FromEnd(s, n + 1 - i) = s[i]
      BY <1>1, <3>1 DEF FromEnd
    <3> QED BY <1>1, <3>1, <3>2
  <2> QED BY <2>1, <2>2 DEF Named, ToSet
<1>2. ASSUME NEW c \in Chains PROVE Named(DropChain(c), TableCommands)
  <2>1. /\ DropChain(c) \in Seq(Commands) /\ Len(DropChain(c)) = 3
        /\ FromEnd(DropChain(c), 1) = <<"-X", c>>
        /\ FromEnd(DropChain(c), 2) = <<"-F", c>>
        /\ FromEnd(DropChain(c), 3) = <<"-D", c>>
    BY Listed
  <2>2. \A j \in 1 .. 3 : FromEnd(DropChain(c), j)[1] \in TableCommands
    BY <2>1 DEF TableCommands
  <2> QED BY <1>1, <2>1, <2>2
<1>3. ASSUME NEW c \in Chains, NEW rules \in Seq(RulesFor(c))
      PROVE  Named(MakeChain(c, rules), TableCommands)
  <2>1. PICK n \in Nat, s \in Seq(Commands) :
          /\ n = Len(rules) /\ s = MakeChain(c, rules) /\ Len(s) = n + 5
          /\ FromEnd(s, 1) = <<"-I", c>>
          /\ \A j \in 2 .. n + 1 : FromEnd(s, j) = <<"-A", c, rules[n + 2 - j]>>
          /\ FromEnd(s, n + 2) = <<"-N", c>> /\ FromEnd(s, n + 3) = <<"-X", c>>
          /\ FromEnd(s, n + 4) = <<"-F", c>> /\ FromEnd(s, n + 5) = <<"-D", c>>
    <3>1. PICK n \in Nat : n = Len(rules)
      BY LenProperties
    <3>2. PICK s : s = MakeChain(c, rules)
      OBVIOUS
    <3>3. /\ s \in Seq(Commands) /\ Len(s) = n + 5
          /\ FromEnd(s, 1) = <<"-I", c>>
          /\ \A j \in 2 .. n + 1 : FromEnd(s, j) = <<"-A", c, rules[n + 2 - j]>>
          /\ FromEnd(s, n + 2) = <<"-N", c>> /\ FromEnd(s, n + 3) = <<"-X", c>>
          /\ FromEnd(s, n + 4) = <<"-F", c>> /\ FromEnd(s, n + 5) = <<"-D", c>>
      BY <3>1, <3>2, MakeListed
    <3> QED BY <3>1, <3>2, <3>3, Zenon
  <2>2. ASSUME NEW j \in 1 .. n + 5 PROVE FromEnd(s, j)[1] \in TableCommands
    <3>1. CASE j = 1
      BY <2>1, <3>1 DEF TableCommands
    <3>2. CASE j \in 2 .. n + 1
      BY <2>1, <3>2 DEF TableCommands
    <3>3. CASE j \in {n + 2, n + 3, n + 4, n + 5}
      BY <2>1, <3>3 DEF TableCommands
    <3> QED BY <3>1, <3>2, <3>3
  <2> QED BY <1>1, <2>1, <2>2
<1>4. ASSUME NEW devices \in Seq(Devices)
      PROVE  /\ Named(setup_dns_iptables(devices), TableCommands)
             /\ Named(cleanup_dns_iptables(devices), TableCommands)
  BY DEF setup_dns_iptables, cleanup_dns_iptables, Named, ToSet, TableCommands
<1> QED BY <1>2, <1>3, <1>4

\* The scripts that set or clean the rules run table commands only.
LEMMA RulesNamed ==
  ASSUME NEW x \in Configs
  PROVE  /\ Named(network_main(x), TableCommands)
         /\ Named(lan_only_rules(x), TableCommands)
         /\ Named(cleanup_on_exit(x.devices), TableCommands)
         /\ Named(cleanup_all_iptables(<<>>), TableCommands)
<1>1. PICK devices \in Seq(Devices) : devices = x.devices
  BY ConfigFacts
<1>2. PICK a, b, d, e : /\ a = setup_dns_iptables(devices) /\ b = cleanup_dns_iptables(devices)
                        /\ d = DropChain("dnat") /\ e = DropChain("block")
  OBVIOUS
<1>3. /\ a \in Seq(Commands) /\ b \in Seq(Commands) /\ d \in Seq(Commands) /\ e \in Seq(Commands)
      /\ Named(a, TableCommands) /\ Named(b, TableCommands)
      /\ Named(d, TableCommands) /\ Named(e, TableCommands)
  <2>1. Len(devices) \in Nat
    BY LenProperties
  <2> QED BY <1>2, <2>1, DnsListed, ReleaseListed, Listed, TablesNamed, KindsList
<1>4. ASSUME NEW p \in {"network", "entry"}, NEW c \in Chains
      PROVE  /\ MakeChain(c, RulesBy(p, x, c)) \in Seq(Commands)
             /\ Named(MakeChain(c, RulesBy(p, x, c)), TableCommands)
  <2>1. PICK n \in Nat, rules \in Seq(RulesFor(c)) : rules = RulesBy(p, x, c) /\ n = Len(rules)
    BY RulesFacts, LenProperties
  <2> QED BY <2>1, MakeListed, TablesNamed
<1>5. Named(network_main(x), TableCommands)
  <2>1. network_main(x) = a \o MakeChain("dnat", RulesBy("network", x, "dnat"))
    BY <1>1, <1>2 DEF network_main, start_dns_intercept, setup_iptables_dnat, RulesBy
  <2> QED BY <1>3, <1>4, <2>1, NamedConcat, KindsList
<1>6. Named(lan_only_rules(x), TableCommands)
  <2>1. CASE x.lanOnly
    <3>1. lan_only_rules(x) = MakeChain("dnat", RulesBy("entry", x, "dnat"))
                                \o MakeChain("block", RulesBy("entry", x, "block"))
      BY <2>1 DEF lan_only_rules, setup_iptables_dnat, setup_lan_only_firewall, RulesBy
    <3> QED BY <1>4, <3>1, NamedConcat, KindsList
  <2>2. CASE ~ x.lanOnly
    <3>1. lan_only_rules(x) = <<>>
      BY <2>2 DEF lan_only_rules
    <3> QED BY <3>1, EmptyToSet DEF Named
  <2> QED BY <2>1, <2>2
<1>7. Named(cleanup_on_exit(x.devices), TableCommands)
  <2>1. cleanup_on_exit(x.devices) = b \o d
    BY <1>1, <1>2 DEF cleanup_on_exit
  <2> QED BY <1>3, <2>1, NamedConcat
<1>8. Named(cleanup_all_iptables(<<>>), TableCommands)
  <2>1. PICK t : t = d \o e /\ t \in Seq(Commands) /\ Named(t, TableCommands)
    <3>1. d \in Seq(Commands) /\ e \in Seq(Commands)
      BY <1>3
    <3>2. Named(d, TableCommands) /\ Named(e, TableCommands)
      BY <1>3
    <3>3. Named(d \o e, TableCommands) /\ d \o e \in Seq(Commands)
      BY <3>1, <3>2, NamedConcat
    <3> QED BY <3>3
  <2>2. cleanup_dns_iptables(<<>>) = <<>>
    BY DEF cleanup_dns_iptables
  <2>3. t \o <<>> = t
    BY <2>1, ConcatEmptySeq
  <2> QED BY <1>2, <2>1, <2>2, <2>3 DEF cleanup_all_iptables
<1> QED BY <1>5, <1>6, <1>7, <1>8

\* The commands of the tools, by their names.
LEMMA ToolFacts ==
  /\ Rmtree \in Commands /\ Go \in Commands /\ \A x \in Items : Make(x) \in Commands
  /\ \A b \in Binaries : Link(b) \in Commands
  /\ \A x, y : Make(x) = Make(y) => x = y
  /\ \A x, y : Link(x) = Link(y) => x = y
  /\ Rmtree[1] = "rmtree" /\ Go[1] = "start_go2rtc"
  /\ \A x : Make(x)[1] = "make" /\ Link(x)[1] = "ninja"
  /\ \A cmd \in Commands : /\ cmd[1] = "rmtree" => cmd = Rmtree
                           /\ cmd[1] = "start_go2rtc" => cmd = Go
                           /\ cmd[1] = "make" => \E x \in Items : cmd = Make(x)
                           /\ cmd[1] = "ninja" => \E b \in Binaries : cmd = Link(b)
<1>1. /\ Rmtree \in Commands /\ Go \in Commands /\ \A x \in Items : Make(x) \in Commands
      /\ \A b \in Binaries : Link(b) \in Commands
  BY CommandKinds DEF Tools, Rmtree, Go, Make, Link
<1>2. /\ Rmtree[1] = "rmtree" /\ Go[1] = "start_go2rtc"
      /\ \A x : Make(x)[1] = "make" /\ Link(x)[1] = "ninja" /\ Make(x)[2] = x /\ Link(x)[2] = x
  BY DEF Rmtree, Go, Make, Link
<1>3. ASSUME NEW cmd \in Commands
      PROVE  /\ cmd[1] = "rmtree" => cmd = Rmtree
             /\ cmd[1] = "start_go2rtc" => cmd = Go
             /\ cmd[1] = "make" => \E x \in Items : cmd = Make(x)
             /\ cmd[1] = "ninja" => \E b \in Binaries : cmd = Link(b)
  <2>1. CASE cmd \in {"-D", "-F", "-X", "-N", "-I"} \X Chains
    <3>1. cmd[1] \in {"-D", "-F", "-X", "-N", "-I"}
      BY <2>1
    <3> QED BY <3>1
  <2>2. CASE cmd \in {"-A"} \X Chains \X AllRules
    <3>1. cmd[1] = "-A"
      BY <2>2
    <3> QED BY <3>1
  <2>3. CASE cmd \in DnsCommands \X Devices
    <3>1. cmd[1] \in {"dns-D", "dns-A"}
      BY <2>3 DEF DnsCommands
    <3> QED BY <3>1
  <2>4. CASE cmd \in {"make"} \X Items
    <3>1. PICK x \in Items : cmd = <<"make", x>>
      BY <2>4
    <3>2. cmd[1] = "make" /\ cmd = Make(x)
      BY <3>1 DEF Make
    <3> QED BY <3>2
  <2>5. CASE cmd \in {"ninja"} \X Binaries
    <3>1. PICK b \in Binaries : cmd = <<"ninja", b>>
      BY <2>5
    <3>2. cmd[1] = "ninja" /\ cmd = Link(b)
      BY <3>1 DEF Link
    <3> QED BY <3>2
  <2>6. CASE cmd = Rmtree
    BY <1>2, <2>6
  <2>7. CASE cmd = Go
    BY <1>2, <2>7
  <2>8. CASE cmd = <<"start_relay">>
    <3>1. cmd[1] = "start_relay"
      BY <2>8
    <3> QED BY <3>1
  <2> QED BY <2>1, <2>2, <2>3, <2>4, <2>5, <2>6, <2>7, <2>8 DEF Commands, Tools, Rmtree, Go
<1> QED BY <1>1, <1>2, <1>3

\* A script of named commands runs none with another name.
LEMMA NamedFree ==
  ASSUME NEW s, NEW names, Named(s, names), NEW P, \A cmd \in P : cmd[1] \notin names
  PROVE  Free(s, P)
  BY DEF Named, Free

Copied == <<"copied", "libiotp2pav.so">>

\* setup_libs builds nothing or everything, the shims before the SDK libraries.
LEMMA LibsListed ==
  ASSUME NEW have, NEW s, s = setup_libs(have)
  PROVE  /\ s \in Seq(Commands) /\ Named(s, {"rmtree", "make"})
         /\ Copied \in have => ToSet(s) = {}
         /\ Copied \notin have => \A x \in Items : Make(x) \in ToSet(s)
         /\ Before(s, {Rmtree}, MakeAll) /\ Before(s, {Make(Shims)}, MakeSdk)
<1>1. CASE Copied \in have
  <2>1. s = <<>>
    BY <1>1 DEF setup_libs, Copied
  <2>2. s \in Seq(Commands) /\ ToSet(s) = {}
    BY <2>1, EmptySeq, EmptyToSet
  <2> QED BY <1>1, <2>2, BeforeFree DEF Named, Free
<1>2. CASE Copied \notin have
  <2>1. PICK p, q, r : /\ p = <<Rmtree, Make(Shims)>>
                       /\ q = PatchLib("libiotp2pav.so") /\ r = PatchLib("libmbedtls.so")
    OBVIOUS
  <2>2. \A l \in SdkLibs : /\ <<"copied", l>> \in Items \ {Shims}
                           /\ <<"patched", l>> \in Items \ {Shims}
                           /\ PatchLib(l) = <<Make(<<"copied", l>>), Make(<<"patched", l>>)>>
    <3>1. ASSUME NEW l \in SdkLibs
          PROVE  <<"copied", l>> \in Items \ {Shims} /\ <<"patched", l>> \in Items \ {Shims}
      <4>1. Shims[1] = "compiled" /\ <<"copied", l>>[1] = "copied" /\ <<"patched", l>>[1] = "patched"
        BY DEF Shims
      <4> QED BY <4>1 DEF Items
    <3> QED BY <3>1 DEF PatchLib, Make
  <2>3. SdkLibs = {"libiotp2pav.so", "libmbedtls.so"} /\ Shims \in Items
    BY DEF SdkLibs, Items
  <2>4. ASSUME NEW x \in Commands, NEW y \in Commands PROVE <<x, y>> \in Seq(Commands)
    OBVIOUS
  <2>5. /\ p \in Seq(Commands) /\ ToSet(p) = {Rmtree, Make(Shims)}
        /\ q \in Seq(Commands) /\ r \in Seq(Commands)
        /\ ToSet(q) = {Make(<<"copied", "libiotp2pav.so">>), Make(<<"patched", "libiotp2pav.so">>)}
        /\ ToSet(r) = {Make(<<"copied", "libmbedtls.so">>), Make(<<"patched", "libmbedtls.so">>)}
    <3>1. PICK x, y, z, w : /\ x = Make(<<"copied", "libiotp2pav.so">>)
                            /\ y = Make(<<"patched", "libiotp2pav.so">>)
                            /\ z = Make(<<"copied", "libmbedtls.so">>)
                            /\ w = Make(<<"patched", "libmbedtls.so">>)
      OBVIOUS
    <3>2. q = <<x, y>> /\ r = <<z, w>>
      BY <2>1, <2>2, <2>3, <3>1
    <3>3. /\ x \in Commands /\ y \in Commands /\ z \in Commands /\ w \in Commands
          /\ Rmtree \in Commands /\ Make(Shims) \in Commands
      BY <2>2, <2>3, <3>1, ToolFacts
    <3>4. p \in Seq(Commands) /\ q \in Seq(Commands) /\ r \in Seq(Commands)
      BY <2>1, <2>4, <3>2, <3>3
    <3>5. ToSet(p) = {Rmtree, Make(Shims)} /\ ToSet(q) = {x, y} /\ ToSet(r) = {z, w}
      BY <2>1, <3>2, PairMembers
    <3> QED BY <3>1, <3>4, <3>5
  <2>6. ToSet(q) \cup ToSet(r) = MakeSdk
    <3>1. \A x : x \in Items \ {Shims} <=>
                   x \in {<<"copied", "libiotp2pav.so">>, <<"patched", "libiotp2pav.so">>,
                          <<"copied", "libmbedtls.so">>, <<"patched", "libmbedtls.so">>}
      <4>1. \A x : x \in SdkItems <=>
                     x \in {<<"copied", "libiotp2pav.so">>, <<"patched", "libiotp2pav.so">>,
                            <<"copied", "libmbedtls.so">>, <<"patched", "libmbedtls.so">>}
        BY <2>3 DEF SdkItems
      <4>2. \A x \in SdkItems : x # Shims
        BY <2>2, <2>3, <4>1
      <4>3. Items = {Shims} \cup SdkItems
        BY DEF Items, SdkItems
      <4> QED BY <4>1, <4>2, <4>3
    <3>2. MakeSdk = {Make(x) : x \in {<<"copied", "libiotp2pav.so">>, <<"patched", "libiotp2pav.so">>,
                                      <<"copied", "libmbedtls.so">>, <<"patched", "libmbedtls.so">>}}
      BY <3>1 DEF MakeSdk
    <3> QED BY <2>5, <3>2
  <2>7. PICK a : a = p \o q /\ a \in Seq(Commands) /\ ToSet(a) = ToSet(p) \cup ToSet(q)
    <3>1. p \in Seq(Commands) /\ q \in Seq(Commands)
      BY <2>5
    <3>2. PICK x : x = p \o q
      OBVIOUS
    <3>3. x \in Seq(Commands) /\ ToSet(x) = ToSet(p) \cup ToSet(q)
      <4>1. p \o q \in Seq(Commands) /\ ToSet(p \o q) = ToSet(p) \cup ToSet(q)
        BY <3>1, InARow
      <4> QED BY <3>2, <4>1, Zenon
    <3> QED BY <3>2, <3>3
  <2>8. s = a \o r
    BY <1>2, <2>1, <2>7 DEF setup_libs, Copied, Rmtree, Make
  <2>9. s \in Seq(Commands) /\ ToSet(s) = ToSet(p) \cup MakeSdk
    <3>1. a \in Seq(Commands) /\ r \in Seq(Commands)
      BY <2>5, <2>7
    <3>2. s \in Seq(Commands) /\ ToSet(s) = ToSet(a) \cup ToSet(r)
      <4>1. a \o r \in Seq(Commands) /\ ToSet(a \o r) = ToSet(a) \cup ToSet(r)
        BY <3>1, InARow
      <4> QED BY <2>8, <4>1, Zenon
    <3> QED BY <2>6, <2>7, <3>2
  <2>10. MakeAll = MakeSdk \cup {Make(Shims)} /\ Make(Shims) \notin MakeSdk
    BY <2>3, ToolFacts DEF MakeAll, MakeSdk
  <2>11. Named(s, {"rmtree", "make"})
    BY <2>5, <2>9, ToolFacts DEF Named, MakeSdk
  <2>12. \A x \in Items : Make(x) \in ToSet(s)
    BY <2>5, <2>9, <2>10 DEF MakeAll
  <2>13. Rmtree \notin MakeAll
    BY ToolFacts DEF MakeAll
  <2>14. Free(q, {Rmtree}) /\ Free(r, {Rmtree})
    BY <2>6, <2>10, <2>13 DEF Free
  <2>15. Free(q, {Make(Shims)}) /\ Free(r, {Make(Shims)})
    BY <2>6, <2>10 DEF Free
  <2>16. Before(s, {Rmtree}, MakeAll)
    <3>1. Before(p, {Rmtree}, MakeAll)
      BY <2>1, <2>13, ToolFacts, BeforePair
    <3>2. Before(q, {Rmtree}, MakeAll) /\ Before(r, {Rmtree}, MakeAll)
      BY <2>14, BeforeFree
    <3>3. /\ p \in Seq(Commands) /\ q \in Seq(Commands)
          /\ a \in Seq(Commands) /\ r \in Seq(Commands)
      BY <2>5, <2>7
    <3>4. Before(a, {Rmtree}, MakeAll)
      BY <2>7, <2>14, <3>1, <3>2, <3>3, BeforeConcat
    <3> QED BY <2>8, <2>14, <3>2, <3>3, <3>4, BeforeConcat
  <2>17. Before(s, {Make(Shims)}, MakeSdk)
    <3>1. Before(p, {Make(Shims)}, MakeSdk)
      <4>1. Free(p, MakeSdk)
        BY <2>5, <2>10, <2>13 DEF Free
      <4> QED BY <4>1, BeforeFree
    <3>2. Before(q, {Make(Shims)}, MakeSdk) /\ Before(r, {Make(Shims)}, MakeSdk)
      BY <2>15, BeforeFree
    <3>3. /\ p \in Seq(Commands) /\ q \in Seq(Commands)
          /\ a \in Seq(Commands) /\ r \in Seq(Commands)
      BY <2>5, <2>7
    <3>4. Before(a, {Make(Shims)}, MakeSdk)
      BY <2>7, <2>15, <3>1, <3>2, <3>3, BeforeConcat
    <3> QED BY <2>8, <2>15, <3>2, <3>3, <3>4, BeforeConcat
  <2> QED BY <1>2, <2>9, <2>11, <2>12, <2>16, <2>17
<1> QED BY <1>1, <1>2

\* build_bridge links every binary that is missing.
LEMMA LinksListed ==
  ASSUME NEW have, NEW s, s = build_bridge(have)
  PROVE  /\ s \in Seq(Commands) /\ Named(s, {"ninja"})
         /\ \A b \in Binaries : b \in have \/ Link(b) \in ToSet(s)
<1>1. CASE Binaries \subseteq have
  <2>1. s = <<>>
    BY <1>1 DEF build_bridge
  <2>2. s \in Seq(Commands) /\ ToSet(s) = {}
    BY <2>1, EmptySeq, EmptyToSet
  <2> QED BY <1>1, <2>2 DEF Named
<1>2. CASE ~ (Binaries \subseteq have)
  <2>1. s = <<Link("bridge"), Link("bridge-daemon")>>
    BY <1>2 DEF build_bridge, Link
  <2>2. ASSUME NEW x \in Commands, NEW y \in Commands PROVE <<x, y>> \in Seq(Commands)
    OBVIOUS
  <2>3. Binaries = {"bridge", "bridge-daemon"}
    BY DEF Binaries
  <2>4. s \in Seq(Commands) /\ ToSet(s) = {Link("bridge"), Link("bridge-daemon")}
    BY <2>1, <2>2, <2>3, ToolFacts, PairMembers
  <2> QED BY <2>3, <2>4, ToolFacts DEF Named
<1> QED BY <1>1, <1>2

\* What entrypoint.main runs, in which order.
LEMMA EntryMainTools ==
  ASSUME NEW x \in Configs, NEW s, s = entry_main(x)
  PROVE  /\ s \in Seq(Commands)
         /\ Before(s, {Rmtree}, MakeAll) /\ Before(s, {Make(Shims)}, MakeSdk)
         /\ Before(s, Earlier, {Go})
         /\ \A b \in Binaries : b \in binaries \/ Link(b) \in ToSet(s)
         /\ Copied \in libs => Rmtree \notin ToSet(s)
         /\ Copied \notin libs => \A y \in Items : Make(y) \in ToSet(s)
<1>1. PICK a, b, m, e : /\ a = setup_libs(libs) /\ b = build_bridge(binaries) /\ m = lan_only_rules(x)
                        /\ e = <<<<"start_relay">>, Go>>
  OBVIOUS
<1>2. /\ a \in Seq(Commands) /\ Named(a, {"rmtree", "make"})
      /\ Copied \in libs => ToSet(a) = {}
      /\ Copied \notin libs => \A y \in Items : Make(y) \in ToSet(a)
      /\ Before(a, {Rmtree}, MakeAll) /\ Before(a, {Make(Shims)}, MakeSdk)
  BY <1>1, LibsListed
<1>3. /\ b \in Seq(Commands) /\ Named(b, {"ninja"})
      /\ \A y \in Binaries : y \in binaries \/ Link(y) \in ToSet(b)
  BY <1>1, LinksListed
<1>4. m \in Seq(Commands) /\ Named(m, TableCommands)
  BY <1>1, LanOnlyListed, RulesNamed
<1>5. e \in Seq(Commands) /\ Named(e, {"start_relay", "start_go2rtc"}) /\ Before(e, Earlier, {Go})
  <2>1. e \in Seq(Commands)
    BY <1>1, ToolsListed DEF Go
  <2>2. <<"start_relay">>[1] = "start_relay"
    OBVIOUS
  <2>3. ToSet(e) = {<<"start_relay">>, Go}
    BY <1>1, PairMembers
  <2>4. <<"start_relay">> # Go /\ Go \notin Earlier
    BY <2>2, ToolFacts DEF Earlier
  <2> QED BY <1>1, <2>1, <2>2, <2>3, <2>4, BeforePair, ToolFacts DEF Named
<1>6. PICK f, g : f = a \o b /\ g = f \o m
  OBVIOUS
<1>7. s = g \o e
  BY <1>1, <1>6 DEF entry_main, Go
<1>8. /\ f \in Seq(Commands) /\ ToSet(f) = ToSet(a) \cup ToSet(b)
      /\ g \in Seq(Commands) /\ ToSet(g) = ToSet(f) \cup ToSet(m)
      /\ s \in Seq(Commands) /\ ToSet(s) = ToSet(g) \cup ToSet(e)
  <2>1. f \in Seq(Commands) /\ ToSet(f) = ToSet(a) \cup ToSet(b)
    <3>1. a \in Seq(Commands) /\ b \in Seq(Commands)
      BY <1>2, <1>3
    <3>2. a \o b \in Seq(Commands) /\ ToSet(a \o b) = ToSet(a) \cup ToSet(b)
      BY <3>1, InARow
    <3> QED BY <1>6, <3>2, Zenon
  <2>2. g \in Seq(Commands) /\ ToSet(g) = ToSet(f) \cup ToSet(m)
    <3>1. f \in Seq(Commands) /\ m \in Seq(Commands)
      BY <1>4, <2>1
    <3>2. f \o m \in Seq(Commands) /\ ToSet(f \o m) = ToSet(f) \cup ToSet(m)
      BY <3>1, InARow
    <3> QED BY <1>6, <3>2, Zenon
  <2>3. s \in Seq(Commands) /\ ToSet(s) = ToSet(g) \cup ToSet(e)
    <3>1. g \in Seq(Commands) /\ e \in Seq(Commands)
      BY <1>5, <2>2
    <3>2. g \o e \in Seq(Commands) /\ ToSet(g \o e) = ToSet(g) \cup ToSet(e)
      BY <3>1, InARow
    <3> QED BY <1>7, <3>2, Zenon
  <2> QED BY <2>1, <2>2, <2>3
<1>9. /\ "rmtree" \notin TableCommands \cup {"ninja", "start_relay", "start_go2rtc"}
      /\ "make" \notin TableCommands \cup {"ninja", "start_relay", "start_go2rtc"}
      /\ "start_go2rtc" \notin TableCommands \cup {"rmtree", "make", "ninja"}
  BY DEF TableCommands
<1>10. ASSUME NEW P, NEW Q, \A cmd \in P : cmd[1] \in {"rmtree", "make"}, Before(a, P, Q)
       PROVE  Before(s, P, Q)
  <2>1. Free(b, P) /\ Free(m, P) /\ Free(e, P)
    BY <1>3, <1>4, <1>5, <1>9, <1>10 DEF Free, Named
  <2>2. Before(b, P, Q) /\ Before(m, P, Q) /\ Before(e, P, Q)
    BY <2>1, BeforeFree
  <2>3. Before(f, P, Q)
    BY <1>2, <1>3, <1>6, <1>10, <2>1, <2>2, BeforeConcat
  <2>4. Before(g, P, Q)
    BY <1>4, <1>6, <1>8, <2>1, <2>2, <2>3, BeforeConcat
  <2> QED BY <1>5, <1>7, <1>8, <2>1, <2>2, <2>4, BeforeConcat
<1>11. Before(s, {Rmtree}, MakeAll) /\ Before(s, {Make(Shims)}, MakeSdk)
  BY <1>2, <1>10, ToolFacts
<1>12. Before(s, Earlier, {Go})
  <2>1. Free(g, {Go})
    <3>1. Free(a, {Go}) /\ Free(b, {Go}) /\ Free(m, {Go})
      BY <1>2, <1>3, <1>4, <1>9, ToolFacts DEF Free, Named
    <3> QED BY <1>8, <3>1 DEF Free
  <2>2. Before(g, Earlier, {Go})
    BY <2>1, BeforeFree
  <2> QED BY <1>5, <1>7, <1>8, <2>1, <2>2, BeforeConcat
<1>13. Copied \in libs => Rmtree \notin ToSet(s)
  <2>1. Rmtree \notin ToSet(b) /\ Rmtree \notin ToSet(m) /\ Rmtree \notin ToSet(e)
    BY <1>3, <1>4, <1>5, <1>9, ToolFacts DEF Named
  <2> QED BY <1>2, <1>8, <2>1
<1> QED BY <1>2, <1>3, <1>8, <1>11, <1>12, <1>13

\* What the script at hand still has to make is pending, in its order.
ToolsInv ==
  /\ Before(todo, {Rmtree}, MakeAll) /\ Before(todo, {Make(Shims)}, MakeSdk)
  /\ Before(todo, Earlier, {Go})
  /\ \A b \in Binaries : b \in binaries \/ Link(b) \in ToSet(todo)
  /\ Shims \in libs \/ Make(Shims) \in ToSet(todo)
  /\ exit = "never" => \A x \in SdkItems : x \in libs \/ Make(x) \in ToSet(todo)
  /\ Rmtree \in ToSet(todo) => \A x \in Items : Make(x) \in ToSet(todo)

LaunchInv ==
  /\ binaries \subseteq Binaries
  /\ Copied \in libs => Shims \in libs
  /\ exit = "never" /\ phase = "down" => libs = {}
  /\ LaunchedComplete
  /\ go2rtc => /\ program = "entry" /\ phase \in {"setup", "running"}
               /\ ToSet(todo) \subseteq {Go}
  /\ IF program = "entry" /\ phase = "setup" THEN ToolsInv ELSE Named(todo, TableCommands)

\* A start keeps the invariant of the launch.
LEMMA StartLaunch ==
  ASSUME RulesInv, LaunchInv, Start
  PROVE  LaunchInv'
<1>1. PICK x \in Configs :
        /\ program' = program /\ phase = "down" /\ phase' = "setup" /\ exit' = exit
        /\ todo' = IF program = "network" THEN network_main(x) ELSE entry_main(x)
        /\ libs' = libs /\ binaries' = binaries /\ go2rtc' = go2rtc
  BY DEF Start, hostVars, kidVars
<1>2. program \in {"network", "entry"}
  BY DEF RulesInv, TypeInv
<1>3. ~ go2rtc
  BY <1>1 DEF LaunchInv
<1>4. CASE program = "network"
  <2>1. Named(todo', TableCommands)
    BY <1>1, <1>4, RulesNamed
  <2> QED BY <1>1, <1>3, <1>4, <2>1 DEF LaunchInv, LaunchedComplete, Named
<1>5. CASE program = "entry"
  <2>1. PICK s : /\ s = entry_main(x)
                 /\ Before(s, {Rmtree}, MakeAll) /\ Before(s, {Make(Shims)}, MakeSdk)
                 /\ Before(s, Earlier, {Go})
                 /\ \A b \in Binaries : b \in binaries \/ Link(b) \in ToSet(s)
                 /\ Copied \in libs => Rmtree \notin ToSet(s)
                 /\ Copied \notin libs => \A y \in Items : Make(y) \in ToSet(s)
    BY EntryMainTools
  <2>2. todo' = s
    BY <1>1, <1>5, <2>1
  <2>3. Shims \in Items /\ SdkItems \subseteq Items
    BY DEF Items, SdkItems
  <2>4. ToolsInv'
    <3>1. Shims \in libs \/ Make(Shims) \in ToSet(s)
      BY <2>1, <2>3 DEF LaunchInv
    <3>2. exit = "never" => \A y \in SdkItems : Make(y) \in ToSet(s)
      BY <1>1, <2>1, <2>3 DEF LaunchInv
    <3>3. Rmtree \in ToSet(s) => \A y \in Items : Make(y) \in ToSet(s)
      BY <2>1
    <3> QED BY <1>1, <2>1, <2>2, <3>1, <3>2, <3>3 DEF ToolsInv
  <2> QED BY <1>1, <1>3, <1>5, <2>4 DEF LaunchInv, LaunchedComplete
<1> QED BY <1>2, <1>4, <1>5

\* Running the next command keeps the invariant of the launch.
LEMMA CommandLaunch ==
  ASSUME RulesInv, LaunchInv, RunCommand
  PROVE  LaunchInv'
<1>1. PICK cmd, rest : cmd = Head(todo) /\ rest = Tail(todo)
  OBVIOUS
<1>2. /\ todo # <<>> /\ todo \in Seq(Commands) /\ todo' = rest /\ phase \in {"setup", "stopping", "again"}
      /\ libs' = CASE cmd[1] = "rmtree" -> {}
                   [] cmd[1] = "make" -> libs \cup {cmd[2]}
                   [] OTHER -> libs
      /\ binaries' = IF cmd[1] = "ninja" THEN binaries \cup {cmd[2]} ELSE binaries
      /\ go2rtc' = (go2rtc \/ cmd[1] = "start_go2rtc")
      /\ program' = program /\ phase' = phase /\ exit' = exit
  BY <1>1 DEF RunCommand, Working, RulesInv, TypeInv
<1>3. /\ cmd \in Commands /\ ToSet(todo) = {cmd} \cup ToSet(rest)
      /\ \A P, Q : Before(todo, P, Q) =>
           /\ Before(rest, P, Q)
           /\ cmd \in Q => cmd \notin P /\ Free(rest, P)
  BY <1>1, <1>2, TailFromEnd, BeforeTail
<1>4. CASE ~ (program = "entry" /\ phase = "setup")
  <2>1. Named(todo, TableCommands) /\ ~ go2rtc
    BY <1>2, <1>4 DEF LaunchInv
  <2>2. cmd[1] \in TableCommands /\ Named(rest, TableCommands)
    BY <1>3, <2>1 DEF Named
  <2>3. libs' = libs /\ binaries' = binaries /\ ~ go2rtc'
    BY <1>2, <2>1, <2>2 DEF TableCommands
  <2> QED BY <1>2, <1>4, <2>2, <2>3 DEF LaunchInv, LaunchedComplete, Named
<1>5. CASE program = "entry" /\ phase = "setup"
  <2>1. ToolsInv
    BY <1>5 DEF LaunchInv
  <2>2. /\ Before(rest, {Rmtree}, MakeAll) /\ Before(rest, {Make(Shims)}, MakeSdk)
        /\ Before(rest, Earlier, {Go})
    BY <1>3, <2>1 DEF ToolsInv
  <2>3. Shims \in Items /\ SdkItems \subseteq Items \ {Shims} /\ Copied \in Items \ {Shims}
    <3>1. Shims[1] = "compiled" /\ Copied[1] = "copied" /\ Copied \in SdkItems
      BY DEF Shims, Copied, SdkItems, SdkLibs
    <3>2. \A x \in SdkItems : x[1] = "copied" \/ x[1] = "patched"
      BY DEF SdkItems
    <3>3. SdkItems \subseteq Items /\ Shims \in Items
      BY DEF SdkItems, Items
    <3> QED BY <3>1, <3>2, <3>3
  <2>4. go2rtc => cmd = Go
    BY <1>3 DEF LaunchInv
  <2>5. ASSUME /\ libs' = libs /\ binaries' = binaries /\ (go2rtc' <=> go2rtc)
               /\ cmd[1] \notin {"rmtree", "make", "ninja"}
        PROVE  LaunchInv'
    <3>1. /\ \A x : cmd # Make(x) /\ cmd # Link(x)
          /\ cmd # Rmtree
      BY <2>5, ToolFacts
    <3>2. ToolsInv'
      BY <1>2, <1>3, <2>1, <2>2, <2>5, <3>1 DEF ToolsInv
    <3>3. ToSet(rest) \subseteq ToSet(todo)
      BY <1>3
    <3> QED BY <1>2, <1>5, <2>5, <3>2, <3>3 DEF LaunchInv, LaunchedComplete
  <2>6. CASE cmd[1] = "rmtree"
    <3>1. cmd = Rmtree /\ ~ go2rtc
      BY <1>3, <2>4, <2>6, ToolFacts
    <3>2. libs' = {} /\ binaries' = binaries /\ ~ go2rtc'
      BY <1>2, <2>6, <3>1
    <3>3. \A x \in Items : Make(x) \in ToSet(rest)
      BY <1>3, <2>1, <3>1, ToolFacts DEF ToolsInv
    <3>4. \A b : Link(b) # cmd
      BY <3>1, ToolFacts
    <3>5. ToolsInv'
      BY <1>2, <1>3, <2>1, <2>2, <2>3, <3>2, <3>3, <3>4 DEF ToolsInv
    <3> QED BY <1>2, <1>5, <3>2, <3>5 DEF LaunchInv, LaunchedComplete
  <2>7. CASE cmd[1] = "make"
    <3>1. PICK x \in Items : cmd = Make(x) /\ libs' = libs \cup {x}
      <4>1. PICK x \in Items : cmd = Make(x)
        BY <1>3, <2>7, ToolFacts
      <4>2. cmd[2] = x
        BY <4>1 DEF Make
      <4> QED BY <1>2, <2>7, <4>1, <4>2
    <3>2. ~ go2rtc' /\ binaries' = binaries
      BY <1>2, <2>4, <2>7, ToolFacts
    <3>3. \A y : Make(y) = cmd => y = x
      BY <3>1, ToolFacts
    <3>4. Rmtree \notin ToSet(rest)
      <4>1. cmd \in MakeAll
        BY <3>1 DEF MakeAll
      <4> QED BY <1>3, <2>1, <4>1 DEF ToolsInv, Free
    <3>5. Copied \in libs' => Shims \in libs'
      <4>1. CASE x = Shims
        BY <3>1, <4>1
      <4>2. CASE x # Shims
        <5>1. cmd \in MakeSdk
          BY <3>1, <4>2 DEF MakeSdk
        <5>2. Make(Shims) \notin ToSet(todo)
          BY <1>3, <2>1, <3>3, <4>2, <5>1 DEF ToolsInv, Free
        <5> QED BY <2>1, <3>1, <5>2 DEF ToolsInv
      <4> QED BY <4>1, <4>2
    <3>6. \A b : Link(b) # cmd
      BY <2>7, ToolFacts
    <3>7. ToolsInv'
      BY <1>2, <1>3, <2>1, <2>2, <3>1, <3>2, <3>3, <3>4, <3>6 DEF ToolsInv
    <3> QED BY <1>2, <1>5, <3>2, <3>5, <3>7 DEF LaunchInv, LaunchedComplete
  <2>8. CASE cmd[1] = "ninja"
    <3>1. PICK b \in Binaries : cmd = Link(b) /\ binaries' = binaries \cup {b}
      <4>1. PICK b \in Binaries : cmd = Link(b)
        BY <1>3, <2>8, ToolFacts
      <4>2. cmd[2] = b
        BY <4>1 DEF Link
      <4> QED BY <1>2, <2>8, <4>1, <4>2
    <3>2. ~ go2rtc' /\ libs' = libs
      BY <1>2, <2>4, <2>8, ToolFacts
    <3>3. (\A y : Make(y) # cmd) /\ Rmtree # cmd /\ \A y : Link(y) = cmd => y = b
      BY <2>8, <3>1, ToolFacts
    <3>4. ToolsInv'
      BY <1>2, <1>3, <2>1, <2>2, <3>1, <3>2, <3>3 DEF ToolsInv
    <3>5. binaries' \subseteq Binaries
      BY <3>1 DEF LaunchInv
    <3> QED BY <1>2, <1>5, <3>2, <3>4, <3>5 DEF LaunchInv, LaunchedComplete
  <2>9. CASE cmd[1] = "start_go2rtc"
    <3>1. cmd = Go /\ go2rtc' /\ libs' = libs /\ binaries' = binaries
      BY <1>2, <1>3, <2>9, ToolFacts
    <3>2. Free(rest, Earlier)
      BY <1>3, <2>1, <3>1 DEF ToolsInv
    <3>3. ToSet(rest) \subseteq {Go}
      <4>1. ToSet(rest) \subseteq Commands
        <5>1. rest \in Seq(Commands)
          BY <1>1, <1>2, TailFromEnd
        <5> QED BY <5>1, ToSetMembers
      <4> QED BY <3>2, <4>1, ToolFacts DEF Free, Earlier
    <3>4. ToSet(todo) \subseteq {Go}
      BY <1>3, <3>1, <3>3
    <3>5. /\ \A x : Make(x) \notin ToSet(todo) /\ Link(x) \notin ToSet(todo)
          /\ Rmtree \notin ToSet(todo)
      BY <3>4, ToolFacts
    <3>6. /\ binaries = Binaries /\ Shims \in libs
          /\ exit = "never" => SdkItems \subseteq libs
      BY <2>1, <3>5 DEF ToolsInv, LaunchInv
    <3>7. LaunchedComplete'
      BY <1>2, <3>1, <3>6 DEF LaunchedComplete, SdkItems
    <3>8. ToolsInv'
      BY <1>2, <1>3, <2>1, <2>2, <3>1, <3>5, <3>6 DEF ToolsInv
    <3> QED BY <1>2, <1>5, <3>1, <3>3, <3>7, <3>8 DEF LaunchInv
  <2>10. CASE cmd[1] \notin {"rmtree", "make", "ninja", "start_go2rtc"}
    <3>1. libs' = libs /\ binaries' = binaries /\ (go2rtc' <=> go2rtc)
      BY <1>2, <2>10
    <3> QED BY <2>5, <2>10, <3>1
  <2> QED BY <2>6, <2>7, <2>8, <2>9, <2>10
<1> QED BY <1>4, <1>5

\* A step of the main thread, a signal or an end that installs nothing.
LEMMA OtherLaunch ==
  ASSUME LaunchInv, program' = program, libs' = libs, binaries' = binaries,
         phase' # "setup", Named(todo', TableCommands),
         \/ exit' = exit /\ phase' # "down"
         \/ exit' # "never" /\ phase' = "down",
         \/ ~ go2rtc'
         \/ /\ go2rtc' = go2rtc /\ exit' = exit
            /\ program = "entry" /\ phase' = "running" /\ todo' = todo
  PROVE  LaunchInv'
<1>1. binaries' \subseteq Binaries /\ (Copied \in libs' => Shims \in libs')
  BY DEF LaunchInv
<1>2. exit' = "never" /\ phase' = "down" => libs' = {}
  BY DEF LaunchInv
<1>3. LaunchedComplete'
  BY DEF LaunchInv, LaunchedComplete
<1>4. go2rtc' => /\ program' = "entry" /\ phase' \in {"setup", "running"}
                 /\ ToSet(todo') \subseteq {Go}
  BY DEF LaunchInv
<1>5. IF program' = "entry" /\ phase' = "setup" THEN ToolsInv' ELSE Named(todo', TableCommands)
  BY DEF LaunchInv, ToolsInv, Named
<1> QED BY <1>1, <1>2, <1>3, <1>4, <1>5 DEF LaunchInv

\* The binaries and libraries are as far as the setup has come.
LEMMA StepLaunch ==
  ASSUME RulesInv, LaunchInv, [Next]_vars
  PROVE  LaunchInv'
<1>1. program \in {"network", "entry"} /\ config \in Configs /\ TodoInv
  BY DEF RulesInv, TypeInv
<1>2. Named(<<>>, TableCommands)
  BY EmptyToSet DEF Named
<1>3. CASE Start \/ RunCommand
  BY <1>3, StartLaunch, CommandLaunch
<1>4. ASSUME NEW how, GoDown(how), how # "never" PROVE LaunchInv'
  <2>1. /\ phase' = "down" /\ exit' # "never" /\ todo' = <<>> /\ ~ go2rtc'
        /\ program' = program /\ libs' = libs /\ binaries' = binaries
    BY <1>4 DEF GoDown
  <2> QED BY <1>2, <2>1, OtherLaunch
<1>5. CASE ToolFails \/ TimeoutExpired \/ Go2rtcExits \/ Killed
  <2>1. PICK how \in {"failed", "raised", "unexpected", "killed"} : GoDown(how)
    BY <1>5 DEF ToolFails, TimeoutExpired, Go2rtcExits, Killed
  <2> QED BY <1>4, <2>1
<1>6. CASE SetupDone
  <2>1. /\ phase = "setup" /\ todo = <<>> /\ phase' = "running" /\ todo' = todo /\ exit' = exit
        /\ program' = program /\ libs' = libs /\ binaries' = binaries /\ go2rtc' = go2rtc
    BY <1>6 DEF SetupDone, hostVars, kidVars
  <2>2. go2rtc => program = "entry"
    BY DEF LaunchInv
  <2> QED BY <1>2, <2>1, <2>2, OtherLaunch
<1>7. CASE CleanupDone
  <2>1. CASE program = "network" /\ phase = "stopping"
    <3>1. /\ phase' = "again" /\ todo' = cleanup_on_exit(config.devices) /\ exit' = exit
          /\ program' = program /\ libs' = libs /\ binaries' = binaries /\ go2rtc' = go2rtc
      BY <1>7, <2>1 DEF CleanupDone, hostVars, kidVars
    <3>2. ~ go2rtc' /\ Named(todo', TableCommands)
      BY <1>1, <2>1, <3>1, RulesNamed DEF LaunchInv
    <3> QED BY <3>1, <3>2, OtherLaunch
  <2>2. CASE ~ (program = "network" /\ phase = "stopping")
    BY <1>4, <1>7, <2>2 DEF CleanupDone
  <2> QED BY <2>1, <2>2
<1>8. CASE NetworkSignal
  <2>1. /\ program = "network" /\ phase' \in {"stopping", "again"} /\ exit' = exit
        /\ todo' = cleanup_on_exit(config.devices)
        /\ program' = program /\ libs' = libs /\ binaries' = binaries /\ go2rtc' = go2rtc
    BY <1>8, InterruptedFlight DEF NetworkSignal, hostVars, kidVars
  <2>2. ~ go2rtc' /\ Named(todo', TableCommands)
    BY <1>1, <2>1, RulesNamed DEF LaunchInv
  <2> QED BY <2>1, <2>2, OtherLaunch
<1>9. CASE shutdown_InSetup
  <2>1. /\ phase' = "stopping" /\ exit' = exit /\ todo' = cleanup_all_iptables(<<>>)
        /\ program' = program /\ libs' = libs /\ binaries' = binaries /\ ~ go2rtc'
    BY <1>9, InterruptedFlight DEF shutdown_InSetup, hostVars
  <2>2. Named(todo', TableCommands)
    BY <1>1, <2>1, RulesNamed
  <2> QED BY <2>1, <2>2, OtherLaunch
<1>10. CASE shutdown_InWait
  <2>1. /\ phase = "running" /\ phase' = "timeout" /\ exit' = exit /\ todo' = todo
        /\ program' = program /\ libs' = libs /\ binaries' = binaries /\ ~ go2rtc'
    BY <1>10 DEF shutdown_InWait, hostVars
  <2>2. Named(todo', TableCommands)
    BY <2>1 DEF LaunchInv, Named
  <2> QED BY <2>1, <2>2, OtherLaunch
<1>11. CASE FlightLands \/ UNCHANGED vars
  <2>1. UNCHANGED <<program, phase, todo, exit, libs, binaries, go2rtc>>
    BY <1>11 DEF FlightLands, vars, hostVars, kidVars
  <2>2. LaunchedComplete' /\ (ToolsInv <=> ToolsInv') /\ (Named(todo, TableCommands) <=> Named(todo, TableCommands)')
    BY <2>1 DEF LaunchInv, LaunchedComplete, ToolsInv, Named
  <2> QED BY <2>1, <2>2 DEF LaunchInv
<1> QED BY <1>3, <1>5, <1>6, <1>7, <1>8, <1>9, <1>10, <1>11 DEF Next

\* go2rtc is started with both binaries and the shims, whatever earlier runs
\* were cut short, and on a first start with both libraries (entrypoint.py
\* 125-205).
THEOREM LaunchesComplete == Spec => []LaunchedComplete
<1>1. Init => LaunchInv
  <2>1. SUFFICES ASSUME Init PROVE LaunchInv
    OBVIOUS
  <2>2. /\ phase = "down" /\ todo = <<>> /\ libs = {} /\ binaries = {} /\ ~ go2rtc
    BY <2>1 DEF Init
  <2> QED BY <2>2, EmptyToSet DEF LaunchInv, LaunchedComplete, Named
<1>2. RulesInv /\ LaunchInv /\ [Next]_vars => LaunchInv'
  BY StepLaunch
<1>3. LaunchInv => LaunchedComplete
  BY DEF LaunchInv
<1> QED BY <1>1, <1>2, <1>3, RulesInvariant, PTL DEF Spec
=============================================================================
