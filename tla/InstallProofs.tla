--------------------------- MODULE InstallProofs ---------------------------
(***************************************************************************)
(* Proofs about defib install: types, what it leaves behind, the MAC       *)
(* address it saves, and the partitions a finished install has written.    *)
(***************************************************************************)
EXTENDS Install, SequenceTheorems, TLAPS

Names == {"boot", "kernel", "rootfs"}
Ops == {"probe", "setenv_net", "tftpboot", "tftp", "crc32", "erase", "erase_env", "write", "read", "replace",
        "setenv_mtdparts", "ubi_create", "ubi_write", "setenv_boot", "printenv", "setenv_mac", "saveenv",
        "reset", "mangled"}
Commands == [op : Ops, part : Names]
Contents == Parts \cup {"old", "erased", "bad", "volume", "ubifs"}
Outs == {"ok", "error", "unknown", "done", "crc", "eth", "mtdparts", "none"}
Vals == Contents \cup {"", "own", "default", "new"}
Answers == [out : Outs, val : Vals]

Early == {"prepare", "uboot", "power", "link", "burn", "detect"}
Middle == {"backend", "stage", "address", "serve"}
PCs == Early \cup Middle \cup {"drive", "unwind_done", "unwind_failed", "done", "failed"}

\* Where setenv_boot is in the plan; printenv, setenv_mac, saveenv and reset follow.
SetBoot == Len(Plan) - 4

ConsoleInv ==
  /\ mode \in {"none", "shell", "download"} /\ alive \in BOOLEAN /\ waiting \in BOOLEAN
  /\ late \in 0..MaxLate
  /\ queue \in Seq(Commands) /\ answers \in Seq(Answers)
  /\ Len(queue) + Len(answers) <= late + (IF waiting THEN 1 ELSE 0)
  /\ ~alive => queue = <<>> /\ answers = <<>>
  /\ flash \in [Parts -> Contents] /\ ram \in Contents
  /\ env \in Environments /\ saved \in Environments
  /\ serving \in [Parts -> Parts \cup {"none", "ubifs"}]

FlowInv ==
  /\ kind \in {"nor", "nand", "ubi"} /\ wipe \in BOOLEAN /\ eth0 \in {"own", "default"}
  /\ pc \in PCs /\ step \in 1..(Len(Plan) + 1)
  /\ held \subseteq {"power", "transport", "address", "server", "leftover"}
  /\ staged \in 0..3 /\ cleanup \in BOOLEAN
  /\ pc \in Early => step = 1
  /\ pc \in Middle => step = 2
  /\ pc \in {"unwind_done", "done"} => step = Len(Plan) + 1

\* What is to be given back is given back before the end.
HeldInv ==
  /\ held \cap {"server", "address"} # {} => pc \in {"serve", "drive", "unwind_done", "unwind_failed"} /\ step >= 2
  /\ pc = "done" => held \subseteq {"leftover"}

\* As long as every answer is in time, a command that is waited for is the one
\* the plan is at, and there is no other one and no other answer.
SyncInv ==
  /\ waiting => pc = "drive" /\ step <= Len(Plan) /\ Now.op # "replace"
  /\ late = 0 => IF waiting THEN ~alive \/ queue = <<Now>> \/ (queue = <<>> /\ Len(answers) = 1)
                            ELSE queue = <<>>

\* A silent camera never gets past the first tftpboot.
SilentInv == ~alive => step <= 3 /\ ~saved.boot

\* The MAC address: as it was up to printenv, right from saveenv on.
OwnMac == IF eth0 = "own" THEN "own" ELSE "new"

MacInv ==
  late = 0 =>
    /\ step <= SetBoot + 1 => env.eth = eth0
    /\ step = SetBoot + 1 /\ waiting /\ alive /\ queue = <<>> => answers[1] = Answer("eth", env.eth)
    /\ step = SetBoot + 2 => eth0 = "default" /\ env.eth \in {"default", "new"}
    /\ step = SetBoot + 2 /\ waiting /\ alive /\ queue = <<>> => env.eth = "new"
    /\ step >= SetBoot + 3 => env.eth = OwnMac
    /\ saved.boot => saved.eth = OwnMac /\ step >= SetBoot + 3

\* NOR: partition k of Order is commands 7 * k - 4 to 7 * k + 2 of the plan, the
\* last of which compares what the one before has read back, if it could.
FlashInv ==
  late = 0 /\ kind = "nor" /\ hasCrc =>
    /\ \A k \in 1..3 : step > 7 * k + 2 => Order[k] \in blind \/ flash[Order[k]] = Order[k]
    /\ \A k \in 1..3 : step = 7 * k + 2 => Order[k] \in blind \/ ram = flash[Order[k]]
    /\ waiting /\ alive /\ queue = <<>> =>
         /\ Now.op = "crc32" => answers[1] = Answer("crc", ram)
         /\ Now.op = "read" => Now.part \in blind \/ ram = flash[Now.part]

IInv == ConsoleInv /\ FlowInv /\ HeldInv /\ SyncInv /\ SilentInv /\ MacInv /\ FlashInv

---------------------------------------------------------------------------
(* The plan.                                                               *)

LEMMA Concat ==
  ASSUME NEW C, NEW s \in Seq(C), NEW t \in Seq(C)
  PROVE  /\ s \o t \in Seq(C) /\ Len(s \o t) = Len(s) + Len(t)
         /\ \A i \in 1..Len(s) : (s \o t)[i] = s[i]
         /\ \A i \in 1..Len(t) : (s \o t)[Len(s) + i] = t[i]
OBVIOUS

\* What a partition's commands do, wherever they are.
PartOps == {"tftpboot", "tftp", "crc32", "erase", "erase_env", "write", "read", "replace",
            "setenv_mtdparts", "ubi_create", "ubi_write"}
PartCommands == [op : PartOps, part : Names]

LEMMA TftpShape ==
  ASSUME NEW p \in Names
  PROVE  /\ TftpAndFlash(p) \in Seq(PartCommands) /\ Len(TftpAndFlash(p)) \in Nat /\ Len(TftpAndFlash(p)) >= 5
         /\ TftpAndFlash(p)[1].op = "tftpboot"
<1> DEFINE s == << Cmd("tftpboot", p), Cmd("tftp", p), Cmd("crc32", p),
                   Cmd(IF p = "boot" /\ wipe THEN "erase_env" ELSE "erase", p), Cmd("write", p) >>
           t == IF Nand THEN <<>> ELSE << Cmd("read", p), Cmd("crc32", p) >>
<1>1. s \in Seq(PartCommands) /\ Len(s) = 5 /\ s[1].op = "tftpboot"
  BY DEF Cmd, PartCommands, PartOps
<1>2. t \in Seq(PartCommands) /\ Len(t) \in Nat
  <2>1. CASE Nand
    BY <2>1
  <2>2. CASE ~ Nand
    BY <2>2 DEF Cmd, PartCommands, PartOps
  <2> QED
    BY <2>1, <2>2
<1>3. TftpAndFlash(p) = s \o t
  BY DEF TftpAndFlash
<1> HIDE DEF s, t
<1>4. /\ s \o t \in Seq(PartCommands) /\ Len(s \o t) = Len(s) + Len(t)
      /\ \A i \in 1..Len(s) : (s \o t)[i] = s[i]
      /\ \A i \in 1..Len(t) : (s \o t)[Len(s) + i] = t[i]
  <2>1. s \in Seq(PartCommands) /\ t \in Seq(PartCommands)
    BY <1>1, <1>2
  <2> QED
    BY <2>1
<1> DEFINE u == s \o t
<1> HIDE DEF u
<1>5. u \in Seq(PartCommands) /\ Len(u) = Len(s) + Len(t) /\ \A i \in 1..Len(s) : u[i] = s[i]
  BY <1>4, Zenon DEF u
<1>6. Len(u) \in Nat /\ Len(u) >= 5 /\ u[1].op = "tftpboot"
  BY <1>1, <1>2, <1>5
<1> QED
  BY <1>3, <1>5, <1>6, Zenon DEF u

\* NOR: with the commands that read back and compare.
LEMMA TftpNor ==
  ASSUME NEW p \in Names, kind = "nor"
  PROVE  /\ TftpAndFlash(p) \in Seq(PartCommands) /\ Len(TftpAndFlash(p)) = 7
         /\ \A i \in 1..7 : TftpAndFlash(p)[i].part = p
         /\ TftpAndFlash(p)[1].op = "tftpboot" /\ TftpAndFlash(p)[2].op = "tftp"
         /\ TftpAndFlash(p)[3].op = "crc32" /\ TftpAndFlash(p)[4].op \in {"erase", "erase_env"}
         /\ TftpAndFlash(p)[5].op = "write" /\ TftpAndFlash(p)[6].op = "read"
         /\ TftpAndFlash(p)[7].op = "crc32"
<1> DEFINE s == << Cmd("tftpboot", p), Cmd("tftp", p), Cmd("crc32", p),
                   Cmd(IF p = "boot" /\ wipe THEN "erase_env" ELSE "erase", p), Cmd("write", p) >>
           t == << Cmd("read", p), Cmd("crc32", p) >>
<1>1. /\ s \in Seq(PartCommands) /\ Len(s) = 5 /\ \A i \in 1..5 : s[i].part = p
      /\ s[1].op = "tftpboot" /\ s[2].op = "tftp" /\ s[3].op = "crc32" /\ s[4].op \in {"erase", "erase_env"}
      /\ s[5].op = "write"
  BY DEF Cmd, PartCommands, PartOps
<1>2. t \in Seq(PartCommands) /\ Len(t) = 2 /\ t[1].op = "read" /\ t[2].op = "crc32" /\ t[1].part = p /\ t[2].part = p
  BY DEF Cmd, PartCommands, PartOps
<1>3. TftpAndFlash(p) = s \o t
  BY DEF TftpAndFlash, Nand
<1> HIDE DEF s, t
<1>4. /\ s \o t \in Seq(PartCommands) /\ Len(s \o t) = Len(s) + Len(t)
      /\ \A i \in 1..Len(s) : (s \o t)[i] = s[i]
      /\ \A i \in 1..Len(t) : (s \o t)[Len(s) + i] = t[i]
  <2>1. s \in Seq(PartCommands) /\ t \in Seq(PartCommands)
    BY <1>1, <1>2
  <2> QED
    BY <2>1
<1> DEFINE u == s \o t
<1> HIDE DEF u
<1>5. /\ u \in Seq(PartCommands) /\ Len(u) = Len(s) + Len(t) /\ \A i \in 1..Len(s) : u[i] = s[i]
      /\ \A i \in 1..Len(t) : u[Len(s) + i] = t[i]
  BY <1>4, Zenon DEF u
<1>6. Len(u) = 7 /\ (\A i \in 1..5 : u[i] = s[i]) /\ u[6] = t[1] /\ u[7] = t[2]
  BY <1>1, <1>2, <1>5
<1>7. \A i \in 1..7 : u[i].part = p
  <2> TAKE i \in 1..7
  <2>1. i \in 1..5 \/ i = 6 \/ i = 7
    OBVIOUS
  <2> QED
    BY <1>1, <1>2, <1>6, <2>1
<1>8. /\ u[1].op = "tftpboot" /\ u[2].op = "tftp" /\ u[3].op = "crc32" /\ u[4].op \in {"erase", "erase_env"}
      /\ u[5].op = "write" /\ u[6].op = "read" /\ u[7].op = "crc32"
  BY <1>1, <1>2, <1>6
<1>9. TftpAndFlash(p) = u
  BY <1>3 DEF u
<1> HIDE DEF u
<1> QED
  BY <1>5, <1>6, <1>7, <1>8, <1>9, Zenon

Prefix2 == << Cmd("probe", "boot"), Cmd("setenv_net", "boot") >>
Rootfs == IF kind = "ubi" THEN UbiRootfs ELSE TftpAndFlash("rootfs")
Body == ((Prefix2 \o TftpAndFlash("boot")) \o TftpAndFlash("kernel")) \o Rootfs

LEMMA PlanIs == Plan = Body \o BootEnvironment
BY DEF Plan, Body, Rootfs, Prefix2

BodyCommands == [op : PartOps \cup {"setenv_net", "probe"}, part : Names]

LEMMA BootEnvShape ==
  /\ BootEnvironment \in Seq(Commands) /\ Len(BootEnvironment) = 5
  /\ BootEnvironment[1].op = "setenv_boot" /\ BootEnvironment[2].op = "printenv"
  /\ BootEnvironment[3].op = "setenv_mac" /\ BootEnvironment[4].op = "saveenv"
  /\ BootEnvironment[5].op = "reset"
BY DEF BootEnvironment, Cmd, Commands, Ops, Names

LEMMA RootfsShape == Rootfs \in Seq(PartCommands) /\ Len(Rootfs) >= 5 /\ Len(Rootfs) \in Nat
<1>1. UbiRootfs \in Seq(PartCommands) /\ Len(UbiRootfs) \in Nat /\ Len(UbiRootfs) >= 5
  BY DEF UbiRootfs, Cmd, PartCommands, PartOps, Names
<1>2. TftpAndFlash("rootfs") \in Seq(PartCommands) /\ Len(TftpAndFlash("rootfs")) \in Nat /\ Len(TftpAndFlash("rootfs")) >= 5
  BY TftpShape DEF Names
<1>3. Rootfs = UbiRootfs \/ Rootfs = TftpAndFlash("rootfs")
  BY DEF Rootfs
<1>4. Rootfs \in Seq(PartCommands) /\ Len(Rootfs) \in Nat /\ Len(Rootfs) >= 5
  BY <1>1, <1>2, <1>3, Zenon
<1> QED
  BY <1>4

LEMMA BodyShape ==
  /\ Body \in Seq(BodyCommands) /\ Len(Body) \in Nat /\ Len(Body) >= 17
  /\ Body[1].op = "probe" /\ Body[2].op = "setenv_net" /\ Body[3].op = "tftpboot"
  /\ \A i \in 2..Len(Body) : Body[i].op # "probe"
<1> DEFINE P == Prefix2
           b == TftpAndFlash("boot")
           k == TftpAndFlash("kernel")
           r == Rootfs
           s1 == P \o b
           s2 == s1 \o k
           s3 == s2 \o r
<1>1. P \in Seq(BodyCommands) /\ Len(P) = 2 /\ P[1].op = "probe" /\ P[2].op = "setenv_net"
  BY DEF Prefix2, Cmd, BodyCommands, Names
<1>2. /\ b \in Seq(PartCommands) /\ Len(b) \in Nat /\ Len(b) >= 5 /\ b[1].op = "tftpboot"
      /\ k \in Seq(PartCommands) /\ Len(k) \in Nat /\ Len(k) >= 5
  BY TftpShape DEF Names
<1>3. r \in Seq(PartCommands) /\ Len(r) >= 5 /\ Len(r) \in Nat
  BY RootfsShape
<1>4. \A c \in PartCommands : c \in BodyCommands /\ c.op # "probe"
  BY DEF PartCommands, BodyCommands, PartOps
<1>5. Body = s3
  BY DEF Body
<1> HIDE DEF P, b, k, r
<1>6. b \in Seq(BodyCommands) /\ k \in Seq(BodyCommands) /\ r \in Seq(BodyCommands)
  BY <1>2, <1>3, <1>4
<1>7. /\ \A i \in 1..Len(b) : b[i].op # "probe"
      /\ \A i \in 1..Len(k) : k[i].op # "probe"
      /\ \A i \in 1..Len(r) : r[i].op # "probe"
  BY <1>2, <1>3, <1>4
<1>8. ASSUME NEW s \in Seq(BodyCommands), NEW t \in Seq(BodyCommands), Len(s) >= 2,
             \A i \in 2..Len(s) : s[i].op # "probe", \A i \in 1..Len(t) : t[i].op # "probe"
      PROVE  \A i \in 2..Len(s \o t) : (s \o t)[i].op # "probe"
  <2> TAKE i \in 2..Len(s \o t)
  <2>0. Len(s) \in Nat /\ Len(t) \in Nat /\ Len(s \o t) = Len(s) + Len(t)
    BY Concat
  <2>1. CASE i <= Len(s)
    <3>1. (s \o t)[i] = s[i]
      BY <2>0, <2>1, Concat
    <3> QED
      BY <1>8, <2>0, <2>1, <3>1
  <2>2. CASE i > Len(s)
    <3>1. i - Len(s) \in 1..Len(t) /\ Len(s) + (i - Len(s)) = i
      BY <2>0, <2>2
    <3>2. (s \o t)[i] = t[i - Len(s)]
      BY <3>1, Concat
    <3> QED
      BY <1>8, <3>1, <3>2
  <2> QED
    BY <2>0, <2>1, <2>2
<1>9. /\ P \o b \in Seq(BodyCommands) /\ Len(P \o b) = Len(P) + Len(b)
      /\ \A i \in 1..Len(P) : (P \o b)[i] = P[i]
      /\ \A i \in 1..Len(b) : (P \o b)[Len(P) + i] = b[i]
  <2>1. P \in Seq(BodyCommands) /\ b \in Seq(BodyCommands)
    BY <1>1, <1>6
  <2> QED
    BY <2>1
<1>10. \A i \in 2..Len(s1) : s1[i].op # "probe"
  BY <1>1, <1>6, <1>7, <1>8
<1>11. /\ s1 \in Seq(BodyCommands) /\ Len(s1) = Len(P) + Len(b) /\ s1[1] = P[1] /\ s1[2] = P[2] /\ s1[Len(P) + 1] = b[1]
  <2>1. 1 \in 1..Len(P) /\ 2 \in 1..Len(P) /\ 1 \in 1..Len(b)
    BY <1>1, <1>2
  <2> QED
    BY <1>9, <2>1, Zenon
<1> HIDE DEF s1
<1>12. Len(s1) \in Nat /\ Len(s1) >= 7 /\ s1[1].op = "probe" /\ s1[2].op = "setenv_net" /\ s1[3].op = "tftpboot"
  BY <1>1, <1>2, <1>11
<1>13. /\ s1 \o k \in Seq(BodyCommands) /\ Len(s1 \o k) = Len(s1) + Len(k)
       /\ \A i \in 1..Len(s1) : (s1 \o k)[i] = s1[i]
       /\ \A i \in 1..Len(k) : (s1 \o k)[Len(s1) + i] = k[i]
  <2>1. s1 \in Seq(BodyCommands) /\ k \in Seq(BodyCommands)
    BY <1>6, <1>11
  <2> QED
    BY <2>1
<1>14. \A i \in 2..Len(s2) : s2[i].op # "probe"
  BY <1>6, <1>7, <1>8, <1>10, <1>11, <1>12
<1>15. s2 \in Seq(BodyCommands) /\ Len(s2) = Len(s1) + Len(k) /\ s2[1] = s1[1] /\ s2[2] = s1[2] /\ s2[3] = s1[3]
  <2>1. 1 \in 1..Len(s1) /\ 2 \in 1..Len(s1) /\ 3 \in 1..Len(s1)
    BY <1>12
  <2> QED
    BY <1>13, <2>1, Zenon
<1> HIDE DEF s2
<1>16. Len(s2) \in Nat /\ Len(s2) >= 12 /\ s2[1].op = "probe" /\ s2[2].op = "setenv_net" /\ s2[3].op = "tftpboot"
  BY <1>2, <1>12, <1>15
<1>17. /\ s2 \o r \in Seq(BodyCommands) /\ Len(s2 \o r) = Len(s2) + Len(r)
       /\ \A i \in 1..Len(s2) : (s2 \o r)[i] = s2[i]
       /\ \A i \in 1..Len(r) : (s2 \o r)[Len(s2) + i] = r[i]
  <2>1. s2 \in Seq(BodyCommands) /\ r \in Seq(BodyCommands)
    BY <1>6, <1>15
  <2> QED
    BY <2>1
<1>18. \A i \in 2..Len(s3) : s3[i].op # "probe"
  BY <1>6, <1>7, <1>8, <1>14, <1>15, <1>16
<1>19. s3 \in Seq(BodyCommands) /\ Len(s3) = Len(s2) + Len(r) /\ s3[1] = s2[1] /\ s3[2] = s2[2] /\ s3[3] = s2[3]
  <2>1. 1 \in 1..Len(s2) /\ 2 \in 1..Len(s2) /\ 3 \in 1..Len(s2)
    BY <1>16
  <2> QED
    BY <1>17, <2>1, Zenon
<1> HIDE DEF s3
<1>20. Len(s3) \in Nat /\ Len(s3) >= 17 /\ s3[1].op = "probe" /\ s3[2].op = "setenv_net" /\ s3[3].op = "tftpboot"
  BY <1>3, <1>16, <1>19
<1> QED
  BY <1>5, <1>18, <1>19, <1>20

EnvOps == {"setenv_boot", "printenv", "setenv_mac", "saveenv", "reset"}

\* The plan of every kind of flash ends with the environment.
LEMMA PlanShape ==
  /\ Len(Plan) \in Nat /\ Len(Plan) >= 22 /\ Plan \in Seq(Commands)
  /\ \A i \in 1..Len(Plan) : Plan[i] \in Commands
  /\ Plan[1].op = "probe" /\ Plan[2].op = "setenv_net" /\ Plan[3].op = "tftpboot"
  /\ \A i \in 2..Len(Plan) : Plan[i].op # "probe"
  /\ \A i \in 1..(SetBoot - 1) : Plan[i].op \notin EnvOps
  /\ Plan[SetBoot].op = "setenv_boot" /\ Plan[SetBoot + 1].op = "printenv"
  /\ Plan[SetBoot + 2].op = "setenv_mac" /\ Plan[SetBoot + 3].op = "saveenv" /\ Plan[SetBoot + 4].op = "reset"
<1> DEFINE s == Body
           t == BootEnvironment
<1>1. /\ s \in Seq(BodyCommands) /\ Len(s) \in Nat /\ Len(s) >= 17
      /\ s[1].op = "probe" /\ s[2].op = "setenv_net" /\ s[3].op = "tftpboot"
      /\ \A i \in 2..Len(s) : s[i].op # "probe"
  BY BodyShape
<1>2. \A c \in BodyCommands : c \in Commands /\ c.op \notin EnvOps
  BY DEF BodyCommands, Commands, Ops, PartOps, EnvOps
<1>3. /\ t \in Seq(Commands) /\ Len(t) = 5 /\ t[1].op = "setenv_boot" /\ t[2].op = "printenv"
      /\ t[3].op = "setenv_mac" /\ t[4].op = "saveenv" /\ t[5].op = "reset"
  BY BootEnvShape
<1>4. Plan = s \o t
  BY PlanIs
<1> HIDE DEF s, t
<1>5. s \in Seq(Commands) /\ \A i \in 1..Len(s) : s[i].op \notin EnvOps
  BY <1>1, <1>2
<1>6. /\ Plan \in Seq(Commands) /\ Len(Plan) = Len(s) + 5
      /\ \A i \in 1..Len(s) : Plan[i] = s[i]
      /\ \A i \in 1..5 : Plan[Len(s) + i] = t[i]
  <2>1. /\ s \o t \in Seq(Commands) /\ Len(s \o t) = Len(s) + Len(t)
        /\ \A i \in 1..Len(s) : (s \o t)[i] = s[i]
        /\ \A i \in 1..Len(t) : (s \o t)[Len(s) + i] = t[i]
    <3>1. s \in Seq(Commands) /\ t \in Seq(Commands)
      BY <1>3, <1>5
    <3> QED
      BY <3>1
  <2>2. 1..Len(t) = 1..5
    BY <1>3
  <2> QED
    BY <1>3, <1>4, <2>1, <2>2, Zenon
<1>7. SetBoot = Len(s) + 1 /\ SetBoot + 1 = Len(s) + 2 /\ SetBoot + 2 = Len(s) + 3
      /\ SetBoot + 3 = Len(s) + 4 /\ SetBoot + 4 = Len(s) + 5 /\ SetBoot - 1 = Len(s)
  BY <1>1, <1>6 DEF SetBoot
<1>8. \A i \in 2..Len(Plan) : Plan[i].op # "probe"
  <2> TAKE i \in 2..Len(Plan)
  <2>1. CASE i <= Len(s)
    BY <1>1, <1>6, <2>1
  <2>2. CASE i > Len(s)
    <3>1. i \in {Len(s) + 1, Len(s) + 2, Len(s) + 3, Len(s) + 4, Len(s) + 5}
      BY <1>1, <1>6, <2>2
    <3> QED
      BY <1>1, <1>3, <1>6, <3>1
  <2> QED
    BY <1>1, <1>6, <2>1, <2>2
<1>9. \A i \in 1..Len(Plan) : Plan[i] \in Commands
  BY <1>6
<1> QED
  BY <1>1, <1>3, <1>5, <1>6, <1>7, <1>8, <1>9

\* Commands that change a partition.
Touches(c) == c.op \in {"erase", "erase_env", "write", "ubi_create", "ubi_write"}

\* The plan for NOR, command by command.
LEMMA NorTable ==
  ASSUME kind = "nor"
  PROVE  /\ Len(Plan) = 28
         /\ \A i \in 1..7 : /\ Plan[2 + i] = TftpAndFlash("boot")[i]
                            /\ Plan[9 + i] = TftpAndFlash("kernel")[i]
                            /\ Plan[16 + i] = TftpAndFlash("rootfs")[i]
<1> DEFINE P == Prefix2
           b == TftpAndFlash("boot")
           k == TftpAndFlash("kernel")
           r == TftpAndFlash("rootfs")
           e == BootEnvironment
           s1 == P \o b
           s2 == s1 \o k
           s3 == s2 \o r
<1>1. P \in Seq(Commands) /\ Len(P) = 2
  BY DEF Prefix2, Cmd, Commands, Ops, Names
<1>2. /\ b \in Seq(PartCommands) /\ Len(b) = 7 /\ k \in Seq(PartCommands) /\ Len(k) = 7
      /\ r \in Seq(PartCommands) /\ Len(r) = 7
  BY TftpNor DEF Names
<1>3. e \in Seq(Commands) /\ Len(e) = 5
  BY BootEnvShape
<1>4. Plan = s3 \o e
  BY DEF Plan, Prefix2
<1>5. \A c \in PartCommands : c \in Commands
  BY DEF PartCommands, Commands, PartOps, Ops
<1> HIDE DEF P, b, k, r, e
<1>6. b \in Seq(Commands) /\ k \in Seq(Commands) /\ r \in Seq(Commands)
  BY <1>2, <1>5
<1>7. /\ s1 \in Seq(Commands) /\ Len(s1) = 9
      /\ \A i \in 1..7 : s1[2 + i] = b[i]
  <2>1. /\ s1 \in Seq(Commands) /\ Len(s1) = Len(P) + Len(b) /\ \A i \in 1..Len(P) : s1[i] = P[i]
        /\ \A i \in 1..Len(b) : s1[Len(P) + i] = b[i]
    <3>1. P \in Seq(Commands) /\ b \in Seq(Commands)
      BY <1>1, <1>6
    <3> QED
      BY <3>1
  <2> HIDE DEF s1
  <2> QED
    BY <1>1, <1>2, <2>1
<1> HIDE DEF s1
<1>8. /\ s2 \in Seq(Commands) /\ Len(s2) = 16 /\ \A i \in 1..9 : s2[i] = s1[i]
      /\ \A i \in 1..7 : s2[9 + i] = k[i]
  <2>1. /\ s2 \in Seq(Commands) /\ Len(s2) = Len(s1) + Len(k) /\ \A i \in 1..Len(s1) : s2[i] = s1[i]
        /\ \A i \in 1..Len(k) : s2[Len(s1) + i] = k[i]
    <3>1. s1 \in Seq(Commands) /\ k \in Seq(Commands)
      BY <1>6, <1>7
    <3> QED
      BY <3>1
  <2> HIDE DEF s2
  <2> QED
    BY <1>2, <1>7, <2>1
<1> HIDE DEF s2
<1>9. /\ s3 \in Seq(Commands) /\ Len(s3) = 23 /\ \A i \in 1..16 : s3[i] = s2[i]
      /\ \A i \in 1..7 : s3[16 + i] = r[i]
  <2>1. /\ s3 \in Seq(Commands) /\ Len(s3) = Len(s2) + Len(r) /\ \A i \in 1..Len(s2) : s3[i] = s2[i]
        /\ \A i \in 1..Len(r) : s3[Len(s2) + i] = r[i]
    <3>1. s2 \in Seq(Commands) /\ r \in Seq(Commands)
      BY <1>6, <1>8
    <3> QED
      BY <3>1
  <2> HIDE DEF s3
  <2> QED
    BY <1>2, <1>8, <2>1
<1> HIDE DEF s3
<1>10. Len(Plan) = 28 /\ \A i \in 1..23 : Plan[i] = s3[i]
  <2> DEFINE u == s3 \o e
  <2>1. Len(u) = Len(s3) + Len(e) /\ \A i \in 1..Len(s3) : u[i] = s3[i]
    <3>1. s3 \in Seq(Commands) /\ e \in Seq(Commands)
      BY <1>3, <1>9
    <3> QED
      BY <3>1
  <2>2. Plan = u
    BY <1>4
  <2> HIDE DEF u
  <2> QED
    BY <1>3, <1>9, <2>1, <2>2
<1>11. ASSUME NEW i \in 1..7
       PROVE  Plan[2 + i] = b[i] /\ Plan[9 + i] = k[i] /\ Plan[16 + i] = r[i]
  <2>1. 2 + i \in 1..9 /\ 2 + i \in 1..16 /\ 2 + i \in 1..23 /\ 9 + i \in 1..16 /\ 9 + i \in 1..23 /\ 16 + i \in 1..23
    OBVIOUS
  <2>2. Plan[2 + i] = s3[2 + i] /\ Plan[9 + i] = s3[9 + i] /\ Plan[16 + i] = s3[16 + i]
    BY <1>10, <2>1
  <2>3. s3[2 + i] = s2[2 + i] /\ s3[9 + i] = s2[9 + i] /\ s3[16 + i] = r[i]
    BY <1>9, <2>1
  <2>4. s2[2 + i] = s1[2 + i] /\ s2[9 + i] = k[i]
    BY <1>8, <2>1
  <2>5. s1[2 + i] = b[i]
    BY <1>7
  <2> QED
    BY <2>2, <2>3, <2>4, <2>5
<1> QED
  BY <1>10, <1>11 DEF b, k, r

\* Partition n of Order is commands 7 * n - 4 to 7 * n + 2.
LEMMA NorCommands ==
  ASSUME kind = "nor", NEW n \in 1..3
  PROVE  /\ Order[n] \in Names /\ Len(Plan) = 28
         /\ \A i \in (7 * n - 4)..(7 * n + 2) : Plan[i].part = Order[n]
         /\ Plan[7 * n - 4].op = "tftpboot" /\ Plan[7 * n - 3].op = "tftp" /\ Plan[7 * n - 2].op = "crc32"
         /\ Plan[7 * n - 1].op \in {"erase", "erase_env"} /\ Plan[7 * n].op = "write"
         /\ Plan[7 * n + 1].op = "read" /\ Plan[7 * n + 2].op = "crc32"
<1>1. Order[n] \in Names /\ Order[1] = "boot" /\ Order[2] = "kernel" /\ Order[3] = "rootfs"
  BY DEF Order, Names
<1>2. \A i \in 1..7 : Plan[7 * n - 5 + i] = TftpAndFlash(Order[n])[i]
  <2>1. CASE n = 1
    BY <1>1, <2>1, NorTable
  <2>2. CASE n = 2
    BY <1>1, <2>2, NorTable
  <2>3. CASE n = 3
    BY <1>1, <2>3, NorTable
  <2> QED
    BY <2>1, <2>2, <2>3
<1> DEFINE q == Order[n]
           t == TftpAndFlash(q)
<1>3. /\ \A i \in 1..7 : t[i].part = q
      /\ t[1].op = "tftpboot" /\ t[2].op = "tftp" /\ t[3].op = "crc32" /\ t[4].op \in {"erase", "erase_env"}
      /\ t[5].op = "write" /\ t[6].op = "read" /\ t[7].op = "crc32"
  BY <1>1, TftpNor
<1>4. \A i \in 1..7 : Plan[7 * n - 5 + i] = t[i]
  BY <1>2
<1> HIDE DEF q, t
<1>5. ASSUME NEW i \in (7 * n - 4)..(7 * n + 2)
      PROVE  Plan[i].part = q
  <2>1. i - (7 * n - 5) \in 1..7 /\ 7 * n - 5 + (i - (7 * n - 5)) = i
    OBVIOUS
  <2>2. Plan[i] = t[i - (7 * n - 5)]
    BY <1>4, <2>1
  <2> QED
    BY <1>3, <2>1, <2>2
<1>6. /\ Plan[7 * n - 4] = t[1] /\ Plan[7 * n - 3] = t[2] /\ Plan[7 * n - 2] = t[3] /\ Plan[7 * n - 1] = t[4]
      /\ Plan[7 * n] = t[5] /\ Plan[7 * n + 1] = t[6] /\ Plan[7 * n + 2] = t[7]
  <2>1. /\ 7 * n - 4 = 7 * n - 5 + 1 /\ 7 * n - 3 = 7 * n - 5 + 2 /\ 7 * n - 2 = 7 * n - 5 + 3
        /\ 7 * n - 1 = 7 * n - 5 + 4 /\ 7 * n = 7 * n - 5 + 5 /\ 7 * n + 1 = 7 * n - 5 + 6 /\ 7 * n + 2 = 7 * n - 5 + 7
    OBVIOUS
  <2> QED
    BY <1>4, <2>1
<1> QED
  BY <1>1, <1>3, <1>5, <1>6, NorTable DEF q

\* Which partition a command that writes or reads is about.
LEMMA NorTouch ==
  ASSUME kind = "nor", NEW i \in 1..28, Touches(Plan[i]) \/ Plan[i].op \in {"read", "replace"}
  PROVE  \E n \in 1..3 : /\ Plan[i].part = Order[n] /\ 7 * n - 4 <= i /\ i <= 7 * n + 2
                         /\ Plan[i].op # "replace"
<1>1. i \notin 24..28
  <2>1. Len(Plan) = 28 /\ SetBoot = 24
    BY NorTable DEF SetBoot
  <2>2. /\ Plan[24].op = "setenv_boot" /\ Plan[25].op = "printenv" /\ Plan[26].op = "setenv_mac"
        /\ Plan[27].op = "saveenv" /\ Plan[28].op = "reset"
    BY <2>1, PlanShape
  <2>3. i \in 24..28 => i = 24 \/ i = 25 \/ i = 26 \/ i = 27 \/ i = 28
    OBVIOUS
  <2> QED
    BY <2>2, <2>3 DEF Touches
<1>2. i # 1 /\ i # 2
  BY PlanShape DEF Touches
<1>3. PICK n \in 1..3 : i \in (7 * n - 4)..(7 * n + 2)
  <2>1. i \in 3..9 \/ i \in 10..16 \/ i \in 17..23
    BY <1>1, <1>2
  <2> QED
    BY <2>1
<1>4. Plan[i].part = Order[n]
  BY <1>3, NorCommands
<1>5. Plan[i].op # "replace"
  <2>1. i \in {7 * n - 4, 7 * n - 3, 7 * n - 2, 7 * n - 1, 7 * n, 7 * n + 1, 7 * n + 2}
    BY <1>3
  <2> QED
    BY <2>1, NorCommands
<1> QED
  BY <1>3, <1>4, <1>5

---------------------------------------------------------------------------
(* What the steps do.                                                      *)

LEMMA SamePlan ==
  ASSUME UNCHANGED <<kind, wipe>>
  PROVE  Plan' = Plan /\ SetBoot' = SetBoot
<1>1. Plan' = Plan
  BY DEF Plan, TftpAndFlash, UbiRootfs, BootEnvironment, Nand
<1> QED
  BY <1>1 DEF SetBoot

LEMMA NowTyped ==
  ASSUME IInv, Driving
  PROVE  step \in 1..Len(Plan) /\ Now = Plan[step] /\ Now \in Commands
<1>1. step \in 1..Len(Plan)
  BY PlanShape DEF IInv, FlowInv, Driving
<1> QED
  BY <1>1, PlanShape DEF Now

\* The first of one answer is that answer.
LEMMA OneAnswer ==
  ASSUME NEW resp \in Seq(Answers), Len(resp) = 1, NEW out, NEW v, resp[1] = Answer(out, v)
  PROVE  Has(resp, out) /\ Found(resp, out) = v
<1> DEFINE First(i) == resp[i].out = out /\ \A j \in 1..(i - 1) : resp[j].out # out
           c == CHOOSE i \in DOMAIN resp : First(i)
<1>1. DOMAIN resp = {1}
  OBVIOUS
<1>2. resp[1].out = out /\ resp[1].val = v
  BY DEF Answer
<1>3. First(1)
  BY <1>2
<1>4. c = 1
  <2>1. \E i \in DOMAIN resp : First(i)
    BY <1>1, <1>3
  <2> HIDE DEF First
  <2>2. c \in DOMAIN resp
    BY <2>1, Zenon
  <2> QED
    BY <1>1, <2>2
<1>5. Found(resp, out) = resp[c].val
  BY DEF Found
<1>6. Has(resp, out)
  BY <1>1, <1>2 DEF Has
<1> HIDE DEF c
<1> QED
  BY <1>2, <1>4, <1>5, <1>6

\* The camera takes the first command, answers it, and changes what the
\* command names.
LEMMA CameraEffect ==
  ASSUME IInv, Camera
  PROVE  /\ alive /\ queue # <<>> /\ Head(queue) \in Commands /\ queue' = Tail(queue)
         /\ \E a \in Answers : answers' = Append(answers, a)
         /\ UNCHANGED <<mode, alive, waiting, late, serving>>
         /\ ram' \in Contents /\ env' \in Environments /\ saved' \in Environments
         /\ \/ flash' = flash
            \/ /\ Touches(Head(queue))
               /\ \E x \in Contents : flash' = [flash EXCEPT ![Head(queue).part] = x]
         /\ Head(queue).op = "crc32" =>
              UNCHANGED <<ram, flash>> /\ (hasCrc => answers' = Append(answers, Answer("crc", ram)))
         /\ Head(queue).op = "read" =>
              flash' = flash /\ (Head(queue).part \in blind' \/ ram' = flash[Head(queue).part])
         /\ hasCrc' = hasCrc /\ blind \subseteq blind'
         /\ Head(queue).op = "printenv" => answers' = Append(answers, Answer("eth", env.eth))
         /\ env'.eth = IF Head(queue).op = "setenv_mac" THEN "new" ELSE env.eth
         /\ Head(queue).op # "saveenv" => saved'.boot = saved.boot
         /\ Head(queue).op \notin {"saveenv", "erase_env"} => saved' = saved
         /\ Head(queue).op = "saveenv" => saved' = env
<1> DEFINE c == Head(queue)
<1> USE DEF IInv
<1>0. alive /\ queue # <<>> /\ c \in Commands
  BY DEF Camera, ConsoleInv
<1>1. c.part \in Parts /\ c.part \in Names
  BY <1>0, PartsAssumption DEF Commands, Names
<1>2. ASSUME NEW out \in Outs, NEW val \in Vals, Ran(out, val)
      PROVE  /\ queue' = Tail(queue) /\ \E a \in Answers : answers' = Append(answers, a)
             /\ answers' = Append(answers, Answer(out, val))
             /\ UNCHANGED <<mode, alive, waiting, late, serving>>
  <2>1. Answer(out, val) \in Answers
    BY <1>2 DEF Answer, Answers
  <2> QED
    BY <1>2, <2>1 DEF Ran
<1>3. /\ env.eth \in Vals /\ "" \in Vals /\ ram \in Vals /\ ram \in Contents
      /\ env \in Environments /\ saved \in Environments
  BY DEF ConsoleInv, Environments, Vals
<1>4. CASE RunTftp
  <2>1. serving[c.part] # "none" => serving[c.part] \in Contents
    BY <1>1 DEF ConsoleInv, Contents
  <2>2. \E out \in {"unknown", "done", "error"} : Ran(out, "")
    BY <1>4 DEF RunTftp
  <2>3. ram' \in Contents
    BY <1>3, <1>4, <2>1 DEF RunTftp, Contents
  <2>4. UNCHANGED <<flash, env, saved, hasCrc, blind>> /\ c.op \in {"tftpboot", "tftp"}
    BY <1>4 DEF RunTftp
  <2> QED
    BY <1>0, <1>2, <1>3, <2>2, <2>3, <2>4 DEF Outs
<1>5. CASE RunCrc32
  <2>1. UNCHANGED <<ram, flash, env, saved, hasCrc, blind>> /\ c.op = "crc32"
    BY <1>5 DEF RunCrc32, camera
  <2>2. CASE hasCrc
    <3>1. Ran("crc", ram)
      BY <1>5, <2>2 DEF RunCrc32
    <3> QED
      BY <1>0, <1>2, <1>3, <2>1, <3>1 DEF Outs
  <2>3. CASE ~ hasCrc
    <3>1. Ran("unknown", "")
      BY <1>5, <2>3 DEF RunCrc32
    <3> QED
      BY <1>0, <1>2, <1>3, <2>1, <2>3, <3>1 DEF Outs
  <2> QED
    BY <2>2, <2>3
<1>6. CASE RunRead
  <2>1. /\ Ran("ok", "") \/ Ran("error", "")
        /\ UNCHANGED <<flash, env, saved, hasCrc>> /\ c.op = "read"
    BY <1>6 DEF RunRead
  <2>2. \/ ram' = flash[c.part] /\ blind' = blind
        \/ ram' \in {ram, "bad"} /\ blind' = blind \cup {c.part}
    BY <1>6 DEF RunRead
  <2>3. ram' \in Contents
    BY <1>1, <1>3, <2>2 DEF ConsoleInv, Contents
  <2>4. blind \subseteq blind' /\ (c.part \in blind' \/ ram' = flash[c.part])
    BY <2>2
  <2> QED
    BY <1>0, <1>2, <1>3, <2>1, <2>3, <2>4 DEF Outs
<1>7. CASE RunErase
  <2>1. (Ran("ok", "") \/ Ran("error", "")) /\ UNCHANGED <<ram, env, hasCrc, blind>> /\ c.op \in {"erase", "erase_env"}
    BY <1>7 DEF RunErase
  <2>2. flash' = flash \/ flash' = [flash EXCEPT ![c.part] = "erased"]
    BY <1>7 DEF RunErase
  <2>3. "erased" \in Contents
    BY DEF Contents
  <2>4. saved' = saved \/ (c.op = "erase_env" /\ saved' = [saved EXCEPT !.eth = "default"])
    BY <1>7 DEF RunErase
  <2>5. saved' \in Environments /\ saved'.boot = saved.boot
    BY <1>3, <2>4 DEF Environments
  <2> QED
    BY <1>0, <1>2, <1>3, <2>1, <2>2, <2>3, <2>4, <2>5 DEF Outs, Touches
<1>8. CASE RunWrite
  <2>1. (Ran("ok", "") \/ Ran("error", "")) /\ UNCHANGED <<ram, env, saved, hasCrc, blind>> /\ c.op = "write"
    BY <1>8 DEF RunWrite
  <2>2. flash' = [flash EXCEPT ![c.part] = ram] \/ flash' = [flash EXCEPT ![c.part] = "bad"]
    BY <1>8 DEF RunWrite
  <2>3. "bad" \in Contents
    BY DEF Contents
  <2> QED
    BY <1>0, <1>2, <1>3, <2>1, <2>2, <2>3 DEF Outs, Touches
<1>9. CASE RunUbi
  <2>1. (Ran("ok", "") \/ Ran("error", "")) /\ UNCHANGED <<ram, env, saved, hasCrc, blind>> /\ c.op \in {"ubi_create", "ubi_write"}
    BY <1>9 DEF RunUbi
  <2>2. \/ flash' = flash \/ flash' = [flash EXCEPT ![c.part] = ram]
        \/ flash' = [flash EXCEPT ![c.part] = "volume"]
    BY <1>9 DEF RunUbi
  <2>3. "volume" \in Contents
    BY DEF Contents
  <2> QED
    BY <1>0, <1>2, <1>3, <2>1, <2>2, <2>3 DEF Outs, Touches
<1>10. CASE RunEnv
  <2>0. UNCHANGED <<ram, flash, hasCrc, blind>>
    BY <1>10 DEF RunEnv
  <2>1. CASE c.op \in {"setenv_net", "setenv_boot", "setenv_mtdparts", "setenv_mac"}
    <3>1. Ran("ok", "") /\ saved' = saved
      BY <1>10, <2>1 DEF RunEnv
    <3>2. env' \in Environments /\ env'.eth = IF c.op = "setenv_mac" THEN "new" ELSE env.eth
      BY <1>3, <1>10, <2>1 DEF RunEnv, Environments
    <3> QED
      BY <1>0, <1>2, <1>3, <2>0, <2>1, <3>1, <3>2 DEF Outs
  <2>2. CASE c.op = "printenv"
    <3>1. Ran("eth", env.eth) /\ UNCHANGED <<env, saved>>
      BY <1>10, <2>2 DEF RunEnv
    <3> QED
      BY <1>0, <1>2, <1>3, <2>0, <2>2, <3>1 DEF Outs
  <2>3. CASE c.op = "printenv_mtd"
    BY <1>0, <2>3 DEF Commands, Ops
  <2>4. CASE c.op = "saveenv"
    <3>1. Ran("ok", "") /\ env' = env /\ saved' = env
      BY <1>10, <2>4 DEF RunEnv
    <3> QED
      BY <1>0, <1>2, <1>3, <2>0, <2>4, <3>1 DEF Outs
  <2> QED
    BY <1>10, <2>1, <2>2, <2>3, <2>4 DEF RunEnv
<1>11. CASE RunOther
  <2>1. /\ (\E out \in {"ok", "error", "unknown"} : Ran(out, "")) /\ UNCHANGED <<ram, flash, env, saved, hasCrc, blind>>
        /\ c.op \in {"probe", "ping", "reset", "present", "absent", "mangled"}
    BY <1>11 DEF RunOther, camera
  <2> QED
    BY <1>0, <1>2, <1>3, <2>1 DEF Outs
<1> QED
  BY <1>4, <1>5, <1>6, <1>7, <1>8, <1>9, <1>10, <1>11 DEF Camera

LEMMA SendEffect ==
  ASSUME IInv, Driving, Send(Now)
  PROVE  /\ \/ queue' = queue \/ \E c \in Commands : queue' = Append(queue, c)
         /\ alive' = alive /\ (~alive => queue' = <<>>) /\ ~waiting /\ mode # "none"
         /\ queue = <<>> /\ alive => queue' = <<Now>>
         /\ answers' = <<>> /\ waiting' = TRUE
         /\ UNCHANGED <<mode, late, ram, flash, env, saved, hasCrc, blind>>
<1>1. Now \in Commands
  BY NowTyped
<1>2. Now.part \in Names
  BY <1>1 DEF Commands
<1>3. Cmd("mangled", Now.part) \in Commands
  BY <1>2 DEF Cmd, Commands, Ops
<1>4. ~alive => queue = <<>>
  BY DEF IInv, ConsoleInv
<1>5. queue = <<>> => Append(queue, Now) = <<Now>>
  OBVIOUS
<1>6. /\ ~waiting /\ mode # "none" /\ alive' = alive /\ answers' = <<>> /\ waiting' = TRUE
      /\ UNCHANGED <<mode, late, ram, flash, env, saved, hasCrc, blind>>
      /\ \/ queue' = IF alive THEN Append(queue, Now) ELSE queue
         \/ queue # <<>> /\ queue' = Append(queue, Cmd("mangled", Now.part))
  BY DEF Send
<1> HIDE DEF Now
<1> QED
  BY <1>1, <1>3, <1>4, <1>5, <1>6

\* The three ways a command ends.
Over(resp) == Reply(resp) \/ Expire(resp) \/ Refused

LEMMA OverEffect ==
  ASSUME IInv, NEW resp, Over(resp)
  PROVE  /\ queue' \in {queue, <<>>} /\ waiting' = FALSE
         /\ UNCHANGED <<mode, alive, ram, flash, env, saved, hasCrc, blind>>
         /\ late' \in 0..MaxLate /\ answers' \in {answers, <<>>}
         /\ Len(queue') + Len(answers') <= late'
         /\ ~alive => resp = <<>>
         /\ late' = 0 => /\ late = 0 /\ waiting
                         /\ \/ alive /\ resp = answers /\ queue = <<>> /\ Len(answers) = 1
                            \/ ~alive /\ resp = <<>>
<1> USE DEF IInv
<1>1. /\ queue \in Seq(Commands) /\ answers \in Seq(Answers) /\ late \in 0..MaxLate /\ waiting \in BOOLEAN
      /\ Len(queue) \in Nat /\ Len(answers) \in Nat /\ MaxLate \in Nat /\ late \in Nat
      /\ Len(queue) + Len(answers) <= late + (IF waiting THEN 1 ELSE 0)
      /\ (~alive => queue = <<>> /\ answers = <<>>)
      /\ (late = 0 => IF waiting THEN ~alive \/ queue = <<Now>> \/ (queue = <<>> /\ Len(answers) = 1)
                                 ELSE queue = <<>>)
  BY ConsoleAssumption DEF ConsoleInv, SyncInv
<1> HIDE DEF IInv, Now
<1>2. CASE Reply(resp)
  <2>1. /\ Len(answers) >= 1 /\ alive /\ waiting /\ waiting' = FALSE /\ resp = answers /\ answers' = <<>>
        /\ UNCHANGED <<mode, alive, queue, late, ram, flash, env, saved, hasCrc, blind>>
    BY <1>1, <1>2 DEF Reply, camera
  <2>2. late = 0 => queue = <<>> /\ Len(answers) = 1
    <3>1. CASE queue = <<Now>>
      BY <1>1, <2>1, <3>1
    <3> QED
      BY <1>1, <2>1, <3>1
  <2> QED
    BY <1>1, <2>1, <2>2
<1>3. CASE Expire(resp)
  <2>1. /\ answers' = answers /\ answers = <<>> /\ waiting /\ waiting' = FALSE /\ queue' \in {queue, <<>>}
        /\ UNCHANGED <<mode, alive, ram, flash, env, saved, hasCrc, blind>> /\ resp = <<>>
        /\ \/ alive /\ late < MaxLate /\ late' = late + 1
           \/ ~alive /\ late' = late
    BY <1>3 DEF Expire, camera
  <2> QED
    BY <1>1, <2>1
<1>4. CASE Refused
  BY <1>1, <1>4 DEF Refused, console, camera
<1> QED
  BY <1>2, <1>3, <1>4 DEF Over

\* Going on with an answer.
LEMMA ResumeEffect ==
  ASSUME IInv, Driving, NEW resp, Resume(resp)
  PROVE  /\ \/ step' = step /\ pc' = "unwind_failed" /\ step >= 2 /\ held' = held
            \/ step' = step /\ pc' = "failed" /\ step = 1 /\ held' \subseteq held
            \/ /\ step' = step + 1 \/ (step' = step + 2 /\ Now.op \in {"tftpboot", "printenv"})
               /\ step' <= Len(Plan) + 1 /\ held' = held
               /\ pc' = IF step = 1 THEN "backend" ELSE IF step' > Len(Plan) THEN "unwind_done" ELSE pc
         /\ Now.op = "crc32" /\ step' # step => ~(Has(resp, "crc") /\ Found(resp, "crc") # Image(Now.part))
         /\ Now.op = "printenv" => step' = step + (IF HasOwnMac(resp) THEN 2 ELSE 1)
         /\ Now.op = "tftpboot" /\ resp = <<>> => step' = step
<1>1. step \in 1..Len(Plan) /\ Now = Plan[step] /\ Len(Plan) \in Nat
  BY NowTyped, PlanShape
<1>2. Now.op = "probe" <=> step = 1
  BY <1>1, PlanShape
<1>3. Now.op \in {"tftpboot", "printenv"} => step + 2 <= Len(Plan) + 1
  <2>1. Plan[Len(Plan)].op = "reset"
    BY PlanShape DEF SetBoot
  <2> QED
    BY <1>1, <2>1
<1>4. resp = <<>> => ~Has(resp, "done") /\ ~Has(resp, "unknown")
  BY DEF Has
<1> HIDE DEF Now
<1>5. CASE Now.op = "probe"
  BY <1>1, <1>2, <1>5 DEF Resume, Advance, Fail
<1>6. CASE Now.op = "tftpboot"
  BY <1>1, <1>2, <1>3, <1>4, <1>6 DEF Resume, Advance, Abort
<1>7. CASE Now.op = "tftp"
  BY <1>1, <1>2, <1>7 DEF Resume, Advance, Abort
<1>8. CASE Now.op = "crc32"
  BY <1>1, <1>2, <1>8 DEF Resume, Advance, Abort
<1>9. CASE Now.op = "ubi_write"
  BY <1>1, <1>2, <1>9 DEF Resume, Advance, Abort
<1>10. CASE Now.op = "printenv"
  BY <1>1, <1>2, <1>3, <1>10 DEF Resume, Advance
<1>11. CASE Now.op \notin {"probe", "tftpboot", "tftp", "crc32", "ubi_write", "printenv"}
  BY <1>1, <1>2, <1>11 DEF Resume, Advance
<1> QED
  BY <1>5, <1>6, <1>7, <1>8, <1>9, <1>10, <1>11

\* Everything before and between the commands leaves the console alone.
Quiet ==
  \/ Extract \/ GetUBoot \/ PowerSetup \/ OpenLink \/ Burn \/ Backend \/ Stage \/ Address \/ Serve
  \/ Replace \/ CloseServer \/ LeaveAddress \/ ClearPod \/ Finish \/ Ended

\* A command comes to its end and install goes on.
Ends ==
  \E resp : /\ Over(resp) /\ Driving /\ Resume(resp)
            /\ UNCHANGED <<serving, kind, wipe, power, staged, cleanup, eth0>>

LEMMA StepKinds ==
  ASSUME [Next]_vars
  PROVE  /\ Quiet \/ Detect \/ Issue \/ Ends \/ CameraStep \/ UNCHANGED vars
         /\ UNCHANGED <<kind, wipe, eth0>>
<1>1. Answered => Ends
  BY DEF Answered, Ends, Over
<1>2. Unanswered => Ends
  BY DEF Unanswered, Ends, Over
<1>3. NotTaken => Ends
  BY DEF NotTaken, Ends, Over
<1>4. Quiet \/ Detect \/ Issue \/ Ends \/ CameraStep \/ UNCHANGED vars
  BY <1>1, <1>2, <1>3 DEF Next, Host, Quiet
<1>5. Quiet => UNCHANGED <<kind, wipe, eth0>>
  BY DEF Quiet, Extract, GetUBoot, PowerSetup, OpenLink, Burn, Backend, Stage, Address, Serve, Replace,
         CloseServer, LeaveAddress, ClearPod, Finish, Ended, vars, flow, flowRest
<1>6. Detect \/ Issue \/ Ends \/ CameraStep \/ UNCHANGED vars => UNCHANGED <<kind, wipe, eth0>>
  BY DEF Detect, Issue, Ends, CameraStep, vars, flow
<1> QED
  BY <1>4, <1>5, <1>6

LEMMA QuietEffect ==
  ASSUME IInv, Quiet
  PROVE  /\ UNCHANGED console /\ serving' \in [Parts -> Parts \cup {"none", "ubifs"}]
         /\ ~waiting
         /\ step' = step \/ (Driving /\ Now.op = "replace" /\ step' = step + 1)
<1>1. UNCHANGED console
  BY DEF Quiet, Extract, GetUBoot, PowerSetup, OpenLink, Burn, Backend, Stage, Address, Serve, Replace,
         CloseServer, LeaveAddress, ClearPod, Finish, Ended, vars
<1>2. serving' \in [Parts -> Parts \cup {"none", "ubifs"}]
  <2>1. CASE Stage
    <3>1. \A i \in 1..3 : Order[i] \in Parts
      BY PartsAssumption DEF Order
    <3>2. serving' = serving \/ \E i \in 1..3 : serving' = [serving EXCEPT ![Order[i]] = Order[i]]
      <4>1. Len(Order) = 3 /\ staged \in 0..3
        BY DEF Order, IInv, FlowInv
      <4> QED
        BY <2>1, <4>1 DEF Stage, TftpPut
    <3> QED
      BY <3>1, <3>2 DEF IInv, ConsoleInv
  <2>2. CASE ~ Stage
    <3>1. serving' \in {serving, [p \in Parts |-> p], [p \in Parts |-> "none"],
                        [serving EXCEPT !["rootfs"] = "ubifs"]}
      BY <2>2 DEF Quiet, Extract, GetUBoot, PowerSetup, OpenLink, Burn, Backend, Address, Serve, Replace,
                  CloseServer, LeaveAddress, ClearPod, Finish, Ended, vars, StartServer
    <3> QED
      BY <3>1, PartsAssumption DEF IInv, ConsoleInv
  <2> QED
    BY <2>1, <2>2
<1>3. CASE Replace
  <2>1. Driving /\ Now.op = "replace" /\ (step' = step \/ step' = step + 1)
    BY <1>3 DEF Replace, Advance, Abort
  <2> QED
    BY <1>1, <1>2, <2>1 DEF IInv, SyncInv
<1>4. CASE ~ Replace
  <2>1. pc # "drive"
    BY <1>4 DEF Quiet, Extract, GetUBoot, PowerSetup, OpenLink, Burn, Backend, Stage, Address, Serve,
                CloseServer, LeaveAddress, ClearPod, Finish, Ended, Unwinding
  <2>2. step' = step
    BY <1>4 DEF Quiet, Extract, GetUBoot, PowerSetup, OpenLink, Burn, Backend, Stage, Address, Serve,
                CloseServer, LeaveAddress, ClearPod, Finish, Ended, vars, flow
  <2> QED
    BY <1>1, <1>2, <2>1, <2>2 DEF IInv, SyncInv
<1> QED
  BY <1>3, <1>4

LEMMA ConsoleStep ==
  ASSUME IInv, [Next]_vars
  PROVE  ConsoleInv'
<1> USE DEF IInv
<1>0. /\ queue \in Seq(Commands) /\ answers \in Seq(Answers) /\ Len(queue) \in Nat /\ Len(answers) \in Nat
      /\ late \in Nat /\ late \in 0..MaxLate /\ waiting \in BOOLEAN /\ alive \in BOOLEAN
      /\ <<>> \in Seq(Commands) /\ <<>> \in Seq(Answers) /\ Len(<<>>) = 0
      /\ Len(queue) + Len(answers) <= late + (IF waiting THEN 1 ELSE 0)
      /\ (~alive => queue = <<>> /\ answers = <<>>)
  BY ConsoleAssumption DEF ConsoleInv
<1>1. CASE Quiet
  BY <1>1, QuietEffect DEF console, camera, ConsoleInv
<1>2. CASE Detect
  <2>1. mode' \in {"shell", "download"} /\ UNCHANGED <<alive, queue, answers, waiting, late, camera, serving>>
    BY <1>2 DEF Detect, DetectMode
  <2> QED
    BY <2>1 DEF camera, ConsoleInv
<1>3. CASE Issue
  <2>1. Driving /\ Send(Now) /\ serving' = serving
    BY <1>3 DEF Issue
  <2>2. /\ queue' = queue \/ \E c \in Commands : queue' = Append(queue, c)
        /\ alive' = alive /\ (~alive => queue' = <<>>) /\ ~waiting
        /\ answers' = <<>> /\ waiting' = TRUE
        /\ UNCHANGED <<mode, late, ram, flash, env, saved, hasCrc, blind>>
    BY <2>1, SendEffect
  <2>3. queue' \in Seq(Commands) /\ Len(queue') <= Len(queue) + 1
    <3>1. CASE queue' = queue
      BY <1>0, <3>1
    <3>2. ASSUME NEW c \in Commands, queue' = Append(queue, c)
          PROVE  queue' \in Seq(Commands) /\ Len(queue') = Len(queue) + 1
      BY <1>0, <3>2
    <3> QED
      BY <1>0, <2>2, <3>1, <3>2
  <2>4. Len(queue') + Len(answers') <= late' + (IF waiting' THEN 1 ELSE 0)
    <3>1. Len(queue) + Len(answers) <= late
      BY <1>0, <2>2
    <3>2. Len(queue') \in Nat /\ Len(answers') = 0
      BY <1>0, <2>2, <2>3
    <3> QED
      BY <1>0, <2>2, <2>3, <3>1, <3>2
  <2> QED
    BY <1>0, <2>1, <2>2, <2>3, <2>4 DEF ConsoleInv
<1>4. CASE Ends
  <2>1. PICK resp : Over(resp) /\ Driving /\ Resume(resp) /\ serving' = serving
    BY <1>4 DEF Ends
  <2>2. /\ queue' \in {queue, <<>>} /\ waiting' = FALSE
        /\ UNCHANGED <<mode, alive, ram, flash, env, saved, hasCrc, blind>>
        /\ late' \in 0..MaxLate /\ answers' \in {answers, <<>>}
        /\ Len(queue') + Len(answers') <= late'
    BY <2>1, OverEffect
  <2>3. queue' \in Seq(Commands) /\ answers' \in Seq(Answers) /\ (~alive' => queue' = <<>> /\ answers' = <<>>)
    BY <1>0, <2>2
  <2>4. Len(queue') + Len(answers') <= late' + (IF waiting' THEN 1 ELSE 0)
    BY <2>2
  <2> QED
    BY <2>1, <2>2, <2>3, <2>4 DEF ConsoleInv
<1>5. CASE CameraStep
  <2>1. Camera
    BY <1>5 DEF CameraStep
  <2>2. PICK a \in Answers : answers' = Append(answers, a)
    BY <2>1, CameraEffect
  <2>3. answers' \in Seq(Answers) /\ Len(answers') = Len(answers) + 1
    BY <1>0, <2>2
  <2>4. queue # <<>> /\ queue' = Tail(queue) /\ alive /\ Head(queue) \in Commands
    BY <2>1, CameraEffect
  <2>5. queue' \in Seq(Commands) /\ Len(queue') = Len(queue) - 1
    BY <1>0, <2>4
  <2>6. Head(queue).part \in Parts
    BY <2>4, PartsAssumption DEF Commands, Names
  <2>7. flash' \in [Parts -> Contents]
    BY <2>1, <2>6, CameraEffect DEF ConsoleInv
  <2>8. /\ UNCHANGED <<mode, alive, waiting, late, serving>>
        /\ ram' \in Contents /\ env' \in Environments /\ saved' \in Environments
    BY <2>1, CameraEffect
  <2> QED
    BY <1>0, <2>3, <2>4, <2>5, <2>7, <2>8 DEF ConsoleInv
<1>6. CASE UNCHANGED vars
  BY <1>6 DEF vars, console, camera, ConsoleInv
<1> QED
  BY <1>1, <1>2, <1>3, <1>4, <1>5, <1>6, StepKinds

LEMMA FlowStep ==
  ASSUME IInv, [Next]_vars
  PROVE  FlowInv' /\ HeldInv'
<1> USE DEF IInv
<1> DEFINE L == Len(Plan)
           Out == {"server", "address"}
<1>0. /\ Plan' = Plan /\ UNCHANGED <<kind, wipe, eth0>> /\ L \in Nat /\ L >= 22
  BY StepKinds, SamePlan, PlanShape
<1>1. /\ step \in 1..(L + 1) /\ pc \in PCs /\ held \subseteq {"power", "transport", "address", "server", "leftover"}
      /\ staged \in 0..3 /\ cleanup \in BOOLEAN
      /\ (pc \in Early => step = 1) /\ (pc \in Middle => step = 2)
      /\ (pc \in {"unwind_done", "done"} => step = L + 1)
      /\ (held \cap Out # {} => pc \in {"serve", "drive", "unwind_done", "unwind_failed"} /\ step >= 2)
      /\ (pc = "done" => held \subseteq {"leftover"})
  BY DEF FlowInv, HeldInv
<1>2. ASSUME step' \in 1..(L + 1), pc' \in PCs, held' \subseteq {"power", "transport", "address", "server", "leftover"},
             staged' \in 0..3, cleanup' \in BOOLEAN,
             pc' \in Early => step' = 1, pc' \in Middle => step' = 2,
             pc' \in {"unwind_done", "done"} => step' = L + 1,
             held' \cap Out # {} => pc' \in {"serve", "drive", "unwind_done", "unwind_failed"} /\ step' >= 2,
             pc' = "done" => held' \subseteq {"leftover"}
      PROVE  FlowInv' /\ HeldInv'
  BY <1>0, <1>2 DEF FlowInv, HeldInv
<1> HIDE DEF L
<1>3. CASE Extract \/ GetUBoot \/ PowerSetup \/ OpenLink \/ Burn
  <2>1. /\ UNCHANGED <<step, staged, cleanup>> /\ pc \in Early /\ (pc' \in Early \/ pc' = "failed")
    BY <1>3 DEF Extract, GetUBoot, PowerSetup, OpenLink, Burn, Go, Fail, Early
  <2>2. held' \subseteq held \cup {"power", "transport"}
    BY <1>3 DEF Extract, GetUBoot, PowerSetup, OpenLink, Burn
  <2> QED
    BY <1>1, <1>2, <2>1, <2>2 DEF Early, Middle, PCs
<1>4. CASE Detect
  <2>1. UNCHANGED <<step, staged, cleanup, held>> /\ pc = "detect" /\ pc' = "drive"
    BY <1>4 DEF Detect, Go
  <2> QED
    BY <1>1, <1>2, <2>1 DEF Early, Middle, PCs
<1>5. CASE Backend
  <2>1. UNCHANGED <<step, staged, cleanup>> /\ pc = "backend" /\ pc' \in {"stage", "address", "failed"} /\ held' \subseteq held
    BY <1>5 DEF Backend, Go, Fail
  <2> QED
    BY <1>1, <1>2, <2>1 DEF Early, Middle, PCs
<1>6. CASE Stage
  <2>1. UNCHANGED <<step, held>> /\ pc = "stage" /\ pc' \in {"stage", "unwind_failed", "drive"} /\ cleanup' \in BOOLEAN
    BY <1>1, <1>6 DEF Stage, Go
  <2>2. staged' \in 0..3
    <3>1. Len(Order) = 3
      BY DEF Order
    <3> QED
      BY <1>1, <1>6, <3>1 DEF Stage, TftpPut
  <2> QED
    BY <1>1, <1>2, <2>1, <2>2 DEF Early, Middle, PCs
<1>7. CASE Address
  <2>1. /\ UNCHANGED <<step, staged, cleanup>> /\ pc = "address" /\ pc' \in {"serve", "unwind_failed"}
        /\ \/ pc' = "serve" /\ held' \in {held, held \cup {"address"}}
           \/ pc' = "unwind_failed" /\ held' \in {held, held \cup {"leftover"}}
    BY <1>7 DEF Address, AddIp, Go
  <2>2. step = 2 /\ held \cap Out = {}
    BY <1>1, <2>1 DEF Middle
  <2>3. CASE pc' = "serve"
    <3>1. held' \subseteq {"power", "transport", "address", "server", "leftover"}
      BY <1>1, <2>1, <2>3
    <3>2. step' = 2 /\ step' \in 1..(L + 1) /\ staged' \in 0..3 /\ cleanup' = cleanup
      BY <1>0, <1>1, <2>1, <2>2
    <3> QED
      BY <1>1, <1>2, <2>2, <2>3, <3>1, <3>2 DEF Early, Middle, PCs
  <2>4. CASE pc' = "unwind_failed"
    <3>1. held' \subseteq {"power", "transport", "address", "server", "leftover"} /\ held' \cap Out = {}
      BY <1>1, <2>1, <2>2, <2>4
    <3> QED
      BY <1>1, <1>2, <2>1, <2>2, <2>4, <3>1 DEF Early, Middle, PCs
  <2> QED
    BY <2>1, <2>3, <2>4
<1>8. CASE Serve
  <2>1. /\ UNCHANGED <<step, staged, cleanup>> /\ pc = "serve" /\ pc' \in {"drive", "unwind_failed"}
        /\ held' \in {held, held \cup {"server"}}
    BY <1>8 DEF Serve, StartServer, Go
  <2> QED
    BY <1>1, <1>2, <2>1 DEF Early, Middle, PCs
<1>9. CASE Replace
  <2>1. UNCHANGED <<staged, cleanup, held>> /\ Driving /\ Now.op = "replace"
    BY <1>9 DEF Replace, flowRest
  <2>2. step \in 1..L /\ step >= 2 /\ step # L /\ pc = "drive"
    <3>1. step \in 1..L /\ Now = Plan[step] /\ pc = "drive"
      BY <2>1, NowTyped DEF L, Driving
    <3>2. Plan[1].op = "probe" /\ Plan[L].op = "reset"
      BY PlanShape DEF L, SetBoot
    <3> QED
      BY <2>1, <3>1, <3>2
  <2>3. (step' = step + 1 /\ pc' = "drive") \/ (step' = step /\ pc' = "unwind_failed")
    <3>1. Now.op # "probe" /\ ~(step + 1 > Len(Plan))
      BY <1>0, <2>1, <2>2 DEF L
    <3> QED
      BY <1>9, <2>2, <3>1 DEF Replace, Advance, Abort
  <2> QED
    BY <1>0, <1>1, <1>2, <2>1, <2>2, <2>3 DEF Early, Middle, PCs
<1>10. CASE CloseServer \/ LeaveAddress \/ ClearPod
  <2>1. UNCHANGED <<step, pc>> /\ held' \subseteq held \cup {"leftover"} /\ pc \in {"unwind_done", "unwind_failed"}
    BY <1>10 DEF CloseServer, LeaveAddress, RemoveIp, ClearPod, Unwinding
  <2>2. staged' \in 0..3 /\ cleanup' \in BOOLEAN
    <3>1. (staged' = staged \/ staged' = 0) /\ (cleanup' = cleanup \/ cleanup' = FALSE)
      BY <1>10, Zenon DEF CloseServer, LeaveAddress, ClearPod
    <3>2. staged' \in 0..3
      BY <1>1, <3>1
    <3>3. cleanup' \in BOOLEAN
      BY <1>1, <3>1, Zenon
    <3> QED
      BY <3>2, <3>3
  <2> QED
    BY <1>1, <1>2, <2>1, <2>2 DEF Early, Middle, PCs
<1>11. CASE Finish
  <2>1. /\ UNCHANGED <<step, staged, cleanup>> /\ pc \in {"unwind_done", "unwind_failed"} /\ held \cap Out = {}
        /\ \/ pc = "unwind_done" /\ pc' = "done" /\ held' = held \cap {"leftover"}
           \/ pc = "unwind_failed" /\ pc' = "failed" /\ held' = held
    BY <1>11 DEF Finish, Unwinding
  <2> QED
    BY <1>1, <1>2, <2>1 DEF Early, Middle, PCs
<1>12. CASE Issue \/ CameraStep \/ Ended \/ UNCHANGED vars
  <2>1. UNCHANGED <<step, staged, cleanup, held, pc>>
    BY <1>12 DEF Issue, CameraStep, Ended, vars, flow
  <2> QED
    BY <1>1, <1>2, <2>1
<1>13. CASE Ends
  <2>1. PICK resp : Over(resp) /\ Driving /\ Resume(resp) /\ UNCHANGED <<staged, cleanup>>
    BY <1>13 DEF Ends
  <2>2. step \in 1..L /\ pc = "drive"
    BY <2>1, NowTyped DEF L, Driving
  <2>3. \/ step' = step /\ pc' = "unwind_failed" /\ step >= 2 /\ held' = held
        \/ step' = step /\ pc' = "failed" /\ step = 1 /\ held' \subseteq held
        \/ /\ step' = step + 1 \/ (step' = step + 2 /\ Now.op \in {"tftpboot", "printenv"})
           /\ step' <= L + 1 /\ held' = held
           /\ pc' = IF step = 1 THEN "backend" ELSE IF step' > L THEN "unwind_done" ELSE pc
    BY <2>1, ResumeEffect, Zenon DEF L
  <2>4. step = 1 => Now.op = "probe"
    BY <2>1, NowTyped, PlanShape
  <2>5. step = 1 => held \cap Out = {}
    BY <1>1
  <2>6. CASE step' = step
    <3>1. \/ pc' = "unwind_failed" /\ step >= 2 /\ held' = held
          \/ pc' = "failed" /\ step = 1 /\ held' \subseteq held
      BY <2>2, <2>3, <2>6
    <3>2. CASE pc' = "unwind_failed" /\ step >= 2 /\ held' = held
      BY <1>1, <1>2, <2>1, <2>2, <2>6, <3>2 DEF Early, Middle, PCs
    <3>3. CASE pc' = "failed" /\ step = 1 /\ held' \subseteq held
      BY <1>1, <1>2, <2>1, <2>2, <2>5, <2>6, <3>3 DEF Early, Middle, PCs
    <3> QED
      BY <3>1, <3>2, <3>3
  <2>7. CASE step' # step
    <3>1. step = 1 => step' = 2 /\ pc' = "backend"
      BY <2>2, <2>3, <2>4, <2>7
    <3>2. step # 1 => pc' = (IF step' > L THEN "unwind_done" ELSE "drive") /\ step >= 2
      BY <2>2, <2>3, <2>7
    <3>3. step' \in 1..(L + 1) /\ held' = held
      BY <1>0, <2>2, <2>3, <2>7
    <3>4. pc' \in {"backend", "drive", "unwind_done"} /\ (pc' = "unwind_done" => step' = L + 1)
      BY <1>0, <2>2, <3>1, <3>2, <3>3
    <3>5. held' \cap Out # {} => pc' \in {"serve", "drive", "unwind_done", "unwind_failed"} /\ step' >= 2
      <4>1. ASSUME held' \cap Out # {}
            PROVE  step # 1 /\ step >= 2
        BY <2>2, <2>5, <3>2, <3>3, <4>1
      <4>2. step >= 2 => step' >= 2
        BY <2>2, <2>3, <2>7
      <4> QED
        BY <3>2, <3>4, <4>1, <4>2
    <3>6. pc' \in Middle => step' = 2
      BY <2>2, <3>1, <3>2, <3>4 DEF Middle
    <3>7. pc' \in PCs /\ pc' \notin Early /\ pc' # "done"
      BY <3>4 DEF PCs, Early, Middle
    <3> QED
      BY <1>1, <1>2, <2>1, <3>3, <3>4, <3>5, <3>6, <3>7
  <2> QED
    BY <2>6, <2>7
<1> QED
  BY <1>3, <1>4, <1>5, <1>6, <1>7, <1>8, <1>9, <1>10, <1>11, <1>12, <1>13, StepKinds DEF Quiet

LEMMA SyncStep ==
  ASSUME IInv, [Next]_vars
  PROVE  SyncInv'
<1> USE DEF IInv
<1>0. /\ Plan' = Plan /\ Len(Plan) \in Nat
      /\ queue \in Seq(Commands) /\ answers \in Seq(Answers) /\ Len(queue) \in Nat /\ Len(answers) \in Nat
      /\ late \in Nat /\ waiting \in BOOLEAN /\ Len(queue) + Len(answers) <= late + (IF waiting THEN 1 ELSE 0)
  <2>1. Plan' = Plan /\ Len(Plan) \in Nat
    BY StepKinds, SamePlan, PlanShape
  <2>2. /\ queue \in Seq(Commands) /\ answers \in Seq(Answers) /\ late \in 0..MaxLate /\ waiting \in BOOLEAN
        /\ Len(queue) + Len(answers) <= late + (IF waiting THEN 1 ELSE 0)
    BY DEF ConsoleInv
  <2> QED
    BY <2>1, <2>2, ConsoleAssumption
<1>1. CASE Quiet
  <2>1. ~ waiting /\ UNCHANGED <<waiting, late, queue>>
    BY <1>1, QuietEffect DEF console
  <2> QED
    BY <2>1 DEF SyncInv
<1>2. CASE Detect
  <2>1. pc = "detect" /\ UNCHANGED <<waiting, late, queue>>
    BY <1>2 DEF Detect, DetectMode
  <2> QED
    BY <2>1 DEF SyncInv
<1>3. CASE Issue
  <2>1. Driving /\ Send(Now) /\ Now.op # "replace" /\ UNCHANGED <<pc, step>>
    BY <1>3 DEF Issue, flow
  <2>2. Now' = Now /\ pc' = "drive" /\ step' <= Len(Plan')
    BY <1>0, <2>1 DEF Now, Driving
  <2>3. ~ waiting /\ waiting' = TRUE /\ UNCHANGED <<alive, late>> /\ (queue = <<>> /\ alive => queue' = <<Now>>)
    BY <2>1, SendEffect
  <2> HIDE DEF Now
  <2> QED
    BY <2>1, <2>2, <2>3 DEF SyncInv
<1>4. CASE Ends
  <2>1. waiting' = FALSE /\ Len(queue') + Len(answers') <= late'
    BY <1>4, OverEffect DEF Ends
  <2>2. queue' \in Seq(Commands) /\ answers' \in Seq(Answers)
    BY ConsoleStep DEF ConsoleInv
  <2>3. late' = 0 => queue' = <<>>
    BY <2>1, <2>2
  <2> QED
    BY <2>1, <2>3 DEF SyncInv
<1>5. CASE CameraStep
  <2>1. Camera /\ UNCHANGED <<pc, step>>
    BY <1>5 DEF CameraStep, flow
  <2>2. queue # <<>> /\ alive /\ queue' = Tail(queue) /\ UNCHANGED <<waiting, late, alive>>
    BY <2>1, CameraEffect
  <2>3. PICK a \in Answers : answers' = Append(answers, a)
    BY <2>1, CameraEffect
  <2>4. Now' = Now
    BY <1>0, <2>1 DEF Now
  <2>5. ASSUME late' = 0
        PROVE  waiting /\ queue' = <<>> /\ Len(answers') = 1
    <3>1. waiting /\ (queue = <<Now>> \/ queue = <<>>)
      BY <2>2, <2>5 DEF SyncInv
    <3>2. queue = <<Now>>
      BY <2>2, <3>1
    <3> HIDE DEF Now
    <3>3. Len(queue) = 1 /\ Tail(queue) = <<>>
      BY <3>2
    <3>4. Len(answers) = 0
      BY <1>0, <2>2, <2>5, <3>1, <3>3
    <3>5. Len(answers') = Len(answers) + 1
      BY <1>0, <2>3
    <3> QED
      BY <2>2, <3>1, <3>3, <3>4, <3>5
  <2>6. waiting' => pc' = "drive" /\ step' <= Len(Plan') /\ Now'.op # "replace"
    BY <1>0, <2>1, <2>2, <2>4 DEF SyncInv
  <2> HIDE DEF Now
  <2> QED
    BY <2>2, <2>5, <2>6 DEF SyncInv
<1>6. CASE UNCHANGED vars
  <2>1. UNCHANGED <<waiting, late, queue, answers, alive, pc, step>> /\ Now' = Now
    BY <1>0, <1>6 DEF vars, console, flow, Now
  <2> HIDE DEF Now
  <2> QED
    BY <1>0, <2>1 DEF SyncInv
<1> QED
  BY <1>1, <1>2, <1>3, <1>4, <1>5, <1>6, StepKinds

LEMMA SilentStep ==
  ASSUME IInv, [Next]_vars
  PROVE  SilentInv'
<1> USE DEF IInv
<1> SUFFICES ASSUME ~ alive'
             PROVE  step' <= 3 /\ ~ saved'.boot
  BY DEF SilentInv
<1>0. step \in Nat /\ step >= 1
  BY PlanShape DEF FlowInv
<1>1. CASE Quiet
  <2>1. ~ alive /\ saved' = saved
    BY <1>1, QuietEffect DEF console, camera
  <2>2. step <= 3 /\ ~ saved.boot
    BY <2>1 DEF SilentInv
  <2>3. step' = step \/ (Driving /\ Now.op = "replace" /\ step' = step + 1)
    BY <1>1, QuietEffect
  <2>4. step # 3 \/ ~ (Driving /\ Now.op = "replace")
    BY NowTyped, PlanShape
  <2> QED
    BY <1>0, <2>1, <2>2, <2>3, <2>4
<1>2. CASE Detect \/ UNCHANGED vars
  BY <1>2 DEF Detect, DetectMode, vars, flow, console, camera, SilentInv
<1>3. CASE Issue
  <2>1. UNCHANGED <<alive, saved, step>>
    BY <1>3, SendEffect DEF Issue, flow
  <2> QED
    BY <2>1 DEF SilentInv
<1>4. CASE Ends
  <2>1. PICK resp : Over(resp) /\ Driving /\ Resume(resp)
    BY <1>4 DEF Ends
  <2>2. UNCHANGED <<alive, saved>> /\ (~alive => resp = <<>>)
    BY <2>1, OverEffect
  <2>3. step <= 3 /\ ~ saved.boot /\ resp = <<>>
    BY <2>2 DEF SilentInv
  <2>4. /\ step' = step \/ step' = step + 1 \/ (step' = step + 2 /\ Now.op \in {"tftpboot", "printenv"})
        /\ Now.op = "tftpboot" /\ resp = <<>> => step' = step
    BY <2>1, ResumeEffect, Zenon
  <2>5. /\ step = 1 => Now.op = "probe"
        /\ step = 2 => Now.op = "setenv_net"
        /\ step = 3 => Now.op = "tftpboot"
    BY <2>1, NowTyped, PlanShape
  <2> QED
    BY <1>0, <2>2, <2>3, <2>4, <2>5
<1>5. CASE CameraStep
  BY <1>5, CameraEffect DEF CameraStep
<1> QED
  BY <1>1, <1>2, <1>3, <1>4, <1>5, StepKinds

\* As long as every answer is in time, what the camera runs is what the plan
\* is at.
LEMMA CameraInTime ==
  ASSUME IInv, CameraStep, late' = 0
  PROVE  /\ late = 0 /\ waiting /\ alive /\ Driving /\ Head(queue) = Now /\ queue' = <<>>
         /\ UNCHANGED <<step, pc, waiting, alive>> /\ Now' = Now
         /\ \A a : answers' = Append(answers, a) => answers'[1] = a
<1> USE DEF IInv
<1>1. Camera /\ UNCHANGED <<kind, wipe, pc, step>>
  BY DEF CameraStep, flow
<1>2. queue # <<>> /\ alive /\ queue' = Tail(queue) /\ UNCHANGED <<waiting, late, alive>>
  BY <1>1, CameraEffect
<1>3. Now' = Now
  BY <1>1, SamePlan DEF Now
<1>4. /\ answers \in Seq(Answers) /\ Len(answers) \in Nat
      /\ Len(queue) + Len(answers) <= late + (IF waiting THEN 1 ELSE 0)
  BY DEF ConsoleInv
<1>5. waiting /\ queue = <<Now>> /\ Driving
  BY <1>2 DEF SyncInv, Driving
<1> HIDE DEF Now
<1>6. Len(queue) = 1 /\ Tail(queue) = <<>> /\ Head(queue) = Now
  BY <1>5
<1>7. answers = <<>>
  BY <1>2, <1>4, <1>5, <1>6
<1>8. \A a : answers' = Append(answers, a) => answers'[1] = a
  BY <1>7
<1> QED
  BY <1>1, <1>2, <1>3, <1>5, <1>6, <1>8

LEMMA MacStep ==
  ASSUME IInv, [Next]_vars
  PROVE  MacInv'
<1> USE DEF IInv
<1> DEFINE S == SetBoot
<1>0. /\ SetBoot' = S /\ eth0' = eth0 /\ OwnMac' = OwnMac /\ S \in Nat /\ S >= 18 /\ step \in Nat /\ step >= 1
      /\ Len(Plan) = S + 4
  BY StepKinds, SamePlan, PlanShape DEF SetBoot, OwnMac, FlowInv
<1>1. ASSUME late = 0
      PROVE  /\ step <= S + 1 => env.eth = eth0
             /\ step = S + 1 /\ waiting /\ alive /\ queue = <<>> => answers[1] = Answer("eth", env.eth)
             /\ step = S + 2 => eth0 = "default" /\ env.eth \in {"default", "new"}
             /\ step = S + 2 /\ waiting /\ alive /\ queue = <<>> => env.eth = "new"
             /\ step >= S + 3 => env.eth = OwnMac
             /\ saved.boot => saved.eth = OwnMac /\ step >= S + 3
  BY <1>1 DEF MacInv
<1>2. SUFFICES ASSUME late' = 0
               PROVE  /\ step' <= S + 1 => env'.eth = eth0
                      /\ step' = S + 1 /\ waiting' /\ alive' /\ queue' = <<>> => answers'[1] = Answer("eth", env'.eth)
                      /\ step' = S + 2 => eth0 = "default" /\ env'.eth \in {"default", "new"}
                      /\ step' = S + 2 /\ waiting' /\ alive' /\ queue' = <<>> => env'.eth = "new"
                      /\ step' >= S + 3 => env'.eth = OwnMac
                      /\ saved'.boot => saved'.eth = OwnMac /\ step' >= S + 3
  <2>1. Answer("eth", env.eth)' = Answer("eth", env'.eth)
    OBVIOUS
  <2> QED
    BY <1>0, <1>2 DEF MacInv
<1>3. ASSUME Driving
      PROVE  /\ step <= S + 4
             /\ step = S => Now.op = "setenv_boot"
             /\ step = S + 1 => Now.op = "printenv"
             /\ step = S + 2 => Now.op = "setenv_mac"
             /\ step = S + 3 => Now.op = "saveenv"
             /\ step = S + 4 => Now.op = "reset"
             /\ step < S => Now.op \notin EnvOps
  <2>1. step \in 1..Len(Plan) /\ Now = Plan[step]
    BY <1>3, NowTyped
  <2> HIDE DEF Now
  <2> QED
    BY <1>0, <2>1, PlanShape
<1> HIDE DEF S
<1>4. CASE Quiet
  <2>1. ~ waiting' /\ UNCHANGED <<env, saved, late>>
    BY <1>4, QuietEffect DEF console, camera
  <2>2. step' = step \/ (Driving /\ Now.op = "replace" /\ step' = step + 1)
    BY <1>4, QuietEffect
  <2>3. Driving /\ Now.op = "replace" => step < S
    BY <1>0, <1>3
  <2>4. CASE step' = step
    BY <1>1, <1>2, <2>1, <2>4
  <2>5. CASE step < S /\ step' = step + 1
    BY <1>0, <1>1, <1>2, <2>1, <2>5
  <2> QED
    BY <2>2, <2>3, <2>4, <2>5
<1>5. CASE Detect \/ UNCHANGED vars
  <2>1. UNCHANGED <<env, saved, late, step, waiting, alive, queue, answers>>
    BY <1>5 DEF Detect, DetectMode, vars, flow, console, camera
  <2> QED
    BY <1>1, <1>2, <2>1
<1>6. CASE Issue
  <2>1. Driving /\ Send(Now) /\ step' = step
    BY <1>6 DEF Issue, flow
  <2>2. UNCHANGED <<env, saved, late, alive>> /\ ~waiting /\ (queue = <<>> /\ alive => queue' = <<Now>>)
    BY <2>1, SendEffect
  <2>3. alive' => queue' # <<>>
    <3>1. queue = <<>>
      BY <1>2, <2>2 DEF SyncInv
    <3> HIDE DEF Now
    <3>2. <<Now>> # <<>>
      OBVIOUS
    <3> QED
      BY <2>2, <3>1, <3>2
  <2> QED
    BY <1>1, <1>2, <2>1, <2>2, <2>3
<1>7. CASE Ends
  <2>1. PICK resp : Over(resp) /\ Driving /\ Resume(resp)
    BY <1>7 DEF Ends
  <2>2. /\ UNCHANGED <<env, saved, alive>> /\ ~waiting' /\ late = 0 /\ waiting
        /\ \/ alive /\ resp = answers /\ queue = <<>> /\ Len(answers) = 1
           \/ ~alive /\ resp = <<>>
    BY <1>2, <2>1, OverEffect
  <2>3. /\ step' = step \/ step' = step + 1 \/ (step' = step + 2 /\ Now.op \in {"tftpboot", "printenv"})
        /\ Now.op = "printenv" => step' = step + (IF HasOwnMac(resp) THEN 2 ELSE 1)
    BY <2>1, ResumeEffect, Zenon
  <2>4. CASE step' = step
    BY <1>1, <2>2, <2>4
  <2>5. CASE ~ alive
    BY <1>0, <1>1, <2>2, <2>3, <2>5 DEF SilentInv
  <2>6. CASE step' # step /\ alive
    <3>1. CASE step < S
      <4>1. step' <= S + 1 /\ step' \in Nat
        BY <1>0, <1>3, <2>1, <2>3, <3>1
      <4> QED
        BY <1>0, <1>1, <2>2, <3>1, <4>1
    <3>2. CASE step = S
      <4>1. step' = S + 1
        BY <1>0, <1>3, <2>1, <2>3, <2>6, <3>2
      <4> QED
        BY <1>0, <1>1, <2>2, <3>2, <4>1
    <3>3. CASE step = S + 1
      <4>1. answers[1] = Answer("eth", env.eth) /\ answers \in Seq(Answers)
        BY <1>0, <1>1, <2>2, <2>6, <3>3 DEF ConsoleInv
      <4>2. Has(resp, "eth") /\ Found(resp, "eth") = env.eth
        BY <2>2, <2>6, <4>1, OneAnswer
      <4>3. HasOwnMac(resp) <=> env.eth \in {"own", "new"}
        BY <4>2 DEF HasOwnMac
      <4>4. env.eth = eth0 /\ eth0 \in {"own", "default"}
        BY <1>0, <1>1, <2>2, <3>3 DEF FlowInv
      <4>5. step' = step + (IF HasOwnMac(resp) THEN 2 ELSE 1)
        BY <1>3, <2>1, <2>3, <3>3
      <4>6. CASE eth0 = "own"
        <5>1. step' = S + 3 /\ env'.eth = "own" /\ OwnMac = "own"
          <6>1. HasOwnMac(resp)
            BY <4>3, <4>4, <4>6
          <6> QED
            BY <1>0, <2>2, <3>3, <4>4, <4>5, <4>6, <6>1 DEF OwnMac
        <5> QED
          BY <1>0, <1>1, <2>2, <3>3, <5>1
      <4>7. CASE eth0 = "default"
        <5>1. step' = S + 2 /\ env'.eth = "default"
          <6>1. ~ HasOwnMac(resp)
            BY <4>3, <4>4, <4>7
          <6> QED
            BY <1>0, <2>2, <3>3, <4>4, <4>5, <4>7, <6>1
        <5> QED
          BY <1>0, <1>1, <2>2, <3>3, <4>7, <5>1
      <4> QED
        BY <4>4, <4>6, <4>7
    <3>4. CASE step = S + 2
      <4>1. env.eth = "new" /\ eth0 = "default" /\ step' = S + 3
        BY <1>0, <1>1, <1>3, <2>1, <2>2, <2>3, <2>6, <3>4
      <4> QED
        BY <1>0, <1>1, <2>2, <3>4, <4>1 DEF OwnMac
    <3>5. CASE step >= S + 3
      BY <1>0, <1>1, <2>2, <2>3, <3>5
    <3> QED
      BY <1>0, <3>1, <3>2, <3>3, <3>4, <3>5
  <2> QED
    BY <2>4, <2>5, <2>6
<1>8. CASE CameraStep
  <2>1. /\ late = 0 /\ waiting /\ alive /\ Driving /\ Head(queue) = Now /\ queue' = <<>>
        /\ UNCHANGED <<step, waiting, alive>>
        /\ \A a : answers' = Append(answers, a) => answers'[1] = a
    BY <1>2, <1>8, CameraInTime
  <2>2. /\ Now.op = "printenv" => answers' = Append(answers, Answer("eth", env.eth))
        /\ env'.eth = IF Now.op = "setenv_mac" THEN "new" ELSE env.eth
        /\ Now.op # "saveenv" => saved'.boot = saved.boot
        /\ Now.op \notin {"saveenv", "erase_env"} => saved' = saved
        /\ Now.op = "saveenv" => saved' = env
    BY <1>8, <2>1, CameraEffect DEF CameraStep
  <2>3. step <= S + 4 /\ (step \in {S, S + 1, S + 2, S + 3, S + 4} \/ step < S)
    BY <1>0, <1>3, <2>1
  <2>4. CASE step < S
    <3>1. Now.op \notin EnvOps
      BY <1>3, <2>1, <2>4
    <3>2. env'.eth = env.eth /\ saved'.boot = saved.boot
      BY <2>2, <3>1 DEF EnvOps
    <3> QED
      BY <1>0, <1>1, <2>1, <2>4, <3>2
  <2>5. CASE step = S
    <3>1. env'.eth = env.eth /\ saved'.boot = saved.boot
      BY <1>3, <2>1, <2>2, <2>5
    <3> QED
      BY <1>0, <1>1, <2>1, <2>5, <3>1
  <2>6. CASE step = S + 1
    <3>1. env'.eth = env.eth /\ saved'.boot = saved.boot /\ answers'[1] = Answer("eth", env.eth)
      BY <1>3, <2>1, <2>2, <2>6
    <3> QED
      BY <1>0, <1>1, <2>1, <2>6, <3>1
  <2>7. CASE step = S + 2
    <3>1. env'.eth = "new" /\ saved'.boot = saved.boot
      BY <1>3, <2>1, <2>2, <2>7
    <3> QED
      BY <1>0, <1>1, <2>1, <2>7, <3>1
  <2>8. CASE step = S + 3
    <3>1. env'.eth = env.eth /\ saved' = env
      BY <1>3, <2>1, <2>2, <2>8
    <3> QED
      BY <1>0, <1>1, <2>1, <2>8, <3>1
  <2>9. CASE step = S + 4
    <3>1. env'.eth = env.eth /\ saved' = saved
      BY <1>3, <2>1, <2>2, <2>9
    <3> QED
      BY <1>0, <1>1, <2>1, <2>9, <3>1
  <2> QED
    BY <2>3, <2>4, <2>5, <2>6, <2>7, <2>8, <2>9
<1> QED
  BY <1>4, <1>5, <1>6, <1>7, <1>8, StepKinds

LEMMA FlashStep ==
  ASSUME IInv, [Next]_vars
  PROVE  FlashInv'
<1> USE DEF IInv
<1>0. kind' = kind /\ step \in Nat /\ step >= 1 /\ Plan' = Plan
  BY StepKinds, SamePlan, PlanShape DEF FlowInv
<1>1. SUFFICES ASSUME late' = 0, kind = "nor", hasCrc'
               PROVE  /\ \A k \in 1..3 : step' > 7 * k + 2 => Order[k] \in blind' \/ flash'[Order[k]] = Order[k]
                      /\ \A k \in 1..3 : step' = 7 * k + 2 => Order[k] \in blind' \/ ram' = flash'[Order[k]]
                      /\ waiting' /\ alive' /\ queue' = <<>> =>
                           /\ Now'.op = "crc32" => answers'[1] = Answer("crc", ram')
                           /\ Now'.op = "read" => Now'.part \in blind' \/ ram' = flash'[Now'.part]
  <2>1. Answer("crc", ram)' = Answer("crc", ram') /\ Order' = Order
    BY DEF Order
  <2> HIDE DEF Now
  <2> QED
    BY <1>0, <1>1, <2>1 DEF FlashInv
<1>2. ASSUME late = 0, hasCrc
      PROVE  /\ \A k \in 1..3 : step > 7 * k + 2 => Order[k] \in blind \/ flash[Order[k]] = Order[k]
             /\ \A k \in 1..3 : step = 7 * k + 2 => Order[k] \in blind \/ ram = flash[Order[k]]
             /\ waiting /\ alive /\ queue = <<>> =>
                  /\ Now.op = "crc32" => answers[1] = Answer("crc", ram)
                  /\ Now.op = "read" => Now.part \in blind \/ ram = flash[Now.part]
  BY <1>1, <1>2 DEF FlashInv
<1>3. ASSUME Driving
      PROVE  step \in 1..28 /\ Now = Plan[step]
  BY <1>1, <1>3, NowTyped, NorTable
<1>4. CASE Quiet
  <2>1. ~ waiting' /\ UNCHANGED <<ram, flash, late, hasCrc, blind>>
    BY <1>4, QuietEffect DEF console, camera
  <2>2. step' = step
    BY <1>1, <1>3, <1>4, QuietEffect, NorTouch
  <2> QED
    BY <1>1, <1>2, <2>1, <2>2
<1>5. CASE Detect \/ UNCHANGED vars
  <2>1. UNCHANGED <<ram, flash, hasCrc, blind, late, step, waiting, alive, queue, answers>>
    BY <1>5 DEF Detect, DetectMode, vars, flow, console, camera
  <2>2. Now' = Now
    BY <1>0, <2>1 DEF Now
  <2> HIDE DEF Now
  <2> QED
    BY <1>1, <1>2, <2>1, <2>2
<1>6. CASE Issue
  <2>1. Driving /\ Send(Now) /\ step' = step
    BY <1>6 DEF Issue, flow
  <2>2. UNCHANGED <<ram, flash, hasCrc, blind, late, alive>> /\ ~waiting /\ (queue = <<>> /\ alive => queue' = <<Now>>)
    BY <2>1, SendEffect
  <2>3. alive' => queue' # <<>>
    <3>1. queue = <<>>
      BY <1>1, <2>2 DEF SyncInv
    <3> HIDE DEF Now
    <3>2. <<Now>> # <<>>
      OBVIOUS
    <3> QED
      BY <2>2, <3>1, <3>2
  <2> HIDE DEF Now
  <2> QED
    BY <1>1, <1>2, <2>1, <2>2, <2>3
<1>7. CASE Ends
  <2>1. PICK resp : Over(resp) /\ Driving /\ Resume(resp)
    BY <1>7 DEF Ends
  <2>2. /\ UNCHANGED <<ram, flash, hasCrc, blind, alive>> /\ ~waiting' /\ late = 0 /\ waiting
        /\ \/ alive /\ resp = answers /\ queue = <<>> /\ Len(answers) = 1
           \/ ~alive /\ resp = <<>>
    BY <1>1, <2>1, OverEffect
  <2>3. /\ step' = step \/ step' = step + 1 \/ (step' = step + 2 /\ Now.op \in {"tftpboot", "printenv"})
        /\ Now.op = "crc32" /\ step' # step => ~(Has(resp, "crc") /\ Found(resp, "crc") # Image(Now.part))
    BY <2>1, ResumeEffect, Zenon
  <2>4. SUFFICES ASSUME NEW k \in 1..3
                 PROVE  /\ step' > 7 * k + 2 => Order[k] \in blind \/ flash[Order[k]] = Order[k]
                        /\ step' = 7 * k + 2 => Order[k] \in blind \/ ram = flash[Order[k]]
    BY <2>2
  <2>5. step \in 1..28 /\ Now = Plan[step]
    BY <1>3, <2>1
  <2>6. /\ step = 7 * k => Now.op = "write"
        /\ step = 7 * k + 1 => Now.op = "read" /\ Now.part = Order[k]
        /\ step = 7 * k + 2 => Now.op = "crc32" /\ Now.part = Order[k]
    <3>1. /\ Plan[7 * k].op = "write" /\ Plan[7 * k + 1].op = "read" /\ Plan[7 * k + 2].op = "crc32"
          /\ Plan[7 * k + 1].part = Order[k] /\ Plan[7 * k + 2].part = Order[k]
      <4>1. 7 * k + 1 \in (7 * k - 4)..(7 * k + 2) /\ 7 * k + 2 \in (7 * k - 4)..(7 * k + 2)
        OBVIOUS
      <4> QED
        BY <1>1, <4>1, NorCommands
    <3> HIDE DEF Now
    <3> QED
      BY <2>5, <3>1
  <2> HIDE DEF Now
  <2>7. CASE step' = step
    BY <1>1, <1>2, <2>2, <2>7
  <2>8. CASE ~ alive
    <3>1. step <= 3 /\ step' \in Nat /\ step' <= 5
      BY <1>0, <2>3, <2>8 DEF SilentInv
    <3> QED
      BY <3>1
  <2>9. CASE step' # step /\ alive
    <3>1. ASSUME step' = 7 * k + 2
          PROVE  Order[k] \in blind \/ ram = flash[Order[k]]
      <4>1. step = 7 * k + 1
        BY <2>3, <2>5, <2>6, <2>9, <3>1
      <4> QED
        BY <1>1, <1>2, <2>2, <2>6, <2>9, <4>1
    <3>2. ASSUME step' > 7 * k + 2
          PROVE  Order[k] \in blind \/ flash[Order[k]] = Order[k]
      <4>1. CASE step > 7 * k + 2
        BY <1>1, <1>2, <2>2, <4>1
      <4>2. CASE ~(step > 7 * k + 2)
        <5>1. step = 7 * k + 2
          BY <2>3, <2>5, <2>6, <2>9, <3>2, <4>2
        <5>2. answers[1] = Answer("crc", ram) /\ answers \in Seq(Answers)
          BY <1>1, <1>2, <2>2, <2>6, <2>9, <5>1 DEF ConsoleInv
        <5>3. Has(resp, "crc") /\ Found(resp, "crc") = ram
          BY <2>2, <2>9, <5>2, OneAnswer
        <5>4. ram = Image(Order[k])
          BY <2>3, <2>6, <2>9, <5>1, <5>3
        <5>5. Image(Order[k]) = Order[k]
          BY <1>1 DEF Image
        <5> QED
          BY <1>1, <1>2, <2>2, <5>1, <5>4, <5>5
      <4> QED
        BY <4>1, <4>2
    <3> QED
      BY <3>1, <3>2
  <2> QED
    BY <2>7, <2>8, <2>9
<1>8. CASE CameraStep
  <2>1. /\ late = 0 /\ waiting /\ alive /\ Driving /\ Head(queue) = Now /\ queue' = <<>>
        /\ step' = step /\ Now' = Now
        /\ \A a : answers' = Append(answers, a) => answers'[1] = a
    BY <1>1, <1>8, CameraInTime
  <2>2. /\ \/ flash' = flash
           \/ /\ Touches(Now)
              /\ \E x \in Contents : flash' = [flash EXCEPT ![Now.part] = x]
        /\ Now.op = "crc32" => UNCHANGED <<ram, flash>> /\ answers' = Append(answers, Answer("crc", ram))
        /\ Now.op = "read" => flash' = flash /\ (Now.part \in blind' \/ ram' = flash[Now.part])
        /\ hasCrc /\ blind \subseteq blind'
    BY <1>1, <1>8, <2>1, CameraEffect DEF CameraStep
  <2>3. step \in 1..28 /\ Now = Plan[step]
    BY <1>3, <2>1
  <2>4. ASSUME NEW k \in 1..3, step > 7 * k + 2
        PROVE  flash'[Order[k]] = flash[Order[k]]
    <3>1. CASE flash' = flash
      BY <3>1
    <3>2. CASE flash' # flash
      <4>1. Touches(Now)
        BY <2>2, <3>2
      <4>2. PICK x \in Contents : flash' = [flash EXCEPT ![Now.part] = x]
        BY <2>2, <3>2
      <4>3. PICK n \in 1..3 : Now.part = Order[n] /\ step <= 7 * n + 2
        BY <1>1, <2>3, <4>1, NorTouch
      <4>4. n # k
        BY <2>3, <2>4, <4>3
      <4>5. Order[n] # Order[k] /\ Order[k] \in Parts
        BY <4>4, PartsAssumption DEF Order
      <4> QED
        BY <4>2, <4>3, <4>5 DEF ConsoleInv
    <3> QED
      BY <3>1, <3>2
  <2>5. ASSUME NEW k \in 1..3, step = 7 * k + 2
        PROVE  Now.op = "crc32"
    BY <1>1, <2>3, <2>5, NorCommands
  <2> HIDE DEF Now
  <2>6. \A k \in 1..3 : step' > 7 * k + 2 => Order[k] \in blind' \/ flash'[Order[k]] = Order[k]
    BY <1>2, <2>1, <2>2, <2>4
  <2>7. \A k \in 1..3 : step' = 7 * k + 2 => Order[k] \in blind' \/ ram' = flash'[Order[k]]
    BY <1>2, <2>1, <2>2, <2>5
  <2>8. /\ Now'.op = "crc32" => answers'[1] = Answer("crc", ram')
        /\ Now'.op = "read" => Now'.part \in blind' \/ ram' = flash'[Now'.part]
    BY <2>1, <2>2
  <2> QED
    BY <2>6, <2>7, <2>8
<1> QED
  BY <1>4, <1>5, <1>6, <1>7, <1>8, StepKinds

---------------------------------------------------------------------------
(* The theorems.                                                           *)

LEMMA InitInv == Init => IInv
<1> SUFFICES ASSUME Init
             PROVE  IInv
  OBVIOUS
<1> USE DEF Init, ConsoleInit
<1>0. Len(Plan) \in Nat /\ Len(Plan) >= 22 /\ SetBoot \in Nat /\ SetBoot >= 18 /\ MaxLate \in Nat
  BY PlanShape, ConsoleAssumption DEF SetBoot
<1>1. /\ env \in Environments /\ saved = env /\ ~ saved.boot /\ env.eth \in {"own", "default"}
  BY DEF Environments
<1>2. ConsoleInv
  <2>1. /\ mode = "none" /\ alive \in BOOLEAN /\ waiting = FALSE /\ late = 0 /\ queue = <<>> /\ answers = <<>>
        /\ flash = [p \in Parts |-> "old"] /\ ram = "bad" /\ serving = [p \in Parts |-> "none"]
    OBVIOUS
  <2>2. flash \in [Parts -> Contents] /\ ram \in Contents /\ serving \in [Parts -> Parts \cup {"none", "ubifs"}]
    BY <2>1 DEF Contents
  <2>3. /\ queue \in Seq(Commands) /\ answers \in Seq(Answers) /\ late \in 0..MaxLate
        /\ Len(queue) + Len(answers) <= late + (IF waiting THEN 1 ELSE 0)
    BY <1>0, <2>1
  <2> QED
    BY <1>1, <2>1, <2>2, <2>3 DEF ConsoleInv
<1>3. FlowInv /\ HeldInv
  <2>1. /\ kind \in {"nor", "nand", "ubi"} /\ wipe \in BOOLEAN /\ eth0 \in {"own", "default"}
        /\ pc = "prepare" /\ step = 1 /\ held = {} /\ staged = 0 /\ cleanup = FALSE
    BY <1>1
  <2>2. step \in 1..(Len(Plan) + 1) /\ staged \in 0..3
    BY <1>0, <2>1
  <2> QED
    BY <2>1, <2>2 DEF FlowInv, HeldInv, PCs, Early, Middle
<1>4. SyncInv /\ SilentInv
  BY <1>1 DEF SyncInv, SilentInv
<1>5. MacInv
  BY <1>0, <1>1 DEF MacInv
<1>6. FlashInv
  BY DEF FlashInv
<1> QED
  BY <1>2, <1>3, <1>4, <1>5, <1>6 DEF IInv

THEOREM Invariance == Spec => []IInv
<1>1. Init => IInv
  BY InitInv
<1>2. IInv /\ [Next]_vars => IInv'
  BY ConsoleStep, FlowStep, SyncStep, SilentStep, MacStep, FlashStep DEF IInv
<1> QED
  BY <1>1, <1>2, PTL DEF Spec

\* Every variable of an install has its type in every reachable state, and no
\* more answers are in flight than have missed their timeout, and one: what
\* flashdump.send_command and DownloadCommandClient.send_command rely on.
THEOREM TypeCorrect == Spec => []TypeOK
<1>1. IInv => TypeOK
  <2> SUFFICES ASSUME IInv
               PROVE  TypeOK
    OBVIOUS
  <2>1. /\ queue \in Seq(Commands) /\ answers \in Seq(Answers) /\ Len(queue) \in Nat /\ Len(answers) \in Nat
        /\ late \in 0..MaxLate /\ MaxLate \in Nat
        /\ Len(queue) + Len(answers) <= late + (IF waiting THEN 1 ELSE 0)
    BY ConsoleAssumption DEF IInv, ConsoleInv
  <2>2. Len(queue) <= MaxLate + 1 /\ Len(answers) <= MaxLate + 1
    BY <2>1
  <2>3. /\ pc \in {"prepare", "uboot", "power", "link", "burn", "detect", "backend", "stage", "address",
                   "serve", "drive", "unwind_done", "unwind_failed", "done", "failed"}
    BY DEF IInv, FlowInv, PCs, Early, Middle
  <2> QED
    BY <2>1, <2>2, <2>3 DEF TypeOK, IInv, ConsoleInv, FlowInv
<1> QED
  BY <1>1, Invariance, PTL

\* When _install_async returns, whichever step failed, the TFTP server is closed
\* and remove_ip has run for an address it added; after a success the transport
\* and the power controller are closed too (the AsyncExitStack and what follows).
THEOREM HostLeftAsFoundHolds == Spec => []HostLeftAsFound
<1>1. IInv => HostLeftAsFound
  BY DEF IInv, HeldInv, HostLeftAsFound
<1> QED
  BY <1>1, Invariance, PTL

\* When every command is answered in time, the MAC address that saveenv
\* persists is the camera's own one or a new one, never the one all cameras
\* share (the printenv, setenv ethaddr and saveenv at the end of _install_async).
THEOREM MacIsItsOwnHolds == Spec => []MacIsItsOwn
<1>1. IInv => MacIsItsOwn
  BY DEF IInv, MacInv, MacIsItsOwn, OwnMac
<1> QED
  BY <1>1, Invariance, PTL

\* On NOR, when every command is answered in time, an install that has saved
\* the environment or ended well has in the flash every partition U-Boot could
\* read back and compute the CRC-32 of: tftp_and_flash lets nothing else pass.
THEOREM InstalledMeansFlashedHolds == Spec => []InstalledMeansFlashed
<1>1. IInv => InstalledMeansFlashed
  <2> SUFFICES ASSUME IInv, pc = "done" \/ saved.boot, kind = "nor", late = 0, hasCrc
               PROVE  \A p \in Parts \ blind : flash[p] = Image(p)
    BY DEF InstalledMeansFlashed
  <2>1. Len(Plan) = 28 /\ SetBoot = 24
    BY NorTable DEF SetBoot
  <2>2. step \in Nat /\ step >= 27
    BY <2>1 DEF IInv, FlowInv, MacInv
  <2>3. \A k \in 1..3 : Order[k] \in blind \/ flash[Order[k]] = Order[k]
    BY <2>2 DEF IInv, FlashInv
  <2>4. /\ "boot" \in blind \/ flash["boot"] = "boot"
        /\ "kernel" \in blind \/ flash["kernel"] = "kernel"
        /\ "rootfs" \in blind \/ flash["rootfs"] = "rootfs"
    <3>1. Order[1] = "boot" /\ Order[2] = "kernel" /\ Order[3] = "rootfs"
      BY DEF Order
    <3> QED
      BY <2>3, <3>1
  <2> QED
    BY <2>4, PartsAssumption DEF Image
<1> QED
  BY <1>1, Invariance, PTL

\* On NOR, when every command is answered in time, a partition is erased or
\* written only when those before it that U-Boot could verify are in place
\* (a failed comparison in tftp_and_flash ends _install_async there).
THEOREM StopsAtFirstFailureHolds == Spec => StopsAtFirstFailure
<1> DEFINE Stops == kind = "nor" /\ late = 0 /\ hasCrc =>
                      \A i \in 1..3 : flash'[Order[i]] # flash[Order[i]] =>
                        \A j \in 1..(i - 1) : Order[j] \in blind \/ flash[Order[j]] = Order[j]
<1>1. IInv /\ [Next]_vars => [Stops]_vars
  <2> SUFFICES ASSUME IInv, [Next]_vars, kind = "nor", late = 0, hasCrc,
                      NEW i \in 1..3, flash'[Order[i]] # flash[Order[i]], NEW j \in 1..(i - 1)
               PROVE  Order[j] \in blind \/ flash[Order[j]] = Order[j]
    OBVIOUS
  <2>1. CameraStep
    <3>1. Quiet => flash' = flash
      BY QuietEffect DEF console, camera
    <3>2. Detect \/ UNCHANGED vars => flash' = flash
      BY DEF Detect, DetectMode, vars, console, camera
    <3>3. Issue => flash' = flash
      BY SendEffect DEF Issue
    <3>4. Ends => flash' = flash
      BY OverEffect DEF Ends
    <3> QED
      BY <3>1, <3>2, <3>3, <3>4, StepKinds
  <2>2. late' = 0
    BY <2>1, CameraEffect DEF CameraStep
  <2>3. Driving /\ Head(queue) = Now
    BY <2>1, <2>2, CameraInTime
  <2>4. Touches(Now) /\ \E x \in Contents : flash' = [flash EXCEPT ![Now.part] = x]
    BY <2>1, <2>3, CameraEffect DEF CameraStep
  <2>5. step \in 1..28 /\ Now = Plan[step]
    BY <2>3, NowTyped, NorTable
  <2>6. PICK n \in 1..3 : Now.part = Order[n] /\ 7 * n - 4 <= step
    BY <2>4, <2>5, NorTouch
  <2> HIDE DEF Now
  <2>7. n = i
    <3>1. \A a \in 1..3, b \in 1..3 : a # b => Order[a] # Order[b]
      BY DEF Order
    <3>2. \A a \in 1..3 : Order[a] \in Parts
      BY PartsAssumption DEF Order
    <3> QED
      BY <2>4, <2>6, <3>1, <3>2 DEF IInv, ConsoleInv
  <2>8. j \in 1..3 /\ step > 7 * j + 2
    BY <2>5, <2>6, <2>7
  <2> QED
    BY <2>8 DEF IInv, FlashInv
<1>2. Spec => [][Stops]_vars
  BY <1>1, Invariance, PTL DEF Spec
<1> QED
  BY <1>2, Zenon DEF StopsAtFirstFailure
=============================================================================
